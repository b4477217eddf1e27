---------------------- MODULE ContractDetailPageProofs ----------------------
(***************************************************************************)
(* What the notices of the detail page say is true, for any number of      *)
(* contracts, of calls in progress and of revisions, as long as the user   *)
(* does not jump to another contract while a call is in progress: then the *)
(* answer for the one may arrive on the page of the other, and the notice  *)
(* that is shown there is wrong.                                           *)
(***************************************************************************)
EXTENDS ContractDetailPage, TLAPS

Details == [id : Contracts, revision : Int, status : Statuses]

\* What the API answers to the request of the effect, and to those of a call.
Loads ==
  [is : {"ok"}, contract : Details] \cup [is : {"notFound", "failed", "unauthorized"}]
Answers ==
  [is : {"ok"}, contract : Details] \cup [is : {"conflict", "failed", "unauthorized"}]

Calls ==
  [kind : {"edit", "transition"}, step : {"request", "reload", "history"},
   contract : Contracts, expected : Int, target : Targets \cup {None},
   baseline : Details \cup {None}, answer : Answers \cup {None},
   mounted : BOOLEAN]

PageStates ==
  [status : {"loading", "notFound", "failed"}, contract : {None}]
    \cup [status : {"ready"}, contract : Details]

Notices ==
  [status : {"idle", "confirming", "pending", "succeeded", "conflict", "failed"},
   target : Targets \cup {None}, reloadFailed : BOOLEAN]

Forms ==
  [status : {"viewing", "editing", "submitting", "failed", "saved", "conflict"},
   baseline : Details \cup {None}, reloadFailed : BOOLEAN]

PageTypeOK ==
  /\ server \in [Contracts -> [revision : Int, status : Statuses]]
  /\ route \in Contracts \cup {None}
  /\ state \in PageStates
  /\ transitionState \in Notices
  /\ editState \in Forms
  /\ load # None =>
       load \in [contract : Contracts, answer : Loads \cup {None}]
  /\ DOMAIN call = Slots
  /\ \A s \in Slots : call[s] # None => call[s] \in Calls

\* Whatever a page loads, shows or waits for, it is the page of a contract.
PageIsMounted ==
  /\ load # None \/ state.status # "loading" => route # None
  /\ \A s \in Slots : call[s] # None /\ call[s].mounted => route # None

\* A contract never becomes a Draft again, nor Active when it is closed.
Reached(status, target) ==
  /\ status # "DRAFT"
  /\ target = "CLOSED" => status = "CLOSED"

Named(k) == IF k.kind = "edit" THEN k.target = None ELSE k.target \in Targets

\* Whatever asks for a transition says which, and an edit asks for none.
TargetsAreNamed ==
  /\ transitionState.status # "idle" => transitionState.target \in Targets
  /\ \A s \in Slots : call[s] # None => Named(call[s])

Succeeded(k) ==
  /\ k # None
  /\ k.kind = "transition" /\ k.step = "request"
  /\ k.answer # None /\ k.answer.is = "ok"

\* A transition that is answered with success has been made.
SuccessesAreMade ==
  \A s \in Slots : Succeeded(call[s]) =>
    Reached(server[call[s].contract].status, call[s].target)

\* The answer to a call is about the contract it was called for.
Own(k) ==
  k # None /\ k.answer # None /\ k.answer.is = "ok" =>
    k.answer.contract.id = k.contract
AnswersAreOwn == \A s \in Slots : Own(call[s])

\* No function is in progress on the page of another contract than the one it was
\* called for: what a jump in the history of the browser can break.
NoCallIsOutlived ==
  \A s \in Slots : call[s] # None /\ call[s].mounted => call[s].contract = route

\* The contract that is shown, or is being loaded, is the one of the address.
PageIsAddressed ==
  /\ state.status = "ready" => Shown.id = route
  /\ load # None =>
       /\ load.contract = route
       /\ load.answer # None /\ load.answer.is = "ok" => load.answer.contract.id = route

\* The transition a notice is about has been made of the contract of the address.
NoticeIsTrue ==
  transitionState.status = "succeeded" =>
    route \in Contracts /\ Reached(server[route].status, transitionState.target)

PageInv ==
  /\ PageTypeOK
  /\ PageIsMounted
  /\ TargetsAreNamed
  /\ SuccessesAreMade
  /\ AnswersAreOwn
  /\ PageIsAddressed
  /\ NoticeIsTrue

-----------------------------------------------------------------------------
(***************************************************************************)
(* Types.                                                                  *)
(***************************************************************************)

\* What a call looks like after a step of its own.
LEMMA AnswerTyped ==
  ASSUME PageTypeOK, NEW s \in Slots, call[s] # None, NEW a \in Answers, Answer(s, a)
  PROVE  /\ DOMAIN call' = Slots
         /\ call'[s] = [call[s] EXCEPT !.answer = a]
         /\ \A r \in Slots : call'[r] # None => call'[r] \in Calls
         /\ \A r \in Slots \ {s} : call'[r] = call[r]
<1>1. DOMAIN call = Slots /\ call[s] \in Calls
  BY DEF PageTypeOK
<1>2. DOMAIN call' = Slots /\ call'[s] = [call[s] EXCEPT !.answer = a]
  BY <1>1 DEF Answer
<1>3. \A r \in Slots \ {s} : call'[r] = call[r]
  BY <1>1 DEF Answer
<1>4. call'[s] \in Calls
  BY <1>1, <1>2 DEF Calls
<1> QED
  BY <1>2, <1>3, <1>4 DEF PageTypeOK

LEMMA GoOnTyped ==
  ASSUME PageTypeOK, NEW s \in Slots, call[s] # None,
         NEW step \in {"reload", "history"}, GoOn(s, step)
  PROVE  /\ DOMAIN call' = Slots
         /\ call'[s] = [call[s] EXCEPT !.step = step, !.answer = None]
         /\ \A r \in Slots : call'[r] # None => call'[r] \in Calls
         /\ \A r \in Slots \ {s} : call'[r] = call[r]
<1>1. DOMAIN call = Slots /\ call[s] \in Calls
  BY DEF PageTypeOK
<1>2. DOMAIN call' = Slots
      /\ call'[s] = [call[s] EXCEPT !.step = step, !.answer = None]
  BY <1>1 DEF GoOn
<1>3. \A r \in Slots \ {s} : call'[r] = call[r]
  BY <1>1 DEF GoOn
<1>4. call'[s] \in Calls
  BY <1>1, <1>2 DEF Calls
<1> QED
  BY <1>2, <1>3, <1>4 DEF PageTypeOK

LEMMA ReturnTyped ==
  ASSUME PageTypeOK, NEW s \in Slots, Return(s)
  PROVE  /\ DOMAIN call' = Slots
         /\ call'[s] = None
         /\ \A r \in Slots : call'[r] # None => call'[r] \in Calls
         /\ \A r \in Slots \ {s} : call'[r] = call[r]
BY DEF PageTypeOK, Return

LEMMA CallTyped ==
  ASSUME PageTypeOK, state.status = "ready", NEW s \in Slots,
         NEW kind \in {"edit", "transition"}, NEW step \in {"request", "reload"},
         NEW target \in Targets \cup {None}, NEW baseline \in Details \cup {None},
         Call(s, kind, step, target, baseline)
  PROVE  /\ DOMAIN call' = Slots
         /\ call'[s].kind = kind
         /\ call'[s].target = target
         /\ call'[s].answer = None
         /\ \A r \in Slots : call'[r] # None => call'[r] \in Calls
         /\ \A r \in Slots \ {s} : call'[r] = call[r]
<1> DEFINE k == [kind |-> kind, step |-> step, contract |-> Shown.id,
                 expected |-> Shown.revision, target |-> target,
                 baseline |-> baseline, answer |-> None, mounted |-> TRUE]
<1>1. Shown \in Details
  BY DEF PageTypeOK, PageStates, Shown
<1>2. k \in Calls
  BY <1>1 DEF Calls, Details
<1>3. call' = [call EXCEPT ![s] = k]
  BY DEF Call
<1>4. DOMAIN call = Slots
  BY DEF PageTypeOK
<1>5. DOMAIN call' = Slots /\ call'[s] = k /\ \A r \in Slots \ {s} : call'[r] = call[r]
  BY <1>3, <1>4
<1> HIDE DEF k
<1>6. \A r \in Slots : call'[r] # None => call'[r] \in Calls
  BY <1>2, <1>5 DEF PageTypeOK
<1>7. k.kind = kind /\ k.target = target /\ k.answer = None
  BY DEF k
<1> QED
  BY <1>5, <1>6, <1>7

LEMMA UnmountTyped ==
  ASSUME PageTypeOK, Unmount
  PROVE  /\ DOMAIN call' = Slots
         /\ \A r \in Slots : call[r] = None => call'[r] = None
         /\ \A r \in Slots : call'[r] # None =>
              /\ call[r] # None
              /\ call'[r] = [call[r] EXCEPT !.mounted = FALSE]
              /\ call'[r] \in Calls
         /\ state' = Loading /\ transitionState' = Idle
         /\ editState' = Viewing /\ load' = None /\ route' = None
<1>1. DOMAIN call' = Slots
  BY DEF Unmount
<1>2. ASSUME NEW r \in Slots, call'[r] # None
      PROVE  /\ call[r] # None
             /\ call'[r] = [call[r] EXCEPT !.mounted = FALSE]
             /\ call'[r] \in Calls
  <2>1. call[r] # None /\ call'[r] = [call[r] EXCEPT !.mounted = FALSE]
    BY <1>2 DEF Unmount
  <2>2. call[r] \in Calls
    BY <2>1 DEF PageTypeOK
  <2> QED
    BY <2>1, <2>2 DEF Calls
<1> QED
  BY <1>1, <1>2 DEF Unmount

LEMMA BlankTyped ==
  /\ Loading \in PageStates
  /\ Idle \in Notices
  /\ Viewing \in Forms
  /\ \A d \in Details : Ready(d) \in PageStates
  /\ \A t \in Targets, b \in BOOLEAN,
        n \in {"confirming", "pending", "succeeded", "conflict", "failed"} :
       Notice(n, t, b) \in Notices
  /\ \A d \in Details \cup {None},
        f \in {"viewing", "editing", "submitting", "failed", "saved"} :
       Form(f, d) \in Forms
  /\ \A b \in BOOLEAN : EditConflict(b) \in Forms
BY DEF Loading, PageStates, Idle, Notices, Viewing, Forms, Ready, Notice, Form,
       EditConflict

LEMMA DetailTyped ==
  ASSUME PageTypeOK, NEW c \in Contracts
  PROVE  Detailed(c) \in Details
BY DEF PageTypeOK, Detailed, Details

-----------------------------------------------------------------------------
(***************************************************************************)
(* Every step keeps the types.                                             *)
(***************************************************************************)

LEMMA InitTyped == Init => PageTypeOK
<1> SUFFICES ASSUME Init PROVE PageTypeOK
  OBVIOUS
<1>1. server \in [Contracts -> [revision : Int, status : Statuses]]
  BY DEF Init
<1> QED BY <1>1, BlankTyped DEF Init, PageTypeOK

LEMMA LoadingTyped ==
  ASSUME PageTypeOK, NEW c \in Contracts, StartLoading(c), UNCHANGED <<server, call>>
  PROVE  PageTypeOK'
<1>1. load' \in [contract : Contracts, answer : Loads \cup {None}]
  BY DEF StartLoading
<1> QED BY <1>1, BlankTyped DEF PageTypeOK, StartLoading

LEMMA UnmountedTyped ==
  ASSUME PageTypeOK, Unmount, UNCHANGED server
  PROVE  PageTypeOK'
BY UnmountTyped, BlankTyped DEF PageTypeOK

LEMMA ClickingTyped ==
  ASSUME PageTypeOK, PageIsMounted, TargetsAreNamed, Clicking
  PROVE  PageTypeOK'
<1>1. CASE \E c \in Contracts : Navigate(c)
  BY <1>1, LoadingTyped DEF Navigate
<1>2. CASE Leave
  BY <1>2, UnmountedTyped DEF Leave
<1>3. CASE Retry
  <2>1. state.status # "loading"
    BY <1>3 DEF Retry
  <2>2. route # None
    BY <2>1 DEF PageIsMounted
  <2>3. route \in Contracts
    BY <2>2 DEF PageTypeOK
  <2> QED BY <1>3, <2>3, LoadingTyped DEF Retry
<1>4. CASE BeginEditing
  <2>1. Shown \in Details
    BY <1>4 DEF BeginEditing, PageTypeOK, PageStates, Shown
  <2> QED BY <1>4, <2>1, BlankTyped DEF BeginEditing, PageTypeOK
<1>5. CASE UpdateEditField \/ CancelEditing
  <2>1. editState.baseline \in Details \cup {None}
    BY DEF PageTypeOK, Forms
  <2>2. editState' \in Forms
    BY <1>5, <2>1, BlankTyped DEF UpdateEditField, CancelEditing
  <2> QED BY <1>5, <2>2 DEF UpdateEditField, CancelEditing, PageTypeOK
<1>6. CASE AskTransition
  <2>1. Eligible(Shown.status) \in Targets
    BY <1>6 DEF AskTransition, ActionsShown, Eligible, Targets
  <2> QED BY <1>6, <2>1, BlankTyped DEF AskTransition, PageTypeOK
<1>7. CASE CancelTransition
  BY <1>7, BlankTyped DEF CancelTransition, PageTypeOK
<1>8. ASSUME NEW s \in Slots, SubmitEdit(s)
      PROVE  PageTypeOK'
  <2>1. editState.baseline \in Details \cup {None}
    BY DEF PageTypeOK, Forms
  <2>2. editState' \in Forms
    BY <1>8, <2>1, BlankTyped DEF SubmitEdit
  <2>3. DOMAIN call' = Slots /\ \A r \in Slots : call'[r] # None => call'[r] \in Calls
    BY <1>8, <2>1, CallTyped DEF SubmitEdit
  <2> QED BY <1>8, <2>2, <2>3 DEF SubmitEdit, PageTypeOK
<1>9. ASSUME NEW s \in Slots, Confirm(s)
      PROVE  PageTypeOK'
  <2>1. transitionState.target \in Targets
    BY <1>9 DEF TargetsAreNamed, Confirm, Targets
  <2>2. transitionState' \in Notices
    BY <1>9, <2>1, BlankTyped DEF Confirm
  <2>3. DOMAIN call' = Slots /\ \A r \in Slots : call'[r] # None => call'[r] \in Calls
    BY <1>9, <2>1, CallTyped DEF Confirm, ActionsShown
  <2> QED BY <1>9, <2>2, <2>3 DEF Confirm, PageTypeOK
<1>10. ASSUME NEW s \in Slots, ReloadAgain(s)
       PROVE  PageTypeOK'
  <2>1. transitionState.target \in Targets \cup {None}
    BY DEF PageTypeOK, Notices
  <2>2. DOMAIN call' = Slots /\ \A r \in Slots : call'[r] # None => call'[r] \in Calls
    BY <1>10, <2>1, CallTyped DEF ReloadAgain
  <2> QED BY <1>10, <2>2 DEF ReloadAgain, PageTypeOK, page
<1> QED
  BY <1>1, <1>2, <1>3, <1>4, <1>5, <1>6, <1>7, <1>8, <1>9, <1>10 DEF Clicking

LEMMA ServingTyped ==
  ASSUME PageTypeOK, ServeLoad \/ LoadAnswered
  PROVE  PageTypeOK'
<1>1. CASE ServeLoad
  <2>1. load \in [contract : Contracts, answer : Loads \cup {None}]
    BY <1>1 DEF ServeLoad, PageTypeOK
  <2>2. Detailed(load.contract) \in Details
    BY <2>1, DetailTyped
  <2>3. PICK a \in Loads : load' = [load EXCEPT !.answer = a]
    BY <1>1, <2>2 DEF ServeLoad, Loads
  <2>4. load' \in [contract : Contracts, answer : Loads \cup {None}]
    BY <2>1, <2>3
  <2> QED BY <1>1, <2>4 DEF ServeLoad, PageTypeOK
<1>2. CASE LoadAnswered
  <2>1. CASE Unmount
    BY <1>2, <2>1, UnmountedTyped DEF LoadAnswered
  <2>2. CASE ~Unmount
    <3>1. load.answer \in Loads
      BY <1>2 DEF LoadAnswered, PageTypeOK
    <3>2. load.answer.is = "ok" => load.answer.contract \in Details
      BY <3>1 DEF Loads
    <3>3. state' \in PageStates
      <4>1. CASE load.answer.is = "ok"
        BY <1>2, <2>2, <3>2, <4>1, BlankTyped DEF LoadAnswered
      <4>2. CASE load.answer.is \in {"notFound", "failed"}
        BY <1>2, <2>2, <4>2 DEF LoadAnswered, PageStates
      <4> QED BY <1>2, <2>2, <3>1, <4>1, <4>2 DEF Loads, LoadAnswered
    <3> QED BY <1>2, <2>2, <3>3 DEF LoadAnswered, PageTypeOK
  <2> QED BY <2>1, <2>2
<1> QED BY <1>1, <1>2

\* What a call has been answered.
LEMMA AnswerOfCall ==
  ASSUME PageTypeOK, NEW s \in Slots, NEW step, Answered(s, step)
  PROVE  /\ call[s] \in Calls
         /\ call[s].answer \in Answers
         /\ call[s].answer.is = "ok" => call[s].answer.contract \in Details
         /\ call[s].baseline \in Details \cup {None}
         /\ call[s].target \in Targets \cup {None}
<1>1. call[s] \in Calls
  BY DEF Answered, PageTypeOK
<1>2. call[s].answer \in Answers
  BY <1>1 DEF Answered, Calls
<1> QED BY <1>1, <1>2 DEF Calls, Answers

\* A request takes effect: the contract gets a revision, and the call its answer.
LEMMA AcceptTyped ==
  ASSUME PageTypeOK, TargetsAreNamed, NEW s \in Slots,
         call[s] # None, call[s].step = "request", Accept(s)
  PROVE  /\ server' \in [Contracts -> [revision : Int, status : Statuses]]
         /\ \E a \in Answers : Answer(s, a)
         /\ server'[call[s].contract].status =
              IF call[s].kind = "edit" THEN "DRAFT" ELSE call[s].target
         /\ \A c \in Contracts \ {call[s].contract} : server'[c] = server[c]
<1> DEFINE c == call[s].contract
           next == [revision |-> server[c].revision + 1,
                    status |-> IF call[s].kind = "edit" THEN "DRAFT"
                               ELSE call[s].target]
<1>1. call[s] \in Calls
  BY DEF PageTypeOK
<1>2. c \in Contracts /\ call[s].kind \in {"edit", "transition"}
  BY <1>1 DEF Calls
<1>3. server[c] \in [revision : Int, status : Statuses]
  BY <1>2 DEF PageTypeOK
<1>4. call[s].kind = "transition" => call[s].target \in Targets
  BY DEF TargetsAreNamed, Named
<1>5. next \in [revision : Int, status : Statuses]
  BY <1>2, <1>3, <1>4 DEF Statuses
<1>6. server' = [server EXCEPT ![c] = next]
  BY DEF Accept
<1>7. \/ Answer(s, [is |-> "ok", contract |-> [id |-> c, revision |-> next.revision,
                                               status |-> next.status]])
      \/ Answer(s, [is |-> "failed"])
  BY DEF Accept
<1> HIDE DEF c
<1>8. [id |-> c, revision |-> next.revision, status |-> next.status] \in Details
  BY <1>2, <1>5 DEF Details
<1>9. \E a \in Answers : Answer(s, a)
  BY <1>7, <1>8 DEF Answers
<1>10. next.status = IF call[s].kind = "edit" THEN "DRAFT" ELSE call[s].target
  OBVIOUS
<1> HIDE DEF next
<1> QED BY <1>2, <1>5, <1>6, <1>9, <1>10 DEF PageTypeOK, c

LEMMA DeclineTyped ==
  ASSUME PageTypeOK, NEW s \in Slots, call[s] # None, Decline(s)
  PROVE  /\ \E a \in Answers :
              /\ Answer(s, a)
              /\ a.is = "ok" => call[s].kind = "edit"
         /\ UNCHANGED server
<1>1. call[s].contract \in Contracts
  BY DEF PageTypeOK, Calls
<1>2. Detailed(call[s].contract) \in Details
  BY <1>1, DetailTyped
<1>3. [is |-> "ok", contract |-> Detailed(call[s].contract)] \in Answers
  BY <1>2 DEF Answers
<1>4. [is |-> "conflict"] \in Answers /\ [is |-> "failed"] \in Answers
      /\ [is |-> "unauthorized"] \in Answers
  BY DEF Answers
<1> QED BY <1>3, <1>4 DEF Decline

LEMMA ReloadServed ==
  ASSUME PageTypeOK, NEW s \in Slots, ServeReload(s)
  PROVE  \E a \in Answers : Answer(s, a)
<1>1. call[s].contract \in Contracts
  BY DEF PageTypeOK, Calls, ServeReload
<1>2. Detailed(call[s].contract) \in Details
  BY <1>1, DetailTyped
<1> QED BY <1>2 DEF ServeReload, Answers

LEMMA RequestServedTyped ==
  ASSUME PageTypeOK, TargetsAreNamed, NEW s \in Slots,
         ServeRequest(s) \/ ServeReload(s)
  PROVE  PageTypeOK'
<1>1. CASE ServeRequest(s) /\ Accept(s)
  <2>1. PICK a \in Answers : Answer(s, a)
    BY <1>1, AcceptTyped DEF ServeRequest
  <2>2. DOMAIN call' = Slots /\ \A r \in Slots : call'[r] # None => call'[r] \in Calls
    BY <1>1, <2>1, AnswerTyped DEF ServeRequest
  <2>3. server' \in [Contracts -> [revision : Int, status : Statuses]]
    BY <1>1, AcceptTyped DEF ServeRequest
  <2> QED BY <1>1, <2>2, <2>3 DEF PageTypeOK, ServeRequest, page
<1>2. CASE ServeRequest(s) /\ Decline(s)
  <2>1. /\ \E a \in Answers : Answer(s, a)
        /\ UNCHANGED server
    BY <1>2, DeclineTyped DEF ServeRequest
  <2>2. DOMAIN call' = Slots /\ \A r \in Slots : call'[r] # None => call'[r] \in Calls
    BY <1>2, <2>1, AnswerTyped DEF ServeRequest
  <2> QED BY <1>2, <2>1, <2>2 DEF PageTypeOK, ServeRequest, page
<1>3. CASE ServeReload(s)
  <2>1. \E a \in Answers : Answer(s, a)
    BY <1>3, ReloadServed
  <2>2. DOMAIN call' = Slots /\ \A r \in Slots : call'[r] # None => call'[r] \in Calls
    BY <1>3, <2>1, AnswerTyped DEF ServeReload
  <2> QED BY <1>3, <2>2 DEF PageTypeOK, ServeReload, page
<1> QED BY <1>1, <1>2, <1>3 DEF ServeRequest

LEMMA EditGoesOnTyped ==
  ASSUME PageTypeOK, NEW s \in Slots, EditAnswered(s) \/ EditReloaded(s)
  PROVE  PageTypeOK'
<1> DEFINE Step == /\ DOMAIN call' = Slots
                   /\ \A r \in Slots : call'[r] # None => call'[r] \in Calls
<1>1. CASE EditAnswered(s)
  <2>1. Answered(s, "request")
    BY <1>1 DEF EditAnswered
  <2>2. Step
    BY <1>1, <2>1, ReturnTyped, GoOnTyped DEF EditAnswered, Answered
  <2>3. state' \in PageStates /\ editState' \in Forms
    BY <1>1, <2>1, AnswerOfCall, BlankTyped DEF EditAnswered, PageTypeOK
  <2> QED BY <1>1, <2>2, <2>3 DEF EditAnswered, PageTypeOK
<1>2. CASE EditReloaded(s)
  <2>1. Answered(s, "reload")
    BY <1>2 DEF EditReloaded
  <2>2. Step
    BY <1>2, <2>1, ReturnTyped, GoOnTyped DEF EditReloaded, Answered
  <2>3. state' \in PageStates /\ editState' \in Forms
    BY <1>2, <2>1, AnswerOfCall, BlankTyped DEF EditReloaded, PageTypeOK
  <2> QED BY <1>2, <2>2, <2>3 DEF EditReloaded, PageTypeOK
<1> QED BY <1>1, <1>2

LEMMA TransitionGoesOnTyped ==
  ASSUME PageTypeOK, TargetsAreNamed, NEW s \in Slots,
         TransitionAnswered(s) \/ TransitionReloaded(s)
  PROVE  PageTypeOK'
<1> DEFINE Step == /\ DOMAIN call' = Slots
                   /\ \A r \in Slots : call'[r] # None => call'[r] \in Calls
<1>1. CASE TransitionAnswered(s)
  <2>1. Answered(s, "request") /\ call[s].target \in Targets
    BY <1>1 DEF TransitionAnswered, TargetsAreNamed, Answered, Named
  <2>2. Step
    BY <1>1, <2>1, ReturnTyped, GoOnTyped DEF TransitionAnswered, Answered
  <2>3. state' \in PageStates
    BY <1>1, <2>1, AnswerOfCall, BlankTyped DEF TransitionAnswered, PageTypeOK
  <2>4. transitionState' \in Notices
    BY <1>1, <2>1, BlankTyped DEF TransitionAnswered
  <2> QED BY <1>1, <2>2, <2>3, <2>4 DEF TransitionAnswered, PageTypeOK
<1>2. CASE TransitionReloaded(s)
  <2>1. Answered(s, "reload") /\ call[s].target \in Targets
    BY <1>2 DEF TransitionReloaded, TargetsAreNamed, Answered, Named
  <2>2. Step
    BY <1>2, <2>1, ReturnTyped, GoOnTyped DEF TransitionReloaded, Answered
  <2>3. state' \in PageStates
    BY <1>2, <2>1, AnswerOfCall, BlankTyped DEF TransitionReloaded, PageTypeOK
  <2>4. transitionState' \in Notices
    BY <1>2, <2>1, BlankTyped DEF TransitionReloaded, PageTypeOK
  <2> QED BY <1>2, <2>2, <2>3, <2>4 DEF TransitionReloaded, PageTypeOK
<1> QED BY <1>1, <1>2

LEMMA EndTyped ==
  ASSUME PageTypeOK, TargetsAreNamed, NEW s \in Slots,
         HistoryReloaded(s) \/ Forgotten(s) \/ AuthenticationLost(s)
  PROVE  PageTypeOK'
<1>1. CASE HistoryReloaded(s)
  <2>1. DOMAIN call' = Slots /\ \A r \in Slots : call'[r] # None => call'[r] \in Calls
    BY <1>1, ReturnTyped DEF HistoryReloaded
  <2>2. call[s].kind = "transition" => call[s].target \in Targets
    BY <1>1 DEF HistoryReloaded, TargetsAreNamed, Named
  <2>3. transitionState' \in Notices /\ editState' \in Forms
    BY <1>1, <2>2, BlankTyped DEF HistoryReloaded, PageTypeOK
  <2> QED BY <1>1, <2>1, <2>3 DEF HistoryReloaded, PageTypeOK
<1>2. CASE Forgotten(s)
  <2>1. DOMAIN call' = Slots /\ \A r \in Slots : call'[r] # None => call'[r] \in Calls
    BY <1>2, ReturnTyped DEF Forgotten
  <2> QED BY <1>2, <2>1 DEF Forgotten, PageTypeOK, page
<1>3. CASE AuthenticationLost(s)
  BY <1>3, UnmountedTyped DEF AuthenticationLost
<1> QED BY <1>1, <1>2, <1>3

\* Another Admin only takes a contract further.
LEMMA ElsewhereTyped ==
  ASSUME PageTypeOK, NEW c \in Contracts, Elsewhere(c)
  PROVE  /\ PageTypeOK'
         /\ \A d \in Contracts \ {c} : server'[d] = server[d]
         /\ \/ server'[c].status = server[c].status
            \/ server[c].status = "DRAFT" /\ server'[c].status = "ACTIVE"
            \/ server[c].status = "ACTIVE" /\ server'[c].status = "CLOSED"
<1>1. server[c] \in [revision : Int, status : Statuses]
  BY DEF PageTypeOK
<1>2. CASE server' = [server EXCEPT ![c].revision = @ + 1]
  <2>1. server' \in [Contracts -> [revision : Int, status : Statuses]]
    BY <1>1, <1>2 DEF PageTypeOK
  <2> QED BY <1>1, <1>2, <2>1 DEF Elsewhere, PageTypeOK, page
<1>3. CASE /\ Eligible(server[c].status) # None
           /\ server' = [server EXCEPT ![c] =
                [revision |-> @.revision + 1, status |-> Eligible(@.status)]]
  <2>1. /\ Eligible(server[c].status) \in Statuses
        /\ \/ server[c].status = "DRAFT" /\ Eligible(server[c].status) = "ACTIVE"
           \/ server[c].status = "ACTIVE" /\ Eligible(server[c].status) = "CLOSED"
    BY <1>1, <1>3 DEF Eligible, Statuses, Targets
  <2>2. server'[c] = [revision |-> server[c].revision + 1,
                      status |-> Eligible(server[c].status)]
    BY <1>3 DEF PageTypeOK
  <2>3. server' \in [Contracts -> [revision : Int, status : Statuses]]
    BY <1>1, <1>3, <2>1 DEF PageTypeOK
  <2> QED BY <1>3, <2>1, <2>2, <2>3 DEF Elsewhere, PageTypeOK, page
<1> QED BY <1>2, <1>3 DEF Elsewhere

LEMMA NextTyped ==
  ASSUME PageTypeOK, PageIsMounted, TargetsAreNamed, [Next]_vars
  PROVE  PageTypeOK'
<1>1. CASE UNCHANGED vars
  BY <1>1 DEF vars, page, PageTypeOK
<1> QED
  BY <1>1, ClickingTyped, ServingTyped, RequestServedTyped, EditGoesOnTyped,
     TransitionGoesOnTyped, EndTyped, ElsewhereTyped DEF Next, Answering

-----------------------------------------------------------------------------
(***************************************************************************)
(* The page of a contract, and the transitions it asks for.                *)
(***************************************************************************)

\* The calls are those of the state before, except that s has been called.
LEMMA CalledKeeps ==
  ASSUME PageTypeOK, PageIsMounted, TargetsAreNamed, state.status = "ready",
         NEW s \in Slots, NEW step \in {"request", "reload"},
         NEW target \in Targets \cup {None}, NEW baseline \in Details \cup {None},
         \/ target = None /\ Call(s, "edit", step, target, baseline)
         \/ target \in Targets /\ Call(s, "transition", step, target, baseline)
  PROVE  /\ route # None
         /\ \A r \in Slots : call'[r] # None => Named(call'[r])
         /\ \A r \in Slots : call'[r] # None => call'[r] = call[r] \/ call'[r].answer = None
<1>1. /\ Named(call'[s])
      /\ call'[s].answer = None
      /\ \A r \in Slots \ {s} : call'[r] = call[r]
  BY CallTyped DEF Named
<1>2. route # None
  BY DEF PageIsMounted
<1> QED BY <1>1, <1>2 DEF TargetsAreNamed

LEMMA UnmountKeeps ==
  ASSUME PageTypeOK, TargetsAreNamed, Unmount
  PROVE  /\ PageIsMounted'
         /\ TargetsAreNamed'
         /\ transitionState'.status # "succeeded"
         /\ \A r \in Slots : Succeeded(call'[r]) =>
              /\ Succeeded(call[r])
              /\ call'[r].contract = call[r].contract
              /\ call'[r].target = call[r].target
<1>1. \A r \in Slots : call'[r] # None =>
        /\ call[r] # None
        /\ call'[r] = [call[r] EXCEPT !.mounted = FALSE]
  BY UnmountTyped
<1>2. ASSUME NEW r \in Slots, call'[r] # None
      PROVE  /\ call[r] \in Calls
             /\ ~call'[r].mounted
             /\ call'[r].kind = call[r].kind /\ call'[r].target = call[r].target
             /\ call'[r].step = call[r].step /\ call'[r].answer = call[r].answer
             /\ call'[r].contract = call[r].contract
  <2>1. call[r] \in Calls /\ call'[r] = [call[r] EXCEPT !.mounted = FALSE]
    BY <1>1, <1>2 DEF PageTypeOK
  <2> QED BY <2>1 DEF Calls
<1>3. \A r \in Slots : call'[r] # None => Named(call'[r])
  BY <1>1, <1>2 DEF TargetsAreNamed, Named
<1>4. PageIsMounted'
  BY <1>2, UnmountTyped DEF Loading, PageIsMounted
<1>5. TargetsAreNamed' /\ transitionState'.status # "succeeded"
  BY <1>3, UnmountTyped DEF Idle, TargetsAreNamed
<1> QED
  BY <1>1, <1>2, <1>4, <1>5 DEF Succeeded

LEMMA ClickingKeeps ==
  ASSUME PageTypeOK, PageIsMounted, TargetsAreNamed, Clicking
  PROVE  /\ PageIsMounted'
         /\ TargetsAreNamed'
         /\ UNCHANGED server
         /\ transitionState'.status # "succeeded" \/ UNCHANGED transitionState
         /\ \A r \in Slots : Succeeded(call'[r]) =>
              /\ Succeeded(call[r])
              /\ call'[r].contract = call[r].contract
              /\ call'[r].target = call[r].target
<1>1. CASE (\E c \in Contracts : Navigate(c)) \/ Retry
  <2>1. PICK c \in Contracts : StartLoading(c) /\ UNCHANGED <<server, call>>
    <3>1. ASSUME Retry PROVE route \in Contracts
      <4>1. state.status # "loading"
        BY <3>1 DEF Retry
      <4> QED BY <4>1 DEF PageIsMounted, PageTypeOK
    <3> QED BY <1>1, <3>1 DEF Navigate, Retry
  <2>2. c # None
    BY PageAssumption
  <2> QED
    BY <2>1, <2>2 DEF StartLoading, Loading, Idle, PageIsMounted, TargetsAreNamed
<1>2. CASE Leave
  BY <1>2, UnmountKeeps DEF Leave
<1>3. CASE BeginEditing \/ UpdateEditField \/ CancelEditing
  BY <1>3
  DEF BeginEditing, UpdateEditField, CancelEditing, Idle, PageIsMounted, TargetsAreNamed
<1>4. CASE AskTransition \/ CancelTransition
  <2>1. AskTransition => Eligible(Shown.status) \in Targets
    BY DEF AskTransition, ActionsShown, Eligible, Targets
  <2> QED
    BY <1>4, <2>1
    DEF AskTransition, CancelTransition, Notice, Idle, PageIsMounted, TargetsAreNamed
<1>5. ASSUME NEW s \in Slots, SubmitEdit(s) \/ Confirm(s) \/ ReloadAgain(s)
      PROVE  /\ route # None /\ UNCHANGED <<server, route, state, load>>
             /\ \A r \in Slots : call'[r] # None => Named(call'[r])
             /\ \A r \in Slots :
                  call'[r] # None => call'[r] = call[r] \/ call'[r].answer = None
             /\ \/ UNCHANGED transitionState
                \/ /\ transitionState'.status = "pending"
                   /\ transitionState'.target \in Targets
  <2>1. CASE SubmitEdit(s)
    <3>1. editState.baseline \in Details \cup {None}
      BY DEF PageTypeOK, Forms
    <3> QED BY <2>1, <3>1, CalledKeeps DEF SubmitEdit
  <2>2. CASE Confirm(s)
    <3>1. transitionState.target \in Targets
      BY <2>2 DEF Confirm, TargetsAreNamed
    <3> QED BY <2>2, <3>1, CalledKeeps DEF Confirm, ActionsShown, Notice
  <2>3. CASE ReloadAgain(s)
    <3>1. transitionState.target \in Targets
      BY <2>3 DEF ReloadAgain, TargetsAreNamed
    <3> QED BY <2>3, <3>1, CalledKeeps DEF ReloadAgain, page
  <2> QED BY <1>5, <2>1, <2>2, <2>3
<1>6. CASE \E s \in Slots : SubmitEdit(s) \/ Confirm(s) \/ ReloadAgain(s)
  BY <1>5, <1>6 DEF PageIsMounted, TargetsAreNamed, Succeeded
<1> QED
  BY <1>1, <1>2, <1>3, <1>4, <1>6 DEF Clicking

LEMMA LoadKeeps ==
  ASSUME PageTypeOK, PageIsMounted, TargetsAreNamed, ServeLoad \/ LoadAnswered
  PROVE  /\ PageIsMounted'
         /\ TargetsAreNamed'
         /\ UNCHANGED server
         /\ transitionState'.status # "succeeded" \/ UNCHANGED transitionState
         /\ \A r \in Slots : Succeeded(call'[r]) =>
              /\ Succeeded(call[r])
              /\ call'[r].contract = call[r].contract
              /\ call'[r].target = call[r].target
<1>1. CASE ServeLoad
  BY <1>1 DEF ServeLoad, PageIsMounted, TargetsAreNamed
<1>2. CASE LoadAnswered /\ Unmount
  BY <1>2, UnmountKeeps DEF LoadAnswered
<1>3. CASE LoadAnswered /\ ~Unmount
  BY <1>3 DEF LoadAnswered, PageIsMounted, TargetsAreNamed
<1> QED BY <1>1, <1>2, <1>3

\* The API only takes contracts further, and an answer of success to a
\* transition comes with it.
LEMMA ServingKeeps ==
  ASSUME PageTypeOK, PageIsMounted, TargetsAreNamed, NEW s \in Slots,
         ServeRequest(s) \/ ServeReload(s)
  PROVE  /\ PageIsMounted'
         /\ TargetsAreNamed'
         /\ \A c \in Contracts, t \in Targets :
               Reached(server[c].status, t) => Reached(server'[c].status, t)
         /\ UNCHANGED transitionState
         /\ \A r \in Slots : Succeeded(call'[r]) =>
              \/ /\ Succeeded(call[r])
                 /\ call'[r].contract = call[r].contract
                 /\ call'[r].target = call[r].target
              \/ Reached(server'[call'[r].contract].status, call'[r].target)
<1>1. call[s] # None /\ call[s] \in Calls
  BY DEF ServeRequest, ServeReload, PageTypeOK
<1>2. ASSUME NEW a \in Answers, Answer(s, a)
      PROVE  /\ call'[s] = [call[s] EXCEPT !.answer = a]
             /\ \A r \in Slots \ {s} : call'[r] = call[r]
             /\ call'[s].kind = call[s].kind /\ call'[s].target = call[s].target
             /\ call'[s].step = call[s].step /\ call'[s].answer = a
             /\ call'[s].contract = call[s].contract
             /\ call'[s].mounted = call[s].mounted
  <2>1. /\ call'[s] = [call[s] EXCEPT !.answer = a]
        /\ \A r \in Slots \ {s} : call'[r] = call[r]
    BY <1>1, <1>2, AnswerTyped
  <2> QED BY <1>1, <2>1 DEF Calls
<1>3. Named(call'[s]) /\ (call'[s].mounted => route # None)
  <2>1. \E a \in Answers : Answer(s, a)
    BY <1>1, AcceptTyped, DeclineTyped, ReloadServed DEF ServeRequest
  <2> QED BY <1>1, <1>2, <2>1 DEF Named, TargetsAreNamed, PageIsMounted
<1>4. \A r \in Slots \ {s} : call'[r] = call[r]
  <2>1. \E a \in Answers : Answer(s, a)
    BY <1>1, AcceptTyped, DeclineTyped, ReloadServed DEF ServeRequest
  <2> QED BY <1>2, <2>1
<1>5. UNCHANGED <<route, state, transitionState, load>>
  BY DEF ServeRequest, ServeReload, page
<1>6. PageIsMounted' /\ TargetsAreNamed'
  BY <1>3, <1>4, <1>5 DEF PageIsMounted, TargetsAreNamed
<1>7. CASE ServeRequest(s) /\ Accept(s)
  <2> DEFINE c == call[s].contract
  <2>1. /\ server' \in [Contracts -> [revision : Int, status : Statuses]]
        /\ server'[c].status = IF call[s].kind = "edit" THEN "DRAFT" ELSE call[s].target
        /\ \A d \in Contracts \ {c} : server'[d] = server[d]
    BY <1>7, AcceptTyped DEF ServeRequest
  <2>2. server[c].status = IF call[s].target = "CLOSED" THEN "ACTIVE" ELSE "DRAFT"
    BY <1>7 DEF Accept, Fits
  <2>3. IF call[s].kind = "edit" THEN call[s].target = None ELSE call[s].target \in Targets
    BY <1>1 DEF TargetsAreNamed, Named
  <2>4. None # "CLOSED"
    BY PageAssumption DEF Targets
  <2>5. \A d \in Contracts, t \in Targets :
               Reached(server[d].status, t) => Reached(server'[d].status, t)
    BY <2>1, <2>2, <2>3, <2>4 DEF Reached, Targets
  <2>6. call[s].kind = "transition" => Reached(server'[c].status, call[s].target)
    BY <2>1, <2>3 DEF Reached, Targets
  <2>7. call'[s].contract = c /\ call'[s].kind = call[s].kind
        /\ call'[s].target = call[s].target
    <3>1. \E a \in Answers : Answer(s, a)
      BY <1>1, <1>7, AcceptTyped DEF ServeRequest
    <3> QED BY <1>2, <3>1
  <2>8. Succeeded(call'[s]) => Reached(server'[c].status, call'[s].target)
    BY <2>6, <2>7 DEF Succeeded
  <2> QED BY <1>4, <1>5, <1>6, <2>5, <2>7, <2>8
<1>8. CASE ServeRequest(s) /\ Decline(s)
  <2>1. PICK a \in Answers : Answer(s, a) /\ (a.is = "ok" => call[s].kind = "edit")
    BY <1>1, <1>8, DeclineTyped
  <2>2. UNCHANGED server
    BY <1>8 DEF Decline
  <2>3. call[s].kind = "edit" => call[s].kind # "transition"
    OBVIOUS
  <2>4. ~Succeeded(call'[s])
    BY <1>2, <2>1, <2>3 DEF Succeeded
  <2>5. \A c \in Contracts, t \in Targets :
               Reached(server[c].status, t) => Reached(server'[c].status, t)
    BY <2>2 DEF Reached
  <2> QED BY <1>4, <1>5, <1>6, <2>4, <2>5
<1>9. CASE ServeReload(s)
  <2>1. PICK a \in Answers : Answer(s, a)
    BY <1>9, ReloadServed
  <2>2. call[s].step = "reload"
    BY <1>9 DEF ServeReload
  <2>3. ~Succeeded(call'[s])
    BY <1>2, <2>1, <2>2 DEF Succeeded
  <2>4. \A c \in Contracts, t \in Targets :
               Reached(server[c].status, t) => Reached(server'[c].status, t)
    BY <1>9 DEF Reached, ServeReload
  <2> QED BY <1>4, <1>5, <1>6, <2>3, <2>4
<1> QED BY <1>7, <1>8, <1>9 DEF ServeRequest

\* A function that goes on has been mounted all along; the notice of a success
\* is the one of its own answer.
LEMMA GoingOnKeeps ==
  ASSUME PageTypeOK, PageIsMounted, TargetsAreNamed, NEW s \in Slots,
         \/ EditAnswered(s) \/ EditReloaded(s) \/ TransitionAnswered(s)
         \/ TransitionReloaded(s) \/ HistoryReloaded(s) \/ Forgotten(s)
         \/ AuthenticationLost(s)
  PROVE  /\ PageIsMounted'
         /\ TargetsAreNamed'
         /\ UNCHANGED server
         /\ \/ transitionState'.status # "succeeded"
            \/ UNCHANGED transitionState
            \/ /\ Succeeded(call[s]) /\ call[s].mounted
               /\ transitionState'.target = call[s].target
         /\ \A r \in Slots : Succeeded(call'[r]) =>
              /\ Succeeded(call[r])
              /\ call'[r].contract = call[r].contract
              /\ call'[r].target = call[r].target
<1>1. CASE AuthenticationLost(s)
  BY <1>1, UnmountKeeps DEF AuthenticationLost
<1>2. ASSUME ~AuthenticationLost(s)
      PROVE  /\ UNCHANGED <<server, route, load>>
             /\ call[s] # None
             /\ \/ Return(s)
                \/ GoOn(s, "reload")
                \/ GoOn(s, "history")
             /\ route # None \/ UNCHANGED state
  BY <1>2
  DEF EditAnswered, EditReloaded, TransitionAnswered, TransitionReloaded,
      HistoryReloaded, Forgotten, page, Answered, PageIsMounted
<1>3. ASSUME ~AuthenticationLost(s)
      PROVE  /\ transitionState'.status # "idle" => transitionState'.target \in Targets
             /\ \/ transitionState'.status # "succeeded"
                \/ UNCHANGED transitionState
                \/ /\ Succeeded(call[s]) /\ call[s].mounted
                   /\ transitionState'.target = call[s].target
  <2>1. call[s] # None /\ Named(call[s])
    BY <1>2, <1>3 DEF TargetsAreNamed
  <2>2. CASE UNCHANGED transitionState
    BY <2>2 DEF TargetsAreNamed
  <2>3. CASE TransitionAnswered(s)
    BY <2>1, <2>3 DEF TransitionAnswered, Notice, Answered, Succeeded, Named
  <2>4. CASE TransitionReloaded(s)
    BY <2>1, <2>2, <2>4 DEF TransitionReloaded, Notice, Named
  <2>5. CASE HistoryReloaded(s)
    BY <2>1, <2>2, <2>5 DEF HistoryReloaded, Notice, Named
  <2> QED
    BY <1>3, <2>2, <2>3, <2>4, <2>5 DEF EditAnswered, EditReloaded, Forgotten, page
<1>4. ASSUME ~AuthenticationLost(s)
      PROVE  /\ \A r \in Slots \ {s} : call'[r] = call[r]
             /\ ~Succeeded(call'[s])
             /\ call'[s] # None => Named(call'[s]) /\ call'[s].mounted = call[s].mounted
  <2>1. CASE Return(s)
    BY <2>1, ReturnTyped DEF Succeeded
  <2>2. ASSUME NEW step \in {"reload", "history"}, GoOn(s, step)
        PROVE  /\ \A r \in Slots \ {s} : call'[r] = call[r]
               /\ ~Succeeded(call'[s])
               /\ Named(call'[s]) /\ call'[s].mounted = call[s].mounted
    <3>1. /\ call'[s] = [call[s] EXCEPT !.step = step, !.answer = None]
          /\ \A r \in Slots \ {s} : call'[r] = call[r]
      BY <1>2, <1>4, <2>2, GoOnTyped
    <3>2. call[s] \in Calls /\ Named(call[s])
      BY <1>2, <1>4 DEF PageTypeOK, TargetsAreNamed
    <3>3. /\ call'[s].answer = None /\ call'[s].kind = call[s].kind
          /\ call'[s].target = call[s].target /\ call'[s].mounted = call[s].mounted
      BY <3>1, <3>2 DEF Calls
    <3> QED BY <3>1, <3>2, <3>3 DEF Succeeded, Named
  <2> QED BY <1>2, <1>4, <2>1, <2>2
<1>5. CASE ~AuthenticationLost(s)
  <2>1. PageIsMounted'
    BY <1>2, <1>4, <1>5 DEF PageIsMounted
  <2>2. TargetsAreNamed'
    BY <1>3, <1>4, <1>5 DEF TargetsAreNamed
  <2> QED BY <1>2, <1>3, <1>4, <1>5, <2>1, <2>2
<1> QED BY <1>1, <1>5

LEMMA ElsewhereKeeps ==
  ASSUME PageTypeOK, PageIsMounted, TargetsAreNamed, NEW c \in Contracts, Elsewhere(c)
  PROVE  /\ PageIsMounted'
         /\ TargetsAreNamed'
         /\ \A d \in Contracts, t \in Targets :
               Reached(server[d].status, t) => Reached(server'[d].status, t)
         /\ UNCHANGED <<transitionState, call>>
<1>1. UNCHANGED <<page, call>>
  BY DEF Elsewhere
<1>2. \A d \in Contracts, t \in Targets :
               Reached(server[d].status, t) => Reached(server'[d].status, t)
  BY ElsewhereTyped DEF Reached
<1> QED BY <1>1, <1>2 DEF page, PageIsMounted, TargetsAreNamed

-----------------------------------------------------------------------------
(***************************************************************************)
(* What the notice of a success says.                                      *)
(***************************************************************************)

\* How the state and the calls change in any step.
LEMMA NextKeeps ==
  ASSUME PageTypeOK, PageIsMounted, TargetsAreNamed, [Next]_vars
  PROVE  /\ PageIsMounted'
         /\ TargetsAreNamed'
         /\ \A c \in Contracts, t \in Targets :
               Reached(server[c].status, t) => Reached(server'[c].status, t)
         /\ \/ transitionState'.status # "succeeded"
            \/ UNCHANGED transitionState
            \/ \E s \in Slots :
                 /\ Succeeded(call[s]) /\ call[s].mounted
                 /\ transitionState'.target = call[s].target
         /\ \A r \in Slots : Succeeded(call'[r]) =>
              \/ /\ Succeeded(call[r])
                 /\ call'[r].contract = call[r].contract
                 /\ call'[r].target = call[r].target
              \/ Reached(server'[call'[r].contract].status, call'[r].target)
<1>1. CASE UNCHANGED vars
  BY <1>1 DEF vars, page, PageIsMounted, TargetsAreNamed
<1>2. CASE Clicking \/ ServeLoad \/ LoadAnswered
  BY <1>2, ClickingKeeps, LoadKeeps
<1>3. CASE \E s \in Slots : Answering(s)
  BY <1>3, ServingKeeps, GoingOnKeeps DEF Answering
<1>4. CASE \E c \in Contracts : Elsewhere(c)
  <2>1. PICK c \in Contracts : Elsewhere(c)
    BY <1>4
  <2> QED BY <2>1, ElsewhereKeeps
<1> QED BY <1>1, <1>2, <1>3, <1>4 DEF Next

LEMMA NextSuccesses ==
  ASSUME PageTypeOK, PageIsMounted, TargetsAreNamed, SuccessesAreMade, [Next]_vars
  PROVE  SuccessesAreMade'
<1> SUFFICES ASSUME NEW s \in Slots, Succeeded(call'[s])
             PROVE  Reached(server'[call'[s].contract].status, call'[s].target)
  BY DEF SuccessesAreMade
<1>1. CASE /\ Succeeded(call[s])
           /\ call'[s].contract = call[s].contract
           /\ call'[s].target = call[s].target
  <2>1. Reached(server[call[s].contract].status, call[s].target)
    BY <1>1 DEF SuccessesAreMade
  <2>2. call[s].contract \in Contracts
    BY <1>1 DEF Succeeded, PageTypeOK, Calls
  <2>3. call[s].target \in Targets
    BY <1>1 DEF Succeeded, TargetsAreNamed, Named
  <2> QED BY <1>1, <2>1, <2>2, <2>3, NextKeeps
<1> QED BY <1>1, NextKeeps

\* Answers come from the API about the contract of the call, and calls keep it.
LEMMA NextAnswers ==
  ASSUME PageTypeOK, PageIsMounted, TargetsAreNamed, AnswersAreOwn, [Next]_vars
  PROVE  AnswersAreOwn'
<1>1. CASE UNCHANGED call
  BY <1>1 DEF AnswersAreOwn, Own
<1>2. CASE Unmount
  <2>1. ASSUME NEW r \in Slots, call'[r] # None
        PROVE  /\ call[r] # None
               /\ call'[r].answer = call[r].answer
               /\ call'[r].contract = call[r].contract
    <3>1. call[r] # None /\ call'[r] = [call[r] EXCEPT !.mounted = FALSE]
      BY <1>2, <2>1, UnmountTyped
    <3>2. call[r] \in Calls
      BY <3>1 DEF PageTypeOK
    <3> QED BY <3>1, <3>2 DEF Calls
  <2> QED BY <2>1 DEF AnswersAreOwn, Own
<1>3. ASSUME NEW s \in Slots, SubmitEdit(s) \/ Confirm(s) \/ ReloadAgain(s)
      PROVE  \A r \in Slots :
               call'[r] # None => call'[r] = call[r] \/ call'[r].answer = None
  <2>1. CASE SubmitEdit(s)
    <3>1. editState.baseline \in Details \cup {None}
      BY DEF PageTypeOK, Forms
    <3> QED BY <2>1, <3>1, CalledKeeps DEF SubmitEdit
  <2>2. CASE Confirm(s)
    <3>1. transitionState.target \in Targets
      BY <2>2 DEF Confirm, TargetsAreNamed
    <3> QED BY <2>2, <3>1, CalledKeeps DEF Confirm, ActionsShown
  <2>3. CASE ReloadAgain(s)
    <3>1. transitionState.target \in Targets
      BY <2>3 DEF ReloadAgain, TargetsAreNamed
    <3> QED BY <2>3, <3>1, CalledKeeps DEF ReloadAgain
  <2> QED BY <1>3, <2>1, <2>2, <2>3
<1>4. CASE \E s \in Slots : SubmitEdit(s) \/ Confirm(s) \/ ReloadAgain(s)
  BY <1>3, <1>4 DEF AnswersAreOwn, Own
<1>5. ASSUME NEW s \in Slots, ServeRequest(s) \/ ServeReload(s)
      PROVE  AnswersAreOwn'
  <2>1. call[s] # None /\ call[s] \in Calls
    BY <1>5 DEF ServeRequest, ServeReload, PageTypeOK
  <2>2. PICK a \in Answers : Answer(s, a)
    BY <1>5, <2>1, AcceptTyped, DeclineTyped, ReloadServed DEF ServeRequest
  <2>3. /\ call'[s] = [call[s] EXCEPT !.answer = a]
        /\ \A r \in Slots \ {s} : call'[r] = call[r]
    BY <2>1, <2>2, AnswerTyped
  <2>4. call'[s].answer = a /\ call'[s].contract = call[s].contract
    BY <2>1, <2>3 DEF Calls
  <2>5. ASSUME NEW b, Answer(s, b)
        PROVE  b = a
    <3>1. call'[s] = [call[s] EXCEPT !.answer = b]
      BY <2>5 DEF Answer, PageTypeOK
    <3>2. call'[s].answer = b
      BY <2>1, <3>1 DEF Calls
    <3> QED BY <2>4, <3>2
  <2>6. a.is = "ok" => a.contract.id = call[s].contract
    <3>1. CASE ServeRequest(s) /\ Accept(s)
      BY <2>5, <3>1 DEF Accept
    <3>2. CASE ServeRequest(s) /\ Decline(s)
      BY <2>5, <3>2 DEF Decline, Detailed
    <3>3. CASE ServeReload(s)
      BY <2>5, <3>3 DEF ServeReload, Detailed
    <3> QED BY <1>5, <3>1, <3>2, <3>3 DEF ServeRequest
  <2> QED BY <2>3, <2>4, <2>6 DEF AnswersAreOwn, Own
<1>6. ASSUME NEW s \in Slots, call[s] # None,
             Return(s) \/ GoOn(s, "reload") \/ GoOn(s, "history")
      PROVE  AnswersAreOwn'
  <2>1. CASE Return(s)
    BY <2>1, ReturnTyped DEF AnswersAreOwn, Own
  <2>2. ASSUME NEW step \in {"reload", "history"}, GoOn(s, step)
        PROVE  AnswersAreOwn'
    <3>1. /\ call'[s] = [call[s] EXCEPT !.step = step, !.answer = None]
          /\ \A r \in Slots \ {s} : call'[r] = call[r]
      BY <1>6, <2>2, GoOnTyped
    <3>2. call'[s].answer = None
      BY <1>6, <3>1 DEF PageTypeOK, Calls
    <3> QED BY <3>1, <3>2 DEF AnswersAreOwn, Own
  <2> QED BY <1>6, <2>1, <2>2
<1>7. CASE UNCHANGED vars \/ Clicking \/ ServeLoad \/ LoadAnswered
  <2>1. UNCHANGED vars => UNCHANGED call
    BY DEF vars
  <2>2. Clicking => \/ UNCHANGED call
                    \/ Unmount
                    \/ \E s \in Slots : SubmitEdit(s) \/ Confirm(s) \/ ReloadAgain(s)
    BY DEF Clicking, Navigate, Leave, Retry, BeginEditing, UpdateEditField,
           CancelEditing, AskTransition, CancelTransition
  <2>3. ServeLoad \/ LoadAnswered => UNCHANGED call \/ Unmount
    BY DEF ServeLoad, LoadAnswered
  <2> QED BY <1>1, <1>2, <1>4, <1>7, <2>1, <2>2, <2>3
<1>8. CASE \E s \in Slots : Answering(s)
  <2>1. ASSUME NEW s \in Slots, Answering(s)
        PROVE  \/ ServeRequest(s) \/ ServeReload(s)
               \/ Unmount
               \/ /\ call[s] # None
                  /\ Return(s) \/ GoOn(s, "reload") \/ GoOn(s, "history")
    BY <2>1
    DEF Answering, EditAnswered, EditReloaded, TransitionAnswered, TransitionReloaded,
        HistoryReloaded, Forgotten, AuthenticationLost, Answered
  <2> QED BY <1>2, <1>5, <1>6, <1>8, <2>1
<1>9. CASE \E c \in Contracts : Elsewhere(c)
  BY <1>1, <1>9 DEF Elsewhere
<1> QED BY <1>7, <1>8, <1>9 DEF Next

\* Where a function in progress sets the contract, it is that of the address.
LEMMA NextAddress ==
  ASSUME PageTypeOK, PageIsMounted, AnswersAreOwn, PageIsAddressed, NoCallIsOutlived,
         [Next]_vars
  PROVE  /\ PageIsAddressed'
         /\ route' = route \/ transitionState'.status # "succeeded"
<1>1. CASE UNCHANGED <<route, state, load>>
  BY <1>1 DEF PageIsAddressed, Shown
<1>2. CASE Unmount
  BY <1>2, UnmountTyped DEF PageIsAddressed, Loading, Idle
<1>3. ASSUME NEW c, StartLoading(c)
      PROVE  /\ PageIsAddressed'
             /\ transitionState'.status # "succeeded"
  <2>1. load' # None => load'.contract = route' /\ load'.answer = None
    BY <1>3 DEF StartLoading
  <2> QED BY <1>3, <2>1 DEF StartLoading, PageIsAddressed, Loading, Idle
<1>4. CASE ServeLoad
  <2>1. load \in [contract : Contracts, answer : Loads \cup {None}]
    BY <1>4 DEF ServeLoad, PageTypeOK
  <2>2. PICK a \in {[is |-> "ok", contract |-> Detailed(load.contract)],
                  [is |-> "notFound"], [is |-> "failed"], [is |-> "unauthorized"]} :
          load' = [load EXCEPT !.answer = a]
    BY <1>4 DEF ServeLoad
  <2>3. load'.contract = load.contract /\ load'.answer = a
    BY <2>1, <2>2
  <2>4. a.is = "ok" => a.contract.id = load.contract
    BY <2>2 DEF Detailed
  <2> QED BY <1>4, <2>3, <2>4 DEF ServeLoad, PageIsAddressed, Shown
<1>5. CASE LoadAnswered /\ ~Unmount
  <2>1. load.answer \in Loads
    BY <1>5 DEF LoadAnswered, PageTypeOK
  <2>2. load.answer.is # "ready"
    BY <2>1 DEF Loads
  <2>3. state'.status = "ready" => state'.contract.id = route
    BY <1>5, <2>2 DEF LoadAnswered, Ready, PageIsAddressed
  <2> QED BY <1>5, <2>3 DEF LoadAnswered, PageIsAddressed, Shown
<1>6. ASSUME NEW s \in Slots, UNCHANGED <<route, load>>,
             call[s] # None, call[s].mounted,
             call[s].answer # None, call[s].answer.is = "ok",
             state' = Ready(call[s].answer.contract)
      PROVE  PageIsAddressed'
  <2>1. call[s].answer.contract.id = route
    BY <1>6 DEF AnswersAreOwn, Own, NoCallIsOutlived
  <2> QED BY <1>6, <2>1 DEF PageIsAddressed, Ready, Shown
<1>7. CASE UNCHANGED vars \/ Clicking \/ ServeLoad \/ LoadAnswered
  <2>1. UNCHANGED vars => UNCHANGED <<route, state, load>>
    BY DEF vars, page
  <2>2. Clicking => \/ UNCHANGED <<route, state, load>>
                    \/ Unmount
                    \/ \E c : StartLoading(c)
    BY DEF Clicking, Navigate, Leave, Retry, BeginEditing, UpdateEditField,
           CancelEditing, AskTransition, CancelTransition, SubmitEdit, Confirm,
           ReloadAgain, page
  <2>3. ServeLoad => UNCHANGED route
    BY DEF ServeLoad
  <2>4. LoadAnswered /\ ~Unmount => UNCHANGED route
    BY DEF LoadAnswered
  <2> QED BY <1>1, <1>2, <1>3, <1>4, <1>5, <1>7, <2>1, <2>2, <2>3, <2>4
<1>8. CASE \E s \in Slots : Answering(s)
  <2>1. ASSUME NEW s \in Slots, Answering(s)
        PROVE  \/ UNCHANGED <<route, state, load>>
               \/ Unmount
               \/ /\ UNCHANGED <<route, load>>
                  /\ call[s] # None /\ call[s].mounted
                  /\ call[s].answer # None /\ call[s].answer.is = "ok"
                  /\ state' = Ready(call[s].answer.contract)
    BY <2>1
    DEF Answering, ServeRequest, ServeReload, EditAnswered, EditReloaded,
        TransitionAnswered, TransitionReloaded, HistoryReloaded, Forgotten,
        AuthenticationLost, Answered, page
  <2> QED BY <1>1, <1>2, <1>6, <1>8, <2>1
<1>9. CASE \E c \in Contracts : Elsewhere(c)
  BY <1>1, <1>9 DEF Elsewhere, page
<1> QED BY <1>7, <1>8, <1>9 DEF Next

\* The answer is about the contract of the address.
LEMMA NextNotice ==
  ASSUME PageInv, NoCallIsOutlived, [Next]_vars
  PROVE  NoticeIsTrue'
<1> SUFFICES ASSUME transitionState'.status = "succeeded"
             PROVE  /\ route' \in Contracts
                    /\ Reached(server'[route'].status, transitionState'.target)
  BY DEF NoticeIsTrue
<1>1. route' = route
  BY NextAddress DEF PageInv
<1>2. /\ route \in Contracts
      /\ Reached(server[route].status, transitionState'.target)
      /\ transitionState'.target \in Targets
  <2>1. CASE UNCHANGED transitionState
    BY <2>1 DEF PageInv, NoticeIsTrue, TargetsAreNamed
  <2>2. ASSUME NEW s \in Slots, Succeeded(call[s]), call[s].mounted,
               transitionState'.target = call[s].target
        PROVE  /\ route \in Contracts
               /\ Reached(server[route].status, transitionState'.target)
               /\ transitionState'.target \in Targets
    <3>1. call[s].contract = route
      BY <2>2 DEF NoCallIsOutlived, Succeeded
    <3>2. call[s].contract \in Contracts
      BY <2>2 DEF PageInv, PageTypeOK, Calls, Succeeded
    <3> QED
      BY <2>2, <3>1, <3>2
      DEF PageInv, SuccessesAreMade, TargetsAreNamed, Succeeded, Named
  <2> QED BY <2>1, <2>2, NextKeeps DEF PageInv
<1> QED BY <1>1, <1>2, NextKeeps DEF PageInv

\* The page before any contract is shown.
LEMMA InitPage == Init => PageInv
<1>1. Init => PageIsMounted /\ TargetsAreNamed /\ SuccessesAreMade /\ NoticeIsTrue
  BY DEF Init, Loading, Idle, PageIsMounted, TargetsAreNamed, SuccessesAreMade,
         Succeeded, NoticeIsTrue
<1>2. Init => AnswersAreOwn /\ PageIsAddressed
  BY DEF Init, Loading, AnswersAreOwn, Own, PageIsAddressed
<1> QED BY <1>1, <1>2, InitTyped DEF PageInv

\* The state and the calls of the page are typed, its calls are of a page that
\* is mounted, every transition names its target, an answer of success to one
\* comes after the contract has got there, and an answer is about the contract of
\* its call: for any number of contracts.
THEOREM PageIsTyped ==
  Spec => [](/\ PageTypeOK /\ PageIsMounted /\ TargetsAreNamed
             /\ SuccessesAreMade /\ AnswersAreOwn)
<1> DEFINE I == /\ PageTypeOK /\ PageIsMounted /\ TargetsAreNamed
                /\ SuccessesAreMade /\ AnswersAreOwn
<1>1. Init => I
  BY InitPage DEF PageInv
<1>2. I /\ [Next]_vars => I'
  BY NextTyped, NextKeeps, NextSuccesses, NextAnswers
<1> QED BY <1>1, <1>2, PTL DEF Spec

\* "Contract activated." and "Contract closed." are true whenever they are shown, as
\* long as nobody jumps to another contract while a function is in progress.
THEOREM SuccessNoticesAreTrue == Spec => ([]NoCallIsOutlived => []SuccessIsTrue)
<1>1. Init => PageInv
  BY InitPage
<1>2. PageInv /\ NoCallIsOutlived /\ [Next]_vars => PageInv'
  BY NextTyped, NextKeeps, NextSuccesses, NextAnswers, NextAddress, NextNotice
     DEF PageInv
<1>3. PageInv => SuccessIsTrue
  <2> SUFFICES ASSUME PageInv, state.status = "ready",
                      transitionState.status = "succeeded"
               PROVE  Reached(server[Shown.id].status, transitionState.target)
    BY DEF SuccessIsTrue, Reached
  <2> QED BY DEF PageInv, PageIsAddressed, NoticeIsTrue
<1> QED BY <1>1, <1>2, <1>3, PTL DEF Spec

\* So they are on a page that only ever shows one contract, whatever the user does.
COROLLARY NoticesOfOneContract ==
  ASSUME NEW CONSTANT c, Contracts = {c}
  PROVE  Spec => []SuccessIsTrue
<1>1. PageTypeOK /\ PageIsMounted => NoCallIsOutlived
  BY DEF PageTypeOK, PageIsMounted, Calls, NoCallIsOutlived
<1> QED BY <1>1, PageIsTyped, SuccessNoticesAreTrue, PTL

=============================================================================
