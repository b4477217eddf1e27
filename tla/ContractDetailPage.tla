------------------------- MODULE ContractDetailPage -------------------------
(***************************************************************************)
(* The detail page of the browser for an Admin: it loads a contract, edits *)
(* its Draft and activates or closes it, while other Admins change the     *)
(* same contracts.  Every await of its functions is a point where answers  *)
(* of other requests, clicks and navigations come in between.  What a      *)
(* function read from the render it was created in stays as it was.        *)
(***************************************************************************)
EXTENDS Integers

CONSTANTS
  Contracts,      \* contracts of the workspace
  Slots,          \* calls of submitEdit, transition and reloadAfterConflict
  MaxRevision,    \* bound: revisions of a contract
  None

Targets == {"ACTIVE", "CLOSED"}

ASSUME PageAssumption ==
  /\ MaxRevision \in Nat \ {0}
  /\ None \notin Contracts \cup Targets

Statuses == {"DRAFT"} \cup Targets

VARIABLES
  server,         \* status of every contract, and its revision, which stands
                  \* for its values and its template version
  route,          \* the contract the address names; None on another page
  state,          \* ContractDetailState
  transitionState,
  editState,      \* with the contract and the revision its form was made from
  load,           \* the request of the effect, as long as it is active
  call            \* the functions in progress

page == <<route, state, transitionState, editState, load>>
vars == <<server, page, call>>

Idle == [status |-> "idle", target |-> None, reloadFailed |-> FALSE]
Notice(status, target, reloadFailed) ==
  [status |-> status, target |-> target, reloadFailed |-> reloadFailed]

\* The forms with values in them keep the detail they were made from.
Form(status, baseline) ==
  [status |-> status, baseline |-> baseline, reloadFailed |-> FALSE]
Viewing == Form("viewing", None)
EditConflict(reloadFailed) ==
  [status |-> "conflict", baseline |-> None, reloadFailed |-> reloadFailed]

Loading == [status |-> "loading", contract |-> None]
Ready(detail) == [status |-> "ready", contract |-> detail]

Shown == state.contract
Editing == editState.status \in {"editing", "submitting", "failed"}

Detailed(c) ==
  [id |-> c, revision |-> server[c].revision, status |-> server[c].status]

-----------------------------------------------------------------------------
(***************************************************************************)
(* Routes and the effect that loads the contract of the address.           *)
(***************************************************************************)

\* The effect runs: for a new address, or for a retry.  It comes after a rendering
\* that still has the old contract under the new address; what is answered or
\* clicked then reads the old contract only and could as well come before, so the
\* new address and the effect are one step.
StartLoading(c) ==
  /\ route' = c
  /\ state' = Loading
  /\ transitionState' = Idle
  /\ editState' = Viewing
  /\ load' = [contract |-> c, answer |-> None]

\* The page stays mounted when only the parameter of its route changes, as it
\* does when the user jumps in the history of the browser.
Navigate(c) ==
  /\ route # c
  /\ StartLoading(c)
  /\ UNCHANGED <<server, call>>

\* The page is unmounted: what its functions set from now on is ignored.
Unmount ==
  /\ route' = None
  /\ state' = Loading
  /\ transitionState' = Idle
  /\ editState' = Viewing
  /\ load' = None
  /\ call' = [s \in Slots |-> IF call[s] = None THEN None
                              ELSE [call[s] EXCEPT !.mounted = FALSE]]

Leave == route # None /\ Unmount /\ UNCHANGED server

\* "Try again", and "Reload contract" after an edit.
Retry ==
  /\ \/ state.status = "failed"
     \/ /\ state.status = "ready"
        /\ editState.status = "conflict" /\ editState.reloadFailed
  /\ StartLoading(route)
  /\ UNCHANGED <<server, call>>

\* The API answers the request of the effect.
ServeLoad ==
  /\ load # None /\ load.answer = None
  /\ \E a \in {[is |-> "ok", contract |-> Detailed(load.contract)],
               [is |-> "notFound"], [is |-> "failed"], [is |-> "unauthorized"]} :
       load' = [load EXCEPT !.answer = a]
  /\ UNCHANGED <<server, route, state, transitionState, editState, call>>

LoadAnswered ==
  /\ load # None /\ load.answer # None
  /\ \/ load.answer.is = "unauthorized" /\ Unmount
     \/ /\ load.answer.is # "unauthorized"
        /\ state' = IF load.answer.is = "ok" THEN Ready(load.answer.contract)
                    ELSE [status |-> load.answer.is, contract |-> None]
        /\ load' = None
        /\ UNCHANGED <<route, transitionState, editState, call>>
  /\ UNCHANGED server

-----------------------------------------------------------------------------
(***************************************************************************)
(* What the buttons of the page do.                                        *)
(***************************************************************************)

\* A function of the page is called; baseline is only used by an edit.
Call(s, kind, step, target, baseline) ==
  /\ call[s] = None
  /\ call' = [call EXCEPT ![s] =
       [kind |-> kind, step |-> step, contract |-> Shown.id,
        expected |-> Shown.revision, target |-> target, baseline |-> baseline,
        answer |-> None, mounted |-> TRUE]]

\* The button "Edit Draft" is shown, whatever the state of a transition is.
BeginEditing ==
  /\ state.status = "ready"
  /\ Shown.status = "DRAFT"
  /\ ~Editing
  /\ transitionState' = Idle
  /\ editState' = Form("editing", Shown)
  /\ UNCHANGED <<server, route, state, load, call>>

\* A field changes after a refusal: the issues go.
UpdateEditField ==
  /\ state.status = "ready"
  /\ editState.status = "failed"
  /\ editState' = Form("editing", editState.baseline)
  /\ UNCHANGED <<server, route, state, transitionState, load, call>>

CancelEditing ==
  /\ state.status = "ready"
  /\ editState.status \in {"editing", "failed"}
  /\ editState' = Viewing
  /\ UNCHANGED <<server, route, state, transitionState, load, call>>

\* submitEdit, to its first await: the form of the page, and the revision of
\* the contract that is shown.
SubmitEdit(s) ==
  /\ state.status = "ready"
  /\ editState.status \in {"editing", "failed"}
  /\ Call(s, "edit", "request", None, editState.baseline)
  /\ editState' = Form("submitting", editState.baseline)
  /\ UNCHANGED <<server, route, state, transitionState, load>>

\* eligibleTransition
Eligible(status) ==
  CASE status = "DRAFT" -> "ACTIVE"
    [] status = "ACTIVE" -> "CLOSED"
    [] OTHER -> None

\* The section with the buttons of a transition is shown.
ActionsShown ==
  /\ state.status = "ready"
  /\ Eligible(Shown.status) # None
  /\ ~Editing
  /\ transitionState.status # "succeeded"
  /\ ~(transitionState.status = "conflict" /\ transitionState.reloadFailed)

AskTransition ==
  /\ ActionsShown
  /\ transitionState.status \in {"idle", "conflict", "failed"}
  /\ transitionState' = Notice("confirming", Eligible(Shown.status), FALSE)
  /\ UNCHANGED <<server, route, state, editState, load, call>>

CancelTransition ==
  /\ ActionsShown
  /\ transitionState.status = "confirming"
  /\ transitionState' = Idle
  /\ UNCHANGED <<server, route, state, editState, load, call>>

\* transition, to its first await.
Confirm(s) ==
  /\ ActionsShown
  /\ transitionState.status = "confirming"
  /\ Call(s, "transition", "request", transitionState.target, None)
  /\ transitionState' = Notice("pending", transitionState.target, FALSE)
  /\ UNCHANGED <<server, route, state, editState, load>>

\* The button "Reload contract" after a transition.
ReloadAgain(s) ==
  /\ state.status = "ready"
  /\ transitionState.status = "conflict" /\ transitionState.reloadFailed
  /\ Call(s, "transition", "reload", transitionState.target, None)
  /\ UNCHANGED <<server, page>>

-----------------------------------------------------------------------------
(***************************************************************************)
(* The API.                                                                *)
(***************************************************************************)

\* Another Admin edits or migrates the Draft, activates or closes it.
Elsewhere(c) ==
  /\ server[c].revision < MaxRevision
  /\ \/ /\ server[c].status = "DRAFT"
        /\ server' = [server EXCEPT ![c].revision = @ + 1]
     \/ /\ Eligible(server[c].status) # None
        /\ server' = [server EXCEPT ![c] =
             [revision |-> @.revision + 1, status |-> Eligible(@.status)]]
  /\ UNCHANGED <<page, call>>

Answer(s, a) == call' = [call EXCEPT ![s].answer = a]

Fits(k) ==
  /\ server[k.contract].revision = k.expected
  /\ server[k.contract].status = IF k.target = "CLOSED" THEN "ACTIVE" ELSE "DRAFT"

\* The request of an edit or of a transition takes effect.
Accept(s) ==
  LET c == call[s].contract
      next == [revision |-> server[c].revision + 1,
               status |-> IF call[s].kind = "edit" THEN "DRAFT"
                          ELSE call[s].target]
  IN
  /\ Fits(call[s])
  /\ server[c].revision < MaxRevision
  /\ server' = [server EXCEPT ![c] = next]
  /\ \/ Answer(s, [is |-> "ok",
                   contract |-> [id |-> c, revision |-> next.revision,
                                 status |-> next.status]])
     \/ Answer(s, [is |-> "failed"])

\* It is refused, or gets lost, or an edit has nothing to change.
Decline(s) ==
  LET k == call[s] IN
  /\ \/ ~Fits(k) /\ Answer(s, [is |-> "conflict"])
     \/ Answer(s, [is |-> "failed"])
     \/ Answer(s, [is |-> "unauthorized"])
     \/ /\ Fits(k) /\ k.kind = "edit"
        /\ Answer(s, [is |-> "ok", contract |-> Detailed(k.contract)])
  /\ UNCHANGED server

ServeRequest(s) ==
  /\ call[s] # None /\ call[s].step = "request" /\ call[s].answer = None
  /\ Accept(s) \/ Decline(s)
  /\ UNCHANGED page

\* The detail that is read again after a conflict.
ServeReload(s) ==
  /\ call[s] # None /\ call[s].step = "reload" /\ call[s].answer = None
  /\ \/ Answer(s, [is |-> "ok", contract |-> Detailed(call[s].contract)])
     \/ Answer(s, [is |-> "failed"])
     \/ Answer(s, [is |-> "unauthorized"])
  /\ UNCHANGED <<server, page>>

-----------------------------------------------------------------------------
(***************************************************************************)
(* The functions go on when their requests are answered.                   *)
(***************************************************************************)

Answered(s, step) ==
  /\ call[s] # None
  /\ call[s].mounted
  /\ call[s].step = step
  /\ call[s].answer # None

Return(s) == call' = [call EXCEPT ![s] = None]
GoOn(s, step) ==
  call' = [call EXCEPT ![s].step = step, ![s].answer = None]

\* A function of an unmounted page: what it sets is ignored.
Forgotten(s) ==
  /\ call[s] # None
  /\ ~call[s].mounted
  /\ call[s].step = "request" => call[s].answer # None
  /\ Return(s)
  /\ UNCHANGED <<server, page>>

\* onAuthenticationLost: the workspace is left, and so is the page.
AuthenticationLost(s) ==
  /\ Answered(s, "request") \/ Answered(s, "reload")
  /\ call[s].answer.is = "unauthorized"
  /\ Unmount
  /\ UNCHANGED server

\* Mutant of EditAnswered: the form stays as it is when the edit fails.
EditAnsweredOrStuck(s) ==
  /\ Answered(s, "request") /\ call[s].kind = "edit"
  /\ \/ /\ call[s].answer.is = "ok"
        /\ state' = Ready(call[s].answer.contract)
        /\ editState' = Form("saved", None)
        /\ Return(s)
     \/ /\ call[s].answer.is = "conflict"
        /\ GoOn(s, "reload")
        /\ UNCHANGED <<state, editState>>
     \/ /\ call[s].answer.is = "failed"
        /\ Return(s)
        /\ UNCHANGED <<state, editState>>
  /\ UNCHANGED <<server, route, transitionState, load>>

\* submitEdit after its first await.
EditAnswered(s) ==
  /\ Answered(s, "request") /\ call[s].kind = "edit"
  /\ \/ /\ call[s].answer.is = "ok"
        /\ state' = Ready(call[s].answer.contract)
        /\ editState' = Form("saved", None)
        /\ Return(s)
     \/ /\ call[s].answer.is = "conflict"
        /\ GoOn(s, "reload")
        /\ UNCHANGED <<state, editState>>
     \/ /\ call[s].answer.is = "failed"
        /\ editState' = Form("failed", call[s].baseline)
        /\ Return(s)
        /\ UNCHANGED state
  /\ UNCHANGED <<server, route, transitionState, load>>

\* submitEdit after a conflict: the latest contract, then its history.
EditReloaded(s) ==
  /\ Answered(s, "reload") /\ call[s].kind = "edit"
  /\ \/ /\ call[s].answer.is = "ok"
        /\ state' = Ready(call[s].answer.contract)
        /\ GoOn(s, "history")
        /\ UNCHANGED editState
     \/ /\ call[s].answer.is = "failed"
        /\ editState' = EditConflict(TRUE)
        /\ Return(s)
        /\ UNCHANGED state
  /\ UNCHANGED <<server, route, transitionState, load>>

\* Mutant of TransitionAnswered: a conflict counts as done.
TransitionAnsweredAnyway(s) ==
  LET k == call[s] IN
  /\ Answered(s, "request") /\ k.kind = "transition"
  /\ k.answer.is # "unauthorized"
  /\ transitionState' = Notice("succeeded", k.target, FALSE)
  /\ Return(s)
  /\ UNCHANGED <<server, route, state, editState, load>>

\* transition after its first await.
TransitionAnswered(s) ==
  LET k == call[s] IN
  /\ Answered(s, "request") /\ k.kind = "transition"
  /\ \/ /\ k.answer.is = "ok"
        /\ state' = Ready(k.answer.contract)
        /\ transitionState' = Notice("succeeded", k.target, FALSE)
        /\ Return(s)
     \/ /\ k.answer.is = "conflict"
        /\ transitionState' = Notice("conflict", k.target, FALSE)
        /\ GoOn(s, "reload")
        /\ UNCHANGED state
     \/ /\ k.answer.is = "failed"
        /\ transitionState' = Notice("failed", k.target, FALSE)
        /\ Return(s)
        /\ UNCHANGED state
  /\ UNCHANGED <<server, route, editState, load>>

\* reloadAfterConflict: the latest contract, then its history.
TransitionReloaded(s) ==
  LET k == call[s] IN
  /\ Answered(s, "reload") /\ k.kind = "transition"
  /\ \/ /\ k.answer.is = "ok"
        /\ state' = Ready(k.answer.contract)
        /\ GoOn(s, "history")
        /\ UNCHANGED transitionState
     \/ /\ k.answer.is = "failed"
        /\ transitionState' = Notice("conflict", k.target, TRUE)
        /\ Return(s)
        /\ UNCHANGED state
  /\ UNCHANGED <<server, route, editState, load>>

\* history.reload() has returned, and whether it got the history.
HistoryReloaded(s) ==
  /\ call[s] # None /\ call[s].mounted /\ call[s].step = "history"
  /\ \E reloadFailed \in BOOLEAN :
       \/ /\ call[s].kind = "edit"
          /\ editState' = EditConflict(reloadFailed)
          /\ UNCHANGED transitionState
       \/ /\ call[s].kind = "transition"
          /\ transitionState' = Notice("conflict", call[s].target, reloadFailed)
          /\ UNCHANGED editState
  /\ Return(s)
  /\ UNCHANGED <<server, route, state, load>>

-----------------------------------------------------------------------------
\* Revisions are counted from what a contract is like at the beginning.
Init ==
  /\ server \in [Contracts -> [revision: {1}, status: Statuses]]
  /\ route = None
  /\ state = Loading
  /\ transitionState = Idle
  /\ editState = Viewing
  /\ load = None
  /\ call = [s \in Slots |-> None]

\* The API and the page answer what is under way.
Answering(s) ==
  \/ ServeRequest(s)
  \/ ServeReload(s)
  \/ Forgotten(s)
  \/ AuthenticationLost(s)
  \/ EditAnswered(s)
  \/ EditReloaded(s)
  \/ TransitionAnswered(s)
  \/ TransitionReloaded(s)
  \/ HistoryReloaded(s)

Clicking ==
  \/ \E c \in Contracts : Navigate(c)
  \/ Leave
  \/ Retry
  \/ BeginEditing
  \/ UpdateEditField
  \/ CancelEditing
  \/ AskTransition
  \/ CancelTransition
  \/ \E s \in Slots : SubmitEdit(s) \/ Confirm(s) \/ ReloadAgain(s)

Next ==
  \/ Clicking
  \/ ServeLoad
  \/ LoadAnswered
  \/ \E s \in Slots : Answering(s)
  \/ \E c \in Contracts : Elsewhere(c)

Spec == Init /\ [][Next]_vars

\* Requests are answered, and the page takes the answers.
Fairness ==
  /\ WF_vars(ServeLoad)
  /\ WF_vars(LoadAnswered)
  /\ \A s \in Slots : WF_vars(Answering(s))

LiveSpec == Spec /\ Fairness

-----------------------------------------------------------------------------
(***************************************************************************)
(* Properties.                                                             *)
(***************************************************************************)

\* An edit and a transition are settled in the end: saved, refused or reported.
SubmissionsSettle ==
  /\ editState.status = "submitting" ~> editState.status # "submitting"
  /\ transitionState.status = "pending" ~> transitionState.status # "pending"

\* "Contract activated." and "Contract closed." are true of the contract they
\* are shown with.
SuccessIsTrue ==
  state.status = "ready" /\ transitionState.status = "succeeded" =>
    /\ server[Shown.id].status # "DRAFT"
    /\ transitionState.target = "CLOSED" => server[Shown.id].status = "CLOSED"

\* The notice after a conflict: "This contract changed. Review the latest
\* version before editing again."  An edit that is accepted replaces the contents
\* its form was made from.
ReplacesWhatWasShown ==
  [][\A s \in Slots :
       /\ call[s] # None /\ call[s].kind = "edit"
       /\ server'[call[s].contract] # server[call[s].contract]
       /\ call'[s] # call[s]
       => call[s].baseline = Detailed(call[s].contract)]_<<server, call>>

=============================================================================
