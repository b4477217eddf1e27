--------------------------- MODULE ContractLedger ---------------------------
(***************************************************************************)
(* What the contract workspace promises, with no request, statement or     *)
(* lock: every contract is a ledger of states that only grows at its end,  *)
(* by one lawful state at a time, and every activation is announced in the *)
(* step that makes it.  ContractWorkspace is shown to implement it.        *)
(***************************************************************************)
EXTENDS Integers, Sequences

CONSTANTS Tenants, Contracts, Versions, Definitions, Values,
          Accepts,        \* Definitions -> the set of values they accept
          None

VARIABLES
  published,      \* the definition of every published version
  current,        \* the active version of every tenant
  owner,          \* the tenant of every contract
  ledger,         \* the states a contract has had, in order
  announced       \* the activations announced to the outside

vars == <<published, current, owner, ledger, announced>>

Opened(c) == ledger[c] # <<>>
Last(c) == ledger[c][Len(ledger[c])]

\* The next state of the ledger of c, and nothing else, is written.
Enter(c, state) ==
  /\ ledger' = [ledger EXCEPT ![c] = Append(@, state)]
  /\ UNCHANGED <<published, current>>

Init ==
  /\ published = [v \in Versions |-> None]
  /\ current = [t \in Tenants |-> None]
  /\ owner = [c \in Contracts |-> None]
  /\ ledger = [c \in Contracts |-> <<>>]
  /\ announced = {}

\* A tenant replaces its active version by a new one that says something else.
Publish(t, v, d) ==
  /\ published[v] = None
  /\ current[t] # None => published[current[t]] # d
  /\ published' = [published EXCEPT ![v] = d]
  /\ current' = [current EXCEPT ![t] = v]
  /\ UNCHANGED <<owner, ledger, announced>>

Create(c, t, values) ==
  /\ ~Opened(c)
  /\ current[t] # None
  /\ values \in Accepts[published[current[t]]]
  /\ owner' = [owner EXCEPT ![c] = t]
  /\ Enter(c, [status |-> "DRAFT", revision |-> 1, values |-> values,
               version |-> current[t]])
  /\ UNCHANGED announced

\* Another content of a Draft: other values under the same version, or values
\* under the active version of its tenant.
Rewrite(c, values) ==
  /\ Opened(c)
  /\ Last(c).status = "DRAFT"
  /\ \E v \in {Last(c).version, current[owner[c]]} :
       /\ values \in Accepts[published[v]]
       /\ <<v, values>> # <<Last(c).version, Last(c).values>>
       /\ Enter(c, [Last(c) EXCEPT !.revision = @ + 1, !.values = values,
                                   !.version = v])
  /\ UNCHANGED <<owner, announced>>

Activate(c) ==
  /\ Opened(c)
  /\ Last(c).status = "DRAFT"
  /\ Enter(c, [Last(c) EXCEPT !.revision = @ + 1, !.status = "ACTIVE"])
  /\ announced' = announced \cup {<<owner[c], c, Last(c).revision + 1>>}
  /\ UNCHANGED owner

Close(c) ==
  /\ Opened(c)
  /\ Last(c).status = "ACTIVE"
  /\ Enter(c, [Last(c) EXCEPT !.revision = @ + 1, !.status = "CLOSED"])
  /\ UNCHANGED <<owner, announced>>

Next ==
  \/ \E t \in Tenants, v \in Versions, d \in Definitions : Publish(t, v, d)
  \/ \E c \in Contracts, t \in Tenants, values \in Values : Create(c, t, values)
  \/ \E c \in Contracts, values \in Values : Rewrite(c, values)
  \/ \E c \in Contracts : Activate(c) \/ Close(c)

Spec == Init /\ [][Next]_vars

=============================================================================
