------------------------ MODULE NotificationConsumer ------------------------
(***************************************************************************)
(* The consumer of the worker: messages of the queue                       *)
(* "commandix.notifications.contract-activated.v1" are delivered to as     *)
(* many handlers as the prefetch allows, each of which records one         *)
(* notification in PostgreSQL and then acknowledges its message, or        *)
(* rejects it into the dead-letter queue.  Handlers of one process run     *)
(* interleaved; each await ends a step.                                    *)
(*                                                                         *)
(* A delivery is live as long as the connection it came with.  Once that   *)
(* is lost the broker delivers the message again, while the handler still  *)
(* works on the delivery it has, whose ack or nack then throws.            *)
(***************************************************************************)
EXTENDS Integers, FiniteSets

CONSTANTS
  Messages,       \* what is ever put into the queue
  EventFields,    \* EVENT_FIELDS: what the data of a message must contain
  Contracts,
  Tenants,
  Owner,          \* Contracts -> Tenants
  Handlers,       \* deliveries in progress: prefetchCount
  MaxRevision,    \* bound: revisions of a contract
  MaxCopies,      \* bound: Messages -> times clients publish the message
  MaxFaults,      \* bound: failures of the environment in a behaviour
  None

\* Two messages about one event differ when any field of their data does; there
\* are only prefetchCount handlers.
ASSUME MessagesAssumption ==
  /\ \A m \in Messages :
       /\ DOMAIN m = {"eventId", "tenant", "contract", "revision", "fields"}
       /\ m.contract \in Contracts
       /\ m.revision \in Nat
  /\ IsFiniteSet(Handlers)
  /\ None \notin Messages
  /\ Owner \in [Contracts -> Tenants]
  /\ MaxCopies \in [Messages -> Nat]

VARIABLES
  contracts,      \* the revision of every contract; 0 when there is no row
  log,            \* "notification_logs": the messages recorded, one per eventId
  queue,          \* copies of a message that wait
  routed,         \* copies ever put into the queue
  acked,          \* copies acknowledged
  dlq,            \* copies in the dead-letter queue
  at,             \* the step a handler is about to take
  msg,            \* the message it has
  live,           \* its ack or nack still reaches the broker
  faults          \* bounded by MaxFaults

handlers == <<at, msg, live>>
broker == <<queue, routed, acked, dlq>>
vars == <<contracts, log, broker, handlers, faults>>

Recorded(id) == {m \in log : m.eventId = id}

Fault == faults < MaxFaults /\ faults' = faults + 1

-----------------------------------------------------------------------------
(***************************************************************************)
(* The surroundings: the API, other publishers, the operator.              *)
(***************************************************************************)

\* The API commits the next revision of a contract.
ChangeContract(c) ==
  /\ contracts[c] < MaxRevision
  /\ contracts' = [contracts EXCEPT ![c] = @ + 1]
  /\ UNCHANGED <<log, broker, handlers, faults>>

\* A client publishes m, for the first time or again.
Arrive(m) ==
  /\ routed[m] < MaxCopies[m]
  /\ queue' = [queue EXCEPT ![m] = @ + 1]
  /\ routed' = [routed EXCEPT ![m] = @ + 1]
  /\ UNCHANGED <<contracts, log, acked, dlq, handlers, faults>>

\* parseContractActivatedEvent: all of the fields, and none besides.
Valid(m) == m.fields = EventFields

\* The operator replays a dead letter, whose data must parse; the letter stays
\* until the replay has been verified.
Replay(m) == dlq[m] > 0 /\ Valid(m) /\ Arrive(m)

-----------------------------------------------------------------------------
(***************************************************************************)
(* A handler.                                                              *)
(***************************************************************************)

Deliver(h, m) ==
  /\ at[h] = "idle"
  /\ queue[m] > 0
  /\ queue' = [queue EXCEPT ![m] = @ - 1]
  /\ at' = [at EXCEPT ![h] = "parse"]
  /\ msg' = [msg EXCEPT ![h] = m]
  /\ live' = [live EXCEPT ![h] = TRUE]
  /\ UNCHANGED <<contracts, log, routed, acked, dlq, faults>>

Release(h) ==
  /\ at' = [at EXCEPT ![h] = "idle"]
  /\ msg' = [msg EXCEPT ![h] = None]
  /\ live' = [live EXCEPT ![h] = FALSE]

Goto(h, step) == at' = [at EXCEPT ![h] = step] /\ UNCHANGED <<msg, live>>

\* channel.nack(message, false, false): no requeue, so the dead-letter exchange
\* gets the message.
Reject(h) ==
  /\ dlq' = IF live[h] THEN [dlq EXCEPT ![msg[h]] = @ + 1] ELSE dlq
  /\ Release(h)
  /\ UNCHANGED <<queue, routed, acked>>

Parse(h) ==
  /\ at[h] = "parse"
  /\ \/ ~Valid(msg[h]) /\ Reject(h)
     \/ Valid(msg[h]) /\ Goto(h, "findContract") /\ UNCHANGED broker
  /\ UNCHANGED <<contracts, log, faults>>

\* Mutant of Refers: the contract is looked up by its identifier alone.
RefersToAnyTenant(m) ==
  contracts[m.contract] > 0 /\ contracts[m.contract] >= m.revision

\* The message names a contract of its tenant that has got as far.
Refers(m) ==
  /\ contracts[m.contract] > 0
  /\ Owner[m.contract] = m.tenant
  /\ contracts[m.contract] >= m.revision

\* The first statement of the transaction of record.
FindContract(h) ==
  /\ at[h] = "findContract"
  /\ \/ ~Refers(msg[h]) /\ Reject(h)
     \/ Refers(msg[h]) /\ Goto(h, "insert") /\ UNCHANGED broker
  /\ UNCHANGED <<contracts, log, faults>>

\* The insert and its commit.  A row with the same eventId, which the statement
\* waits for when it is about to be committed, makes it fail with P2002.
Insert(h) ==
  /\ at[h] = "insert"
  /\ \/ /\ Recorded(msg[h].eventId) = {}
        /\ log' = log \cup {msg[h]}
        /\ Goto(h, "ack")
     \/ /\ Recorded(msg[h].eventId) # {}
        /\ Goto(h, "resolve")
        /\ UNCHANGED log
  /\ UNCHANGED <<contracts, broker, faults>>

\* Mutant of ResolveDuplicate: the same identifier is taken for the same event.
ResolveByIdentifier(h) ==
  /\ at[h] = "resolve"
  /\ Goto(h, "ack")
  /\ UNCHANGED <<contracts, log, broker, faults>>

\* Mutant of ResolveDuplicate: another event is left unanswered.
ResolveOrHang(h) ==
  /\ at[h] = "resolve"
  /\ Recorded(msg[h].eventId) = {msg[h]}
  /\ Goto(h, "ack")
  /\ UNCHANGED <<contracts, log, broker, faults>>

\* resolveDuplicate: the same event was recorded, or another one.
ResolveDuplicate(h) ==
  /\ at[h] = "resolve"
  /\ \/ /\ Recorded(msg[h].eventId) = {msg[h]}
        /\ Goto(h, "ack")
        /\ UNCHANGED broker
     \/ Recorded(msg[h].eventId) # {msg[h]} /\ Reject(h)
  /\ UNCHANGED <<contracts, log, faults>>

\* channel.ack(message); it throws when the delivery is no longer live.
Ack(h) ==
  /\ at[h] = "ack"
  /\ acked' = IF live[h] THEN [acked EXCEPT ![msg[h]] = @ + 1] ELSE acked
  /\ Release(h)
  /\ UNCHANGED <<contracts, log, queue, routed, dlq, faults>>

\* A statement fails, and the message is rejected: notification_persistence_failed.
\* A commit may fail after it took effect.
DatabaseFails(h) ==
  /\ at[h] \in {"findContract", "insert", "resolve"}
  /\ Fault
  /\ \/ UNCHANGED log
     \/ /\ at[h] = "insert"
        /\ Recorded(msg[h].eventId) = {}
        /\ log' = log \cup {msg[h]}
  /\ Reject(h)
  /\ UNCHANGED contracts

\* Mutant of Requeue: noAck deliveries are gone with their consumer.
Forget == UNCHANGED queue

Held(m) == Cardinality({h \in Handlers : live[h] /\ msg[h] = m})

\* The broker takes back what it has delivered and nobody has settled.
Requeue == queue' = [m \in Messages |-> queue[m] + Held(m)]

\* The connection is lost and made again; handlers go on with what they have.
ConnectionLost ==
  /\ \E h \in Handlers : live[h]
  /\ Fault
  /\ Requeue
  /\ live' = [h \in Handlers |-> FALSE]
  /\ UNCHANGED <<contracts, log, routed, acked, dlq, at, msg>>

\* The process ends and is started again.
Crash ==
  /\ \E h \in Handlers : at[h] # "idle"
  /\ Fault
  /\ Requeue
  /\ at' = [h \in Handlers |-> "idle"]
  /\ msg' = [h \in Handlers |-> None]
  /\ live' = [h \in Handlers |-> FALSE]
  /\ UNCHANGED <<contracts, log, routed, acked, dlq>>

-----------------------------------------------------------------------------
Init ==
  /\ contracts = [c \in Contracts |-> 0]
  /\ log = {}
  /\ queue = [m \in Messages |-> 0]
  /\ routed = [m \in Messages |-> 0]
  /\ acked = [m \in Messages |-> 0]
  /\ dlq = [m \in Messages |-> 0]
  /\ at = [h \in Handlers |-> "idle"]
  /\ msg = [h \in Handlers |-> None]
  /\ live = [h \in Handlers |-> FALSE]
  /\ faults = 0

\* The next step of the handler of a delivery.
Handle(h) ==
  \/ Parse(h)
  \/ FindContract(h)
  \/ Insert(h)
  \/ ResolveDuplicate(h)
  \/ Ack(h)

Next ==
  \/ \E c \in Contracts : ChangeContract(c)
  \/ \E m \in Messages : Arrive(m) \/ Replay(m)
  \/ \E h \in Handlers, m \in Messages : Deliver(h, m)
  \/ \E h \in Handlers : Handle(h) \/ DatabaseFails(h)
  \/ ConnectionLost
  \/ Crash

Spec == Init /\ [][Next]_vars

\* The broker delivers what it has while a handler is free, and the process
\* runs every handler that can go on.
Fairness ==
  /\ WF_vars(\E h \in Handlers, m \in Messages : Deliver(h, m))
  /\ \A h \in Handlers : WF_vars(Handle(h))

LiveSpec == Spec /\ Fairness

-----------------------------------------------------------------------------
(***************************************************************************)
(* Properties.                                                             *)
(***************************************************************************)

\* No copy of a message is lost or counted twice: it waits, is in the hands of a
\* handler, was acknowledged or is a dead letter, whatever crashed meanwhile.
NothingIsLost ==
  \A m \in Messages :
    routed[m] = queue[m] + Held(m) + acked[m] + dlq[m]

\* A message is only acknowledged when the evidence of exactly this event is
\* persisted: not of another event that reuses its identifier, and for ever.
AckedIsRecorded == \A m \in Messages : acked[m] > 0 => m \in log

\* One notification for an event, however often and however concurrently it is
\* delivered, and each about a contract of its tenant that got as far.
EvidenceIsSound ==
  \A m \in log :
    /\ Recorded(m.eventId) = {m}
    /\ Valid(m)
    /\ Owner[m.contract] = m.tenant
    /\ contracts[m.contract] >= m.revision

\* Every copy of a message is settled in the end: recorded and acknowledged, or a
\* dead letter.  No handler keeps its delivery for ever, also when another copy
\* of the message is settled.
EveryMessageIsSettled ==
  \A m \in Messages : \A n \in 1..MaxCopies[m] :
    routed[m] >= n ~> acked[m] + dlq[m] >= n

=============================================================================
