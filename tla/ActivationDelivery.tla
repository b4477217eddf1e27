------------------------- MODULE ActivationDelivery -------------------------
(***************************************************************************)
(* The way of an activation from the row of the Outbox to the row of the   *)
(* notification log: ActivationOutbox and NotificationConsumer run in one  *)
(* worker process and meet at the queue of the broker.                     *)
(***************************************************************************)
EXTENDS Integers, Sequences, FiniteSets

CONSTANTS
  Events,         \* event identifiers of activations
  Activation,     \* Events -> the contract and the revision they announce
  Rank,           \* Events -> Nat: their order by occurredAt and eventId
  Contracts, Tenants, Owner,
  Handlers, BatchSize, MaxRevision, MaxFaults, None

\* EVENT_FIELDS: what parseContractActivatedEvent asks for.
EventFields ==
  {"eventId", "eventType", "schemaVersion", "tenantId", "contractId",
   "activationRevision", "occurredAt", "correlationId"}

\* What the publisher puts into the data of the envelope: the event with
\* everything findDue selected, the count of its attempts included.
PublishedFields == EventFields \cup {"attemptCount"}

Envelope ==
  [e \in Events |->
    [eventId |-> e, tenant |-> Owner[Activation[e].contract],
     contract |-> Activation[e].contract, revision |-> Activation[e].revision,
     fields |-> PublishedFields]]

Messages == {Envelope[e] : e \in Events}

\* No client publishes a message of its own here.
MaxCopies == [m \in Messages |-> 0]

VARIABLES
  outbox, loop, batch, returned, reason, channel, wire, replies, orphans,
  contracts, log, acked, dlq, at, msg, live,
  queue, routed, faults

Outbox == INSTANCE ActivationOutbox
Consumer == INSTANCE NotificationConsumer

ASSUME DeliveryAssumption ==
  Outbox!OutboxAssumption /\ Consumer!MessagesAssumption

published == <<outbox, loop, batch, returned, reason, channel, wire,
               replies, orphans>>
consumed == <<contracts, log, acked, dlq, at, msg, live>>
vars == <<published, consumed, queue, routed, faults>>

Init == Outbox!Init /\ Consumer!Init

\* The transaction of an activation: the revision of the contract and the row of
\* the Outbox are committed together.
Activate(e) ==
  LET c == Activation[e].contract IN
  /\ contracts[c] = Activation[e].revision - 1
  /\ contracts' = [contracts EXCEPT ![c] = Activation[e].revision]
  /\ Outbox!Activate(e)
  /\ UNCHANGED <<log, acked, dlq, at, msg, live>>

\* The other changes of a contract: its creation, edits and its closure.
ChangeContract(c) ==
  /\ \A e \in Events :
       Activation[e].contract = c => Activation[e].revision # contracts[c] + 1
  /\ Consumer!ChangeContract(c)
  /\ UNCHANGED published

Publisher ==
  /\ \/ Outbox!Publishing
     \/ Outbox!Brokering
     \/ Outbox!Disturbing
     \/ \E e \in Events : Outbox!Elapse(e)
  /\ UNCHANGED consumed

Notifier ==
  /\ \/ \E h \in Handlers : Consumer!Handle(h) \/ Consumer!DatabaseFails(h)
     \/ \E h \in Handlers, m \in Messages : Consumer!Deliver(h, m)
     \/ Consumer!ConnectionLost
  /\ loop # "down"
  /\ UNCHANGED published

\* One process hosts both: they die together, with what they hold.
Crash ==
  /\ Outbox!Fault
  /\ loop' = "down"
  /\ batch' = <<>>
  /\ returned' = FALSE
  /\ reason' = None
  /\ channel' = "none"
  /\ Outbox!LoseWire
  /\ Consumer!Requeue
  /\ at' = [h \in Handlers |-> "idle"]
  /\ msg' = [h \in Handlers |-> None]
  /\ live' = [h \in Handlers |-> FALSE]
  /\ UNCHANGED <<outbox, contracts, log, acked, dlq, routed>>

Next ==
  \/ \E e \in Events : Activate(e)
  \/ \E c \in Contracts : ChangeContract(c)
  \/ Publisher
  \/ Notifier
  \/ Crash

Spec == Init /\ [][Next]_vars

Fairness ==
  /\ WF_vars(Outbox!Publishing /\ UNCHANGED consumed)
  /\ WF_vars(Outbox!Brokering /\ UNCHANGED consumed)
  /\ \A e \in Events : WF_vars(Outbox!Elapse(e) /\ UNCHANGED consumed)
  /\ WF_vars(/\ loop # "down"
             /\ \E h \in Handlers, m \in Messages : Consumer!Deliver(h, m)
             /\ UNCHANGED published)
  /\ \A h \in Handlers :
       WF_vars(loop # "down" /\ Consumer!Handle(h) /\ UNCHANGED published)

LiveSpec == Spec /\ Fairness

-----------------------------------------------------------------------------
(***************************************************************************)
(* Properties.                                                             *)
(***************************************************************************)

\* Attempts are reserved before broker I/O (reserveAttempt): the row of an event
\* counts every copy of it that is, was or may be at the broker, through every
\* crash and while the consumer takes copies away.
EveryCopyIsReserved == Outbox!EveryCopyIsReserved

\* A mark is final (markPublished): the event is not sent again and its row
\* keeps its mark and no failure, although the loop works on rows it read
\* earlier.
MarksAreFinal == Outbox!MarksAreFinal

\* Of every event that is marked as published some copy is still there: in the
\* queue, in the hands of a handler, in the log or in the dead-letter queue.
\* Outbox rows may be forgotten once they are marked.
MarkedIsKept ==
  \A e \in Events : Outbox!IsMarked(e) =>
    LET m == Envelope[e] IN
    queue[m] + Consumer!Held(m) + dlq[m] > 0 \/ m \in log

Arrived(e) ==
  Outbox!IsMarked(e) /\ (Envelope[e] \in log \/ dlq[Envelope[e]] > 0)

\* Every activation leaves the Outbox in the end and is recorded or lies in the
\* dead-letter queue, when failures end: there is always a later moment at which
\* nothing that was committed is on its way.
EveryActivationArrives == []<>(\A e \in Events : outbox[e] # None => Arrived(e))

\* README: "A crash after broker acceptance can republish the same event ID;
\* consumer idempotency still produces one Notification log."  Without any
\* failure no event of the Outbox ends as a dead letter.
OutboxEventsAreNotified ==
  \A e \in Events : faults = 0 => dlq[Envelope[e]] = 0

=============================================================================
