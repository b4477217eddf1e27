----------------------- MODULE MCNotificationConsumer -----------------------
(***************************************************************************)
(* Instances of NotificationConsumer for TLC.                              *)
(***************************************************************************)
EXTENDS NotificationConsumer

CONSTANTS t1, t2, c1, x1, x2

MCFields ==
  {"eventId", "eventType", "schemaVersion", "tenantId", "contractId",
   "activationRevision", "occurredAt", "correlationId"}

MCOwner == [c \in Contracts |-> t1]

Message(id, t, n, fields) ==
  [eventId |-> id, tenant |-> t, contract |-> c1, revision |-> n,
   fields |-> fields]

\* An event, another one that reuses its identifier and comes before its
\* revision, one of the wrong tenant, and one with a field too many.
Original == Message(x1, t1, 1, MCFields)
MCMessages ==
  {Original, Message(x1, t1, 2, MCFields), Message(x2, t2, 1, MCFields),
   Message(x2, t1, 1, MCFields \cup {"attemptCount"})}

\* The first is published twice, or once and replayed.
MCCopies == [m \in MCMessages |-> IF m = Original THEN 2 ELSE 1]

=============================================================================
