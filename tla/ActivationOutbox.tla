-------------------------- MODULE ActivationOutbox --------------------------
(***************************************************************************)
(* The publisher of the worker: a loop that reads the due rows of          *)
(* "contract_activation_outbox", reserves an attempt for each, publishes   *)
(* it on a confirm channel of RabbitMQ, waits for the broker's answer and  *)
(* records what it was.  Every await of the loop ends a step; between two  *)
(* steps the broker answers, a timer fires, a connection breaks or the     *)
(* process dies.                                                           *)
(*                                                                         *)
(* Time is the flag due of a row: nextAttemptAt has passed.  A reservation *)
(* clears it, and the delay of the attempt elapses some time later.        *)
(***************************************************************************)
EXTENDS Integers, Sequences, FiniteSets, Functions

CONSTANTS
  Events,         \* event identifiers of activations
  Messages,       \* what may be in the queue
  Envelope,       \* Events -> Messages: the message an event is published as
  Rank,           \* Events -> Nat: the order by occurredAt and eventId, in which
                  \* the API's clock puts them, whichever is committed first
  BatchSize,      \* BATCH_SIZE of the publisher
  MaxFaults,      \* bound: failures of the environment in a behaviour
  None

Reasons == {"RETURNED", "NACKED", "CONFIRM_TIMEOUT", "CONNECTION_LOST"}

OutboxRow == [attempts: Nat, due: BOOLEAN, published: BOOLEAN,
              failure: Reasons \cup {None}]

\* A row as findDue read it, and a publish of one of its attempts.
Read == [event: Events, attempts: Nat]
Publish == [event: Events, attempt: Nat \ {0}]
Reply == [is: {"return", "ack", "nack"}, to: Publish]

\* What the constants have to be: an envelope carries its event's identifier.
OutboxAssumption ==
  /\ Envelope \in [Events -> Messages]
  /\ Rank \in [Events -> Nat]
  /\ \A e, f \in Events :
       Envelope[e] = Envelope[f] \/ Rank[e] = Rank[f] => e = f
  /\ BatchSize \in Nat \ {0}
  /\ MaxFaults \in Nat
  /\ None \notin OutboxRow \cup Reasons

VARIABLES
  outbox,         \* the committed rows
  loop,           \* what the publisher is about to do
  batch,          \* the rows it has read and not finished, the current one first
  returned,       \* the current attempt has seen a basic.return
  reason,         \* the failure it is about to record
  channel,        \* "none", "open", or "dead": closed but not forgotten
  wire,           \* publishes on the channel the broker has not seen
  replies,        \* answers of the broker the publisher has not seen
  orphans,        \* publishes whose channel is gone; the broker may have them
  queue,          \* copies of a message that wait in the consumer's queue
  routed,         \* copies the broker ever put there
  faults          \* bounded by MaxFaults

publisher == <<loop, batch, returned, reason>>
connection == <<channel, wire, replies, orphans>>
broker == <<queue, routed>>
vars == <<outbox, publisher, connection, broker, faults>>

Fault == faults < MaxFaults /\ faults' = faults + 1

Current == Head(batch)
Attempt == [event |-> Current.event, attempt |-> Current.attempts + 1]

\* A copy of m is in the queue, for good: messages are persistent.
Route(m) ==
  /\ queue' = [queue EXCEPT ![m] = @ + 1]
  /\ routed' = [routed EXCEPT ![m] = @ + 1]

-----------------------------------------------------------------------------
(***************************************************************************)
(* The rows.                                                               *)
(***************************************************************************)

\* The API commits an activation together with its row, due at once.
Activate(e) ==
  /\ outbox[e] = None
  /\ outbox' = [outbox EXCEPT ![e] = [attempts |-> 0, due |-> TRUE,
                                      published |-> FALSE, failure |-> None]]
  /\ UNCHANGED <<publisher, connection, broker, faults>>

\* The clock passes nextAttemptAt.
Elapse(e) ==
  /\ outbox[e] # None
  /\ ~outbox[e].due
  /\ outbox' = [outbox EXCEPT ![e].due = TRUE]
  /\ UNCHANGED <<publisher, connection, broker, faults>>

\* Mutant of IsDue: the query without publishedAt: null.
IsDueAgain(e) == outbox[e].due

\* Mutant of IsDue: only events that were never attempted.
IsDueOnce(e) ==
  outbox[e].due /\ ~outbox[e].published /\ outbox[e].attempts = 0

IsDue(e) == outbox[e].due /\ ~outbox[e].published

Due == {e \in Events : outbox[e] # None /\ IsDue(e)}

\* Of the due rows the n first are the oldest, in their order, and no others are
\* left out unless they fill a batch.
AreTheOldest(first, n) ==
  /\ \A i, j \in 1..n : i < j => Rank[first[i]] < Rank[first[j]]
  /\ \A e \in Due \ Range(first) : n = BatchSize /\ Rank[first[n]] < Rank[e]

-----------------------------------------------------------------------------
(***************************************************************************)
(* The loop of the publisher.                                              *)
(***************************************************************************)

\* findDue: the oldest due rows, as many as a batch takes.  A poll that finds
\* nothing, or fails, changes nothing: the loop waits and polls again.
FindDue ==
  /\ loop = "poll"
  /\ \E n \in 1..BatchSize : \E first \in [1..n -> Due] :
       /\ AreTheOldest(first, n)
       /\ batch' = [i \in 1..n |-> [event |-> first[i],
                                   attempts |-> outbox[first[i]].attempts]]
  /\ loop' = "reserve"
  /\ UNCHANGED <<outbox, returned, reason, connection, broker, faults>>

\* On to the next row of the batch, whatever became of this one.
NextRow ==
  /\ batch' = Tail(batch)
  /\ loop' = IF Tail(batch) = <<>> THEN "poll" ELSE "reserve"
  /\ returned' = FALSE
  /\ reason' = None

\* Mutant of ReserveAttempt: the attempt is left to recordFailure.
PublishUnreserved ==
  /\ loop = "reserve"
  /\ loop' = "publish"
  /\ UNCHANGED <<outbox, batch, returned, reason, connection, broker, faults>>

\* reserveAttempt writes the count of the attempts it has read plus one.  When
\* the update fails, with or without its effect, the attempt is given up.
ReserveAttempt ==
  LET reserved == [outbox EXCEPT ![Current.event].attempts = Attempt.attempt,
                                 ![Current.event].due = FALSE]
  IN
  /\ loop = "reserve"
  /\ \/ /\ outbox' = reserved
        /\ loop' = "publish"
        /\ UNCHANGED <<batch, returned, reason, faults>>
     \/ Fault /\ outbox' \in {outbox, reserved} /\ NextRow
  /\ UNCHANGED <<connection, broker>>

\* confirmChannel, and channel.publish on a channel that is open.
Send ==
  /\ loop = "publish"
  /\ channel \in {"none", "open"}
  /\ channel' = "open"
  /\ wire' = Append(wire, Attempt)
  /\ returned' = FALSE
  /\ loop' = "await"
  /\ UNCHANGED <<outbox, batch, reason, replies, orphans, broker, faults>>

\* No connection to the broker.
ConnectFails ==
  /\ loop = "publish"
  /\ channel = "none"
  /\ Fault
  /\ NextRow
  /\ UNCHANGED <<outbox, connection, broker>>

\* channel.publish throws on a channel that was closed behind its back; close()
\* forgets it.
SendOnDeadChannel ==
  /\ loop = "publish"
  /\ channel = "dead"
  /\ channel' = "none"
  /\ NextRow
  /\ UNCHANGED <<outbox, wire, replies, orphans, broker, faults>>

\* The promise of confirmedPublish is settled: failed with a reason.
Fail(why) == loop' = "fail" /\ reason' = why /\ UNCHANGED <<batch, returned>>

\* onReturn: the broker had no queue for a message with the identifier of the
\* current event, in this attempt or in an earlier one.
OnReturn ==
  /\ replies # <<>>
  /\ Head(replies).is = "return"
  /\ replies' = Tail(replies)
  /\ returned' = (returned \/ /\ loop = "await"
                              /\ Head(replies).to.event = Current.event)
  /\ UNCHANGED <<outbox, loop, batch, reason, channel, wire, orphans, broker,
                 faults>>

\* Mutant of OnConfirm: the callback does not look at returned.
OnConfirmOnly ==
  /\ replies # <<>>
  /\ Head(replies).is # "return"
  /\ replies' = Tail(replies)
  /\ IF loop = "await" /\ Head(replies).to = Attempt
     THEN IF Head(replies).is = "nack"
          THEN Fail("NACKED")
          ELSE loop' = "mark" /\ UNCHANGED <<batch, returned, reason>>
     ELSE UNCHANGED publisher
  /\ UNCHANGED <<outbox, channel, wire, orphans, broker, faults>>

\* The callback of a publish: only the current attempt still listens to it.
OnConfirm ==
  /\ replies # <<>>
  /\ Head(replies).is # "return"
  /\ replies' = Tail(replies)
  /\ \/ /\ loop = "await" /\ Head(replies).to = Attempt
        /\ \/ returned /\ Fail("RETURNED")
           \/ ~returned /\ Head(replies).is = "nack" /\ Fail("NACKED")
           \/ /\ ~returned /\ Head(replies).is = "ack"
              /\ loop' = "mark"
              /\ UNCHANGED <<batch, returned, reason>>
     \/ /\ ~(loop = "await" /\ Head(replies).to = Attempt)
        /\ UNCHANGED publisher
  /\ UNCHANGED <<outbox, channel, wire, orphans, broker, faults>>

ConfirmTimeout ==
  /\ loop = "await"
  /\ Fault
  /\ Fail("CONFIRM_TIMEOUT")
  /\ UNCHANGED <<outbox, connection, broker>>

\* What was on the wire may have reached the broker or not; nobody will tell.
LoseWire ==
  /\ orphans' = orphans \cup Range(wire)
  /\ wire' = <<>>
  /\ replies' = <<>>

\* The connection closes, which is noticed, or only the channel does, which is
\* noticed by nobody but an attempt in progress.
ChannelCloses ==
  /\ channel = "open"
  /\ Fault
  /\ channel' \in {"none", "dead"}
  /\ LoseWire
  /\ \/ loop = "await" /\ Fail("CONNECTION_LOST")
     \/ loop # "await" /\ UNCHANGED publisher
  /\ UNCHANGED <<outbox, broker>>

\* recordFailure; an update that fails leaves the row pending all the same.
RecordFailure ==
  /\ loop = "fail"
  /\ \/ /\ outbox' = [outbox EXCEPT ![Current.event].failure = reason]
        /\ UNCHANGED faults
     \/ Fault /\ UNCHANGED outbox
  /\ NextRow
  /\ UNCHANGED <<connection, broker>>

\* markPublished; an update that fails leaves a routed event pending.
MarkPublished ==
  /\ loop = "mark"
  /\ \/ /\ outbox' = [outbox EXCEPT ![Current.event].published = TRUE,
                                    ![Current.event].failure = None]
        /\ UNCHANGED faults
     \/ Fault /\ UNCHANGED outbox
  /\ NextRow
  /\ UNCHANGED <<connection, broker>>

\* The process ends, at any point of the loop: killed, or shut down while an
\* attempt outlasts SHUTDOWN_MS.
Crash ==
  /\ loop # "down"
  /\ Fault
  /\ loop' = "down"
  /\ batch' = <<>>
  /\ returned' = FALSE
  /\ reason' = None
  /\ channel' = "none"
  /\ LoseWire
  /\ UNCHANGED <<outbox, broker>>

Restart ==
  /\ loop = "down"
  /\ loop' = "poll"
  /\ UNCHANGED <<outbox, batch, returned, reason, connection, broker, faults>>

-----------------------------------------------------------------------------
(***************************************************************************)
(* The broker.                                                             *)
(***************************************************************************)

Sent == Head(wire)

BrokerRoutes ==
  /\ wire # <<>>
  /\ Route(Envelope[Sent.event])
  /\ replies' = Append(replies, [is |-> "ack", to |-> Sent])
  /\ wire' = Tail(wire)
  /\ UNCHANGED <<outbox, publisher, channel, orphans, faults>>

\* No queue is bound: a mandatory message is returned, and then acknowledged.
BrokerReturns ==
  /\ wire # <<>>
  /\ Fault
  /\ replies' = replies \o <<[is |-> "return", to |-> Sent],
                             [is |-> "ack", to |-> Sent]>>
  /\ wire' = Tail(wire)
  /\ UNCHANGED <<outbox, publisher, channel, orphans, broker>>

\* An error of the broker, which may have kept the message or not.
BrokerNacks ==
  /\ wire # <<>>
  /\ Fault
  /\ Route(Envelope[Sent.event]) \/ UNCHANGED broker
  /\ replies' = Append(replies, [is |-> "nack", to |-> Sent])
  /\ wire' = Tail(wire)
  /\ UNCHANGED <<outbox, publisher, channel, orphans>>

\* A publish the broker had received before its channel was gone.
OrphanArrives ==
  \E o \in orphans :
    /\ Route(Envelope[o.event])
    /\ orphans' = orphans \ {o}
    /\ UNCHANGED <<outbox, publisher, channel, wire, replies, faults>>

-----------------------------------------------------------------------------
Init ==
  /\ outbox = [e \in Events |-> None]
  /\ loop = "poll"
  /\ batch = <<>>
  /\ returned = FALSE
  /\ reason = None
  /\ channel = "none"
  /\ wire = <<>>
  /\ replies = <<>>
  /\ orphans = {}
  /\ queue = [m \in Messages |-> 0]
  /\ routed = [m \in Messages |-> 0]
  /\ faults = 0

\* The publisher's own steps.
Publishing ==
  \/ FindDue
  \/ ReserveAttempt
  \/ Send
  \/ ConnectFails
  \/ SendOnDeadChannel
  \/ OnReturn
  \/ OnConfirm
  \/ RecordFailure
  \/ MarkPublished
  \/ Restart

Brokering ==
  \/ BrokerRoutes
  \/ BrokerReturns
  \/ BrokerNacks

\* What happens to the loop and its connection.
Disturbing ==
  \/ ConfirmTimeout
  \/ ChannelCloses
  \/ OrphanArrives

Next ==
  \/ \E e \in Events : Activate(e) \/ Elapse(e)
  \/ Publishing
  \/ Brokering
  \/ Disturbing
  \/ Crash

Spec == Init /\ [][Next]_vars

-----------------------------------------------------------------------------
(***************************************************************************)
(* Properties.                                                             *)
(***************************************************************************)

Exists(e) == outbox[e] # None
IsMarked(e) == Exists(e) /\ outbox[e].published

\* Attempts are reserved before broker I/O: the row of an event counts every
\* copy of it that is, was or may be at the broker, through every crash.
OnTheWay(e) ==
  Cardinality({i \in DOMAIN wire : wire[i].event = e})
    + Cardinality({o \in orphans : o.event = e})
EveryCopyIsReserved ==
  \A e \in Events : Exists(e) =>
    routed[Envelope[e]] + OnTheWay(e) <= outbox[e].attempts

Sends(e) == Len(wire') > Len(wire) /\ wire'[Len(wire')].event = e

\* A mark is final: the event is not sent again and its row keeps its mark and
\* no failure, although the loop works on rows it read earlier.
MarksAreFinal ==
  [][\A e \in Events : IsMarked(e) =>
       /\ ~Sends(e)
       /\ outbox'[e].published
       /\ outbox'[e].failure = None
       /\ outbox'[e].attempts = outbox[e].attempts]_vars

=============================================================================
