---------------------- MODULE ActivationDeliveryProofs ----------------------
(***************************************************************************)
(* What holds on the way of an activation from the Outbox to the log, for  *)
(* any number of events, handlers and failures, and for batches of any     *)
(* size.                                                                   *)
(***************************************************************************)
EXTENDS ActivationDelivery, SequenceTheorems, FiniteSetTheorems, TLAPS

Notes == INSTANCE NotificationConsumerProofs

\* Where the publisher has a current row.
Working == {"reserve", "publish", "await", "fail", "mark"}

\* Types of the publisher's part.
PublisherType ==
  /\ outbox \in [Events -> Outbox!OutboxRow \cup {None}]
  /\ loop \in Working \cup {"poll", "down"}
  /\ batch \in Seq(Outbox!Read)
  /\ returned \in BOOLEAN
  /\ reason \in Outbox!Reasons \cup {None}
  /\ channel \in {"none", "open", "dead"}
  /\ wire \in Seq(Outbox!Publish)
  /\ replies \in Seq(Outbox!Reply)
  /\ orphans \in SUBSET Outbox!Publish
  /\ IsFiniteSet(orphans)

\* The batch holds pending rows, each once, as they are in the table; of the
\* current one an attempt more is reserved while it is worked on.
BatchFits ==
  /\ loop \in Working <=> batch # <<>>
  /\ \A i \in DOMAIN batch :
       LET row == outbox[batch[i].event] IN
       /\ row # None
       /\ ~row.published
       /\ row.attempts = IF i = 1 /\ loop # "reserve"
                         THEN batch[i].attempts + 1
                         ELSE batch[i].attempts
  /\ \A i, j \in DOMAIN batch : batch[i].event = batch[j].event => i = j

\* How often an event may have been handed to the channel: as often as attempts
\* were reserved, except for the one that is about to be.
Tried(e) ==
  IF outbox[e] = None THEN 0
  ELSE IF loop = "publish" /\ Outbox!Current.event = e
       THEN Outbox!Current.attempts
       ELSE outbox[e].attempts

\* Where a sequence of publishes has one of e.
Places(s, e) == {i \in DOMAIN s : s[i].event = e}
Orphaned(e) == {o \in orphans : o.event = e}

\* Every copy was tried.
CopiesFit ==
  \A e \in Events :
    routed[Envelope[e]] + Cardinality(Places(wire, e)) + Cardinality(Orphaned(e))
      <= Tried(e)

\* What is about a publish is about one that was tried.
IsTried(p) == p.attempt <= Tried(p.event)

PublishesFit ==
  /\ \A i \in DOMAIN wire : IsTried(wire[i])
  /\ \A i \in DOMAIN replies : IsTried(replies[i].to)
  /\ \A o \in orphans : IsTried(o)

IsRouted(e) == routed[Envelope[e]] > 0

\* The current attempt takes an acknowledgement for a copy in the queue only if
\* it is one: a message that was returned is announced before.
AcksAreTrue ==
  /\ loop = "await" =>
       \A i \in DOMAIN replies :
         replies[i] = [is |-> "ack", to |-> Outbox!Attempt] =>
           \/ returned
           \/ IsRouted(Outbox!Current.event)
           \/ \E j \in 1..(i - 1) :
                replies[j] = [is |-> "return", to |-> Outbox!Attempt]
  /\ loop = "mark" => IsRouted(Outbox!Current.event)

\* What is marked is routed, and no failure is recorded of it.
MarksFit ==
  \A e \in Events :
    Outbox!IsMarked(e) => IsRouted(e) /\ outbox[e].failure = None

PublisherInv ==
  /\ PublisherType
  /\ BatchFits
  /\ CopiesFit
  /\ PublishesFit
  /\ AcksAreTrue
  /\ MarksFit

IInv == PublisherInv /\ Notes!IInv

-----------------------------------------------------------------------------
(***************************************************************************)
(* Counting publishes.                                                     *)
(***************************************************************************)

\* A sequence has finitely many publishes.
LEMMA PlacesAreFinite ==
  ASSUME NEW s \in Seq(Outbox!Publish), NEW e
  PROVE  /\ IsFiniteSet(Places(s, e))
         /\ Cardinality(Places(s, e)) \in Nat
  <1>1. Len(s) \in Nat /\ DOMAIN s = 1..Len(s)
    BY LenProperties
  <1>2. Places(s, e) \in SUBSET (1..Len(s))
    BY <1>1 DEF Places
  <1>3. IsFiniteSet(1..Len(s))
    BY <1>1, FS_Interval
  <1> QED
    BY <1>2, <1>3, FS_Subset, FS_CardinalityType

\* A publish more at the end is one of its event.
LEMMA PlacesOfAppend ==
  ASSUME NEW s \in Seq(Outbox!Publish), NEW p \in Outbox!Publish, NEW e
  PROVE  Cardinality(Places(Append(s, p), e)) =
           IF p.event = e THEN Cardinality(Places(s, e)) + 1
                          ELSE Cardinality(Places(s, e))
  <1>1. Len(s) \in Nat /\ DOMAIN s = 1..Len(s)
    BY LenProperties
  <1>2. /\ DOMAIN Append(s, p) = 1..(Len(s) + 1)
        /\ \A i \in 1..Len(s) : Append(s, p)[i] = s[i]
        /\ Append(s, p)[Len(s) + 1] = p
    BY <1>1, AppendProperties, LenProperties
  <1>3. CASE p.event = e
    <2>1. Places(Append(s, p), e) = Places(s, e) \cup {Len(s) + 1}
      BY <1>1, <1>2, <1>3 DEF Places
    <2>2. Len(s) + 1 \notin Places(s, e)
      BY <1>1 DEF Places
    <2>3. IsFiniteSet(Places(s, e))
      BY PlacesAreFinite
    <2>4. Cardinality(Places(s, e) \cup {Len(s) + 1}) = Cardinality(Places(s, e)) + 1
      BY <2>2, <2>3, FS_AddElement
    <2> QED
      BY <1>3, <2>1, <2>4
  <1>4. CASE p.event # e
    <2>1. Places(Append(s, p), e) = Places(s, e)
      BY <1>1, <1>2, <1>4 DEF Places
    <2> QED
      BY <1>4, <2>1
  <1> QED
    BY <1>3, <1>4

\* The first publish counts for its event.
LEMMA PlacesOfTail ==
  ASSUME NEW s \in Seq(Outbox!Publish), s # <<>>, NEW e
  PROVE  Cardinality(Places(s, e)) =
           IF Head(s).event = e THEN Cardinality(Places(Tail(s), e)) + 1
                                ELSE Cardinality(Places(Tail(s), e))
  <1>1. Len(s) \in Nat \ {0} /\ DOMAIN s = 1..Len(s)
    BY LenProperties, EmptySeq
  <1>2. /\ Tail(s) \in Seq(Outbox!Publish) /\ DOMAIN Tail(s) = 1..(Len(s) - 1)
        /\ \A i \in 1..(Len(s) - 1) : Tail(s)[i] = s[i + 1]
    BY <1>1, HeadTailProperties, LenProperties
  <1>3. Head(s) = s[1]
    OBVIOUS
  <1> DEFINE rest == Places(s, e) \ {1}
             shift == [i \in Places(Tail(s), e) |-> i + 1]
  <1>4. shift \in Bijection(Places(Tail(s), e), rest)
    <2>1. shift \in [Places(Tail(s), e) -> rest]
      BY <1>1, <1>2 DEF Places
    <2>2. \A i, j \in Places(Tail(s), e) : shift[i] = shift[j] => i = j
      BY <1>1, <1>2 DEF Places
    <2>3. \A k \in rest : \E i \in Places(Tail(s), e) : shift[i] = k
      <3> SUFFICES ASSUME NEW k \in rest
                   PROVE  \E i \in Places(Tail(s), e) : shift[i] = k
        OBVIOUS
      <3>1. k \in 2..Len(s) /\ s[k].event = e
        BY <1>1 DEF Places
      <3>2. k - 1 \in Places(Tail(s), e)
        BY <1>1, <1>2, <3>1 DEF Places
      <3>3. shift[k - 1] = k
        BY <1>1, <3>1, <3>2
      <3> QED
        BY <3>2, <3>3
    <2>4. shift \in Injection(Places(Tail(s), e), rest)
      <3>1. DOMAIN shift = Places(Tail(s), e)
        OBVIOUS
      <3> HIDE DEF rest, shift
      <3> QED
        BY <2>1, <2>2, <3>1 DEF Injection, IsInjective
    <2> HIDE DEF rest, shift
    <2>5. shift \in Surjection(Places(Tail(s), e), rest)
      BY <2>1, <2>3 DEF Surjection
    <2> QED
      BY <2>4, <2>5 DEF Bijection
  <1>5. Cardinality(rest) = Cardinality(Places(Tail(s), e))
    <2>1. IsFiniteSet(Places(Tail(s), e))
      BY <1>2, PlacesAreFinite
    <2>2. ExistsBijection(Places(Tail(s), e), rest)
      BY <1>4 DEF ExistsBijection
    <2> QED
      BY <2>1, <2>2, FS_Bijection
  <1>6. IsFiniteSet(Places(s, e)) /\ Cardinality(Places(s, e)) \in Nat
    BY PlacesAreFinite
  <1>7. Cardinality(rest) = IF 1 \in Places(s, e)
                            THEN Cardinality(Places(s, e)) - 1
                            ELSE Cardinality(Places(s, e))
    BY <1>6, FS_RemoveElement
  <1>8. 1 \in Places(s, e) <=> Head(s).event = e
    BY <1>1, <1>3 DEF Places
  <1>9. Cardinality(Places(Tail(s), e)) \in Nat
    BY <1>2, PlacesAreFinite
  <1> QED
    BY <1>5, <1>6, <1>7, <1>8, <1>9

\* A sequence that has no publishes has none of any event.
LEMMA PlacesOfNone ==
  ASSUME NEW e
  PROVE  Cardinality(Places(<<>>, e)) = 0
  <1>1. Places(<<>>, e) = {}
    BY DEF Places
  <1> QED
    BY <1>1, FS_EmptySet

\* As a set the publishes of a sequence are no more than in their places.
LEMMA PublishesInPlaces ==
  ASSUME NEW s \in Seq(Outbox!Publish), NEW e
  PROVE  LET those == {p \in Range(s) : p.event = e}
         IN  /\ IsFiniteSet(those)
             /\ Cardinality(those) <= Cardinality(Places(s, e))
  <1> DEFINE those == {p \in Range(s) : p.event = e}
             at_ == [i \in Places(s, e) |-> s[i]]
  <1>1. at_ \in Surjection(Places(s, e), those)
    BY DEF Places, Surjection, Range
  <1>2. IsFiniteSet(Places(s, e))
    BY PlacesAreFinite
  <1> QED
    BY <1>1, <1>2, FS_Surjection

\* All of them are finitely many.
LEMMA RangeIsFinite ==
  ASSUME NEW s \in Seq(Outbox!Publish)
  PROVE  IsFiniteSet(Range(s)) /\ Range(s) \subseteq Outbox!Publish
  <1>1. Len(s) \in Nat /\ DOMAIN s = 1..Len(s) /\ s \in [1..Len(s) -> Outbox!Publish]
    BY LenProperties
  <1>2. s \in Surjection(1..Len(s), Range(s))
    BY <1>1 DEF Surjection, Range
  <1>3. IsFiniteSet(1..Len(s))
    BY <1>1, FS_Interval
  <1> QED
    BY <1>1, <1>2, <1>3, FS_Surjection DEF Range

-----------------------------------------------------------------------------
(***************************************************************************)
(* What several steps of the publisher have in common.                     *)
(***************************************************************************)

\* The row that is worked on is pending, and there is one.
LEMMA TheCurrentRow ==
  ASSUME PublisherType, BatchFits, loop \in Working
  PROVE  /\ Outbox!Current = batch[1] /\ 1 \in DOMAIN batch
         /\ batch[1] \in Outbox!Read
         /\ batch[1].event \in Events /\ batch[1].attempts \in Nat
         /\ outbox[batch[1].event] \in Outbox!OutboxRow
         /\ ~outbox[batch[1].event].published
         /\ outbox[batch[1].event].attempts =
              IF loop = "reserve" THEN batch[1].attempts
                                  ELSE batch[1].attempts + 1
  <1>1. batch # <<>> /\ batch \in Seq(Outbox!Read)
    BY DEF BatchFits, PublisherType
  <1>2. Outbox!Current = batch[1] /\ 1 \in DOMAIN batch
    BY <1>1, EmptySeq, LenProperties DEF Outbox!Current
  <1>3. batch[1] \in Outbox!Read
    BY <1>1, <1>2, ElementOfSeq, LenProperties
  <1>4. batch[1].event \in Events /\ batch[1].attempts \in Nat
    BY <1>3 DEF Outbox!Read
  <1> QED
    BY <1>2, <1>3, <1>4 DEF BatchFits, PublisherType

\* The attempts that may have been used are no more than those reserved.
LEMMA TriedIsReserved ==
  ASSUME PublisherType, BatchFits, NEW e \in Events
  PROVE  /\ Tried(e) \in Nat
         /\ outbox[e] # None => Tried(e) <= outbox[e].attempts
  <1>1. outbox[e] # None => outbox[e] \in Outbox!OutboxRow
    BY DEF PublisherType
  <1>2. CASE loop = "publish" /\ Outbox!Current.event = e
    BY <1>1, <1>2, TheCurrentRow DEF Tried, Working, Outbox!OutboxRow
  <1>3. CASE ~(loop = "publish" /\ Outbox!Current.event = e)
    BY <1>1, <1>3 DEF Tried, Outbox!OutboxRow
  <1> QED
    BY <1>2, <1>3

\* Publishes and what is said of them.
LEMMA PublishesAreTyped ==
  ASSUME PublisherType
  PROVE  /\ \A i \in DOMAIN wire : wire[i] \in Outbox!Publish
         /\ \A i \in DOMAIN replies :
              /\ replies[i] \in Outbox!Reply
              /\ replies[i].to \in Outbox!Publish
  <1>1. ASSUME NEW i \in DOMAIN wire
        PROVE  wire[i] \in Outbox!Publish
    BY LenProperties, ElementOfSeq DEF PublisherType
  <1>2. ASSUME NEW i \in DOMAIN replies
        PROVE  replies[i] \in Outbox!Reply /\ replies[i].to \in Outbox!Publish
    <2>1. replies[i] \in Outbox!Reply
      BY LenProperties, ElementOfSeq DEF PublisherType
    <2> QED
      BY <2>1 DEF Outbox!Reply
  <1> QED
    BY <1>1, <1>2

\* Rows as they were read.
LEMMA ReadsAreTyped ==
  ASSUME PublisherType
  PROVE  \A i \in DOMAIN batch :
           /\ batch[i] \in Outbox!Read
           /\ batch[i].event \in Events
           /\ batch[i].attempts \in Nat
  <1>1. ASSUME NEW i \in DOMAIN batch
        PROVE  batch[i] \in Outbox!Read
    BY LenProperties, ElementOfSeq DEF PublisherType
  <1> QED
    BY <1>1 DEF Outbox!Read

\* What is counted are numbers.
LEMMA CountsAreNat ==
  ASSUME PublisherType, Notes!IInv, NEW e \in Events
  PROVE  /\ Cardinality(Places(wire, e)) \in Nat
         /\ IsFiniteSet(Orphaned(e)) /\ Cardinality(Orphaned(e)) \in Nat
         /\ routed \in [Messages -> Nat] /\ queue \in [Messages -> Nat]
         /\ Envelope[e] \in Messages /\ routed[Envelope[e]] \in Nat
  <1>1. Cardinality(Places(wire, e)) \in Nat
    BY PlacesAreFinite DEF PublisherType
  <1>2. IsFiniteSet(Orphaned(e)) /\ Cardinality(Orphaned(e)) \in Nat
    <2>1. Orphaned(e) \in SUBSET orphans
      BY DEF Orphaned
    <2> QED
      BY <2>1, FS_Subset, FS_CardinalityType DEF PublisherType
  <1>3. routed \in [Messages -> Nat] /\ queue \in [Messages -> Nat]
    BY DEF Notes!IInv, Notes!TablesType
  <1>4. Envelope[e] \in Messages
    BY DEF Messages
  <1> QED
    BY <1>1, <1>2, <1>3, <1>4

\* No reservation is taken back.
RowsStay ==
  \A e \in Events : outbox[e] # None =>
    /\ outbox'[e] # None
    /\ outbox'[e].attempts >= outbox[e].attempts

\* Whatever ends the preparation of a publish leaves no fewer attempts.
LEMMA NoLessTried ==
  ASSUME PublisherType, PublisherType', BatchFits, RowsStay,
         loop' # "publish" \/ UNCHANGED <<loop, batch>>, NEW e \in Events
  PROVE  Tried(e) \in Nat /\ Tried(e)' \in Nat /\ Tried(e)' >= Tried(e)
  <1>1. /\ Tried(e) \in Nat
        /\ outbox[e] # None => Tried(e) <= outbox[e].attempts
    BY TriedIsReserved
  <1>2. /\ outbox[e] # None => outbox[e].attempts \in Nat
        /\ outbox'[e] # None => outbox'[e].attempts \in Nat
    BY DEF PublisherType, Outbox!OutboxRow
  <1>3. CASE outbox[e] = None
    <2>1. Tried(e) = 0
      BY <1>3 DEF Tried
    <2>2. Tried(e)' \in Nat
      <3>1. CASE loop' = "publish"
        <4>1. /\ Outbox!Current' = batch[1] /\ batch[1].attempts \in Nat
          BY <3>1, TheCurrentRow DEF Outbox!Current, Working
        <4> QED
          BY <1>2, <4>1 DEF Tried
      <3>2. CASE loop' # "publish"
        BY <1>2, <3>2 DEF Tried
      <3> QED
        BY <3>1, <3>2
    <2> QED
      BY <2>1, <2>2
  <1>4. CASE outbox[e] # None
    <2>1. outbox'[e] # None /\ outbox'[e].attempts >= outbox[e].attempts
      BY <1>4 DEF RowsStay
    <2>2. CASE loop' # "publish"
      BY <1>1, <1>2, <1>4, <2>1, <2>2 DEF Tried
    <2>3. CASE loop' = "publish"
      <3>1. /\ Outbox!Current' = Outbox!Current /\ loop = "publish"
            /\ Outbox!Current.attempts \in Nat
        BY <2>3, TheCurrentRow DEF Outbox!Current, Working
      <3> QED
        BY <1>1, <1>2, <1>4, <2>1, <2>3, <3>1 DEF Tried
    <2> QED
      BY <2>2, <2>3
  <1> QED
    BY <1>3, <1>4

\* When nothing is sent and no copy comes, what has been tried stays so.
LEMMA TriesStay ==
  ASSUME PublisherType, CopiesFit, PublishesFit,
         UNCHANGED <<wire, replies, orphans, routed>>,
         \A e \in Events : Tried(e) \in Nat /\ Tried(e)' \in Nat
                           /\ Tried(e)' >= Tried(e),
         Notes!IInv
  PROVE  CopiesFit' /\ PublishesFit'
  <1>1. ASSUME NEW e \in Events
        PROVE  routed'[Envelope[e]] + Cardinality(Places(wire', e))
                 + Cardinality(Orphaned(e)') <= Tried(e)'
    <2>1. /\ Cardinality(Places(wire, e)) \in Nat
          /\ Cardinality(Orphaned(e)) \in Nat
          /\ routed[Envelope[e]] \in Nat
      BY CountsAreNat
    <2>2. Orphaned(e)' = Orphaned(e)
      BY DEF Orphaned
    <2> QED
      BY <2>1, <2>2 DEF CopiesFit
  <1>2. CopiesFit'
    BY <1>1 DEF CopiesFit
  <1>3. PublishesFit'
    <2>1. \A p \in Outbox!Publish : IsTried(p) => IsTried(p)'
      BY DEF Outbox!Publish, IsTried
    <2>2. /\ \A i \in DOMAIN wire : wire[i] \in Outbox!Publish
          /\ \A i \in DOMAIN replies : replies[i].to \in Outbox!Publish
      BY PublishesAreTyped
    <2>3. \A i \in DOMAIN wire : IsTried(wire[i])'
      BY <2>1, <2>2 DEF PublishesFit
    <2>4. \A i \in DOMAIN replies : IsTried(replies[i].to)'
      BY <2>1, <2>2 DEF PublishesFit
    <2>5. \A o \in orphans : IsTried(o)'
      BY <2>1 DEF PublisherType, PublishesFit
    <2> QED
      BY <2>3, <2>4, <2>5 DEF PublishesFit
  <1> QED
    BY <1>2, <1>3

\* The rows of the batch stay as they are while it is worked on.
LEMMA BatchStays ==
  ASSUME PublisherInv, UNCHANGED batch,
         loop' = loop \/ {loop, loop'} \subseteq Working \ {"reserve"},
         \A e \in Events : outbox[e] # None =>
           /\ outbox'[e] # None
           /\ outbox'[e].attempts = outbox[e].attempts
           /\ outbox'[e].published = outbox[e].published
  PROVE  BatchFits'
  <1>1. \A i \in DOMAIN batch : batch[i].event \in Events
    BY ReadsAreTyped DEF PublisherInv
  <1>2. loop' \in Working <=> batch' # <<>>
    BY DEF PublisherInv, BatchFits
  <1>3. ASSUME NEW i \in DOMAIN batch
        PROVE  LET row == outbox'[batch[i].event] IN
               /\ row # None
               /\ ~row.published
               /\ row.attempts = IF i = 1 /\ loop' # "reserve"
                                 THEN batch[i].attempts + 1
                                 ELSE batch[i].attempts
    <2>1. PICK e \in Events : e = batch[i].event
      BY <1>1
    <2>2. /\ outbox[e] # None
          /\ ~outbox[e].published
          /\ outbox[e].attempts = IF i = 1 /\ loop # "reserve"
                                  THEN batch[i].attempts + 1
                                  ELSE batch[i].attempts
      BY <2>1 DEF PublisherInv, BatchFits
    <2>3. loop' # "reserve" <=> loop # "reserve"
      OBVIOUS
    <2> QED
      BY <2>1, <2>2, <2>3
  <1>4. \A i, j \in DOMAIN batch : batch[i].event = batch[j].event => i = j
    BY DEF PublisherInv, BatchFits
  <1> QED
    BY <1>2, <1>3, <1>4 DEF BatchFits

\* The next row of the batch is as it was read.
LEMMA NextRowFits ==
  ASSUME PublisherInv, loop \in Working, Outbox!NextRow,
         \A e \in Events : e # batch[1].event => outbox'[e] = outbox[e]
  PROVE  /\ loop' \in {"poll", "reserve"} /\ batch' \in Seq(Outbox!Read)
         /\ returned' = FALSE /\ reason' = None
         /\ BatchFits' /\ AcksAreTrue'
  <1>1. batch \in Seq(Outbox!Read) /\ batch # <<>> /\ batch' = Tail(batch)
    BY DEF PublisherInv, PublisherType, BatchFits, Outbox!NextRow
  <1>2. /\ loop' = IF batch' = <<>> THEN "poll" ELSE "reserve"
        /\ returned' = FALSE /\ reason' = None
    BY DEF Outbox!NextRow
  <1>3. /\ batch' \in Seq(Outbox!Read) /\ Len(batch) \in Nat \ {0}
        /\ DOMAIN batch = 1..Len(batch) /\ DOMAIN batch' = 1..(Len(batch) - 1)
        /\ \A i \in DOMAIN batch' : batch'[i] = batch[i + 1]
    BY <1>1, HeadTailProperties, LenProperties, EmptySeq
  <1>4. ASSUME NEW i \in DOMAIN batch'
        PROVE  LET row == outbox'[batch'[i].event] IN
               /\ row # None
               /\ ~row.published
               /\ row.attempts = batch'[i].attempts
    <2>1. /\ i + 1 \in DOMAIN batch /\ i + 1 # 1 /\ 1 \in DOMAIN batch
          /\ batch'[i] = batch[i + 1] /\ batch[i + 1] \in Outbox!Read
      BY <1>1, <1>3, ElementOfSeq
    <2>2. batch'[i].event # batch[1].event /\ batch'[i].event \in Events
      BY <2>1 DEF PublisherInv, BatchFits, Outbox!Read
    <2>3. outbox'[batch'[i].event] = outbox[batch[i + 1].event]
      BY <2>1, <2>2
    <2> QED
      BY <2>1, <2>3 DEF PublisherInv, BatchFits
  <1>5. \A i, j \in DOMAIN batch' : batch'[i].event = batch'[j].event => i = j
    BY <1>3 DEF PublisherInv, BatchFits
  <1>6. BatchFits'
    BY <1>2, <1>4, <1>5 DEF BatchFits, Working
  <1>7. AcksAreTrue'
    BY <1>2 DEF AcksAreTrue
  <1> QED
    BY <1>2, <1>3, <1>6, <1>7

\* What is marked stays routed.
LEMMA MarksStay ==
  ASSUME PublisherInv, Notes!IInv,
         \A m \in Messages : routed'[m] \in Nat /\ routed'[m] >= routed[m],
         \A e \in Events : Outbox!IsMarked(e)' =>
           Outbox!IsMarked(e) /\ outbox'[e].failure = outbox[e].failure
  PROVE  MarksFit'
  <1>1. ASSUME NEW e \in Events, Outbox!IsMarked(e)'
        PROVE  IsRouted(e)' /\ outbox'[e].failure = None
    BY <1>1, CountsAreNat DEF PublisherInv, MarksFit, IsRouted
  <1> QED
    BY <1>1 DEF MarksFit

\* An end of an attempt, whatever it does to the current row.
LEMMA AttemptEnds ==
  ASSUME PublisherInv, Notes!IInv, loop \in Working, Outbox!NextRow,
         outbox' \in [Events -> Outbox!OutboxRow \cup {None}], RowsStay,
         \A e \in Events : e # batch[1].event => outbox'[e] = outbox[e],
         channel' \in {"none", "open", "dead"},
         UNCHANGED <<wire, replies, orphans, routed>>
  PROVE  PublisherType' /\ BatchFits' /\ CopiesFit' /\ PublishesFit' /\ AcksAreTrue'
  <1>1. /\ loop' \in {"poll", "reserve"} /\ batch' \in Seq(Outbox!Read)
        /\ returned' = FALSE /\ reason' = None
        /\ BatchFits' /\ AcksAreTrue'
    BY NextRowFits
  <1>2. PublisherType'
    BY <1>1 DEF PublisherInv, PublisherType, Working
  <1>3. \A e \in Events :
          Tried(e) \in Nat /\ Tried(e)' \in Nat /\ Tried(e)' >= Tried(e)
    BY <1>1, <1>2, NoLessTried DEF PublisherInv
  <1> QED
    BY <1>1, <1>2, <1>3, TriesStay DEF PublisherInv

-----------------------------------------------------------------------------
(***************************************************************************)
(* The steps of the publisher.                                             *)
(***************************************************************************)

\* Rows come without an attempt, and their time comes.
LEMMA RowsKeepInv ==
  ASSUME PublisherInv, Notes!IInv,
         outbox' \in [Events -> Outbox!OutboxRow \cup {None}],
         \A e \in Events : outbox[e] = None /\ outbox'[e] # None =>
           ~outbox'[e].published,
         \A e \in Events : outbox[e] # None =>
           /\ outbox'[e] # None
           /\ outbox'[e].attempts = outbox[e].attempts
           /\ outbox'[e].published = outbox[e].published
           /\ outbox'[e].failure = outbox[e].failure,
         UNCHANGED <<loop, batch, returned, reason, channel, wire, replies,
                     orphans, routed>>
  PROVE  PublisherInv'
  <1>1. PublisherType'
    BY DEF PublisherInv, PublisherType
  <1>2. RowsStay
    BY DEF RowsStay, PublisherInv, PublisherType, Outbox!OutboxRow
  <1>3. BatchFits'
    BY BatchStays
  <1>4. CopiesFit' /\ PublishesFit'
    <2>1. \A e \in Events :
            Tried(e) \in Nat /\ Tried(e)' \in Nat /\ Tried(e)' >= Tried(e)
      BY <1>1, <1>2, NoLessTried DEF PublisherInv
    <2> QED
      BY <2>1, TriesStay DEF PublisherInv
  <1>5. AcksAreTrue'
    BY DEF PublisherInv, AcksAreTrue, IsRouted, Outbox!Attempt, Outbox!Current
  <1>6. MarksFit'
    <2>1. \A m \in Messages : routed'[m] \in Nat /\ routed'[m] >= routed[m]
      BY DEF Notes!IInv, Notes!TablesType
    <2>2. \A e \in Events : Outbox!IsMarked(e)' =>
            Outbox!IsMarked(e) /\ outbox'[e].failure = outbox[e].failure
      BY DEF Outbox!IsMarked, Outbox!Exists
    <2> QED
      BY <2>1, <2>2, MarksStay
  <1> QED
    BY <1>1, <1>3, <1>4, <1>5, <1>6 DEF PublisherInv

\* findDue reads pending rows as they are, each once.
LEMMA FindDueKeepsInv ==
  ASSUME PublisherInv, Notes!IInv, Outbox!FindDue
  PROVE  PublisherInv'
  <1>1. PICK n \in 1..BatchSize : \E first \in [1..n -> Outbox!Due] :
          /\ Outbox!AreTheOldest(first, n)
          /\ batch' = [i \in 1..n |-> [event |-> first[i],
                                      attempts |-> outbox[first[i]].attempts]]
    BY DEF Outbox!FindDue
  <1>2. PICK first \in [1..n -> Outbox!Due] :
          /\ Outbox!AreTheOldest(first, n)
          /\ batch' = [i \in 1..n |-> [event |-> first[i],
                                      attempts |-> outbox[first[i]].attempts]]
    BY <1>1
  <1>3. /\ loop = "poll" /\ loop' = "reserve" /\ n \in Nat \ {0}
        /\ UNCHANGED <<outbox, returned, reason, channel, wire, replies, orphans,
                       queue, routed>>
    BY DeliveryAssumption
       DEF Outbox!FindDue, Outbox!connection, Outbox!broker,
           Outbox!OutboxAssumption
  <1>4. ASSUME NEW i \in 1..n
        PROVE  /\ first[i] \in Events /\ outbox[first[i]] \in Outbox!OutboxRow
               /\ outbox[first[i]] # None /\ ~outbox[first[i]].published
    BY DEF Outbox!Due, Outbox!IsDue, PublisherInv, PublisherType
  <1>5. \A i, j \in 1..n : first[i] = first[j] => i = j
    <2> SUFFICES ASSUME NEW i \in 1..n, NEW j \in 1..n, first[i] = first[j]
                 PROVE  i = j
      OBVIOUS
    <2>1. Rank[first[i]] \in Nat /\ Rank[first[j]] = Rank[first[i]]
      BY <1>4, DeliveryAssumption DEF Outbox!OutboxAssumption
    <2>2. ~(i < j) /\ ~(j < i)
      BY <1>2, <2>1 DEF Outbox!AreTheOldest
    <2> QED
      BY <2>2
  <1>6. batch' \in Seq(Outbox!Read) /\ DOMAIN batch' = 1..n /\ batch' # <<>>
    <2>1. ASSUME NEW i \in 1..n
          PROVE  [event |-> first[i], attempts |-> outbox[first[i]].attempts]
                   \in Outbox!Read
      BY <1>4 DEF Outbox!Read, Outbox!OutboxRow
    <2>2. batch' \in [1..n -> Outbox!Read]
      BY <1>2, <2>1
    <2> QED
      BY <1>3, <2>2
  <1>7. PublisherType'
    BY <1>3, <1>6 DEF PublisherInv, PublisherType, Working
  <1>8. BatchFits'
    <2>1. ASSUME NEW i \in 1..n
          PROVE  LET row == outbox'[batch'[i].event] IN
                 /\ row # None
                 /\ ~row.published
                 /\ row.attempts = batch'[i].attempts
      BY <1>2, <1>3, <1>4
    <2>2. \A i, j \in 1..n : batch'[i].event = batch'[j].event => i = j
      BY <1>2, <1>5
    <2> QED
      BY <1>3, <1>6, <2>1, <2>2 DEF BatchFits, Working
  <1>9. CopiesFit' /\ PublishesFit'
    <2>1. RowsStay
      BY <1>3 DEF RowsStay, PublisherInv, PublisherType, Outbox!OutboxRow
    <2>2. \A e \in Events :
            Tried(e) \in Nat /\ Tried(e)' \in Nat /\ Tried(e)' >= Tried(e)
      BY <1>3, <1>7, <2>1, NoLessTried DEF PublisherInv
    <2> QED
      BY <1>3, <2>2, TriesStay DEF PublisherInv
  <1>10. AcksAreTrue'
    BY <1>3 DEF AcksAreTrue
  <1>11. MarksFit'
    BY <1>3 DEF PublisherInv, MarksFit, IsRouted, Outbox!IsMarked, Outbox!Exists
  <1> QED
    BY <1>7, <1>8, <1>9, <1>10, <1>11 DEF PublisherInv

\* A row of which only an attempt is counted.
LEMMA MarksOfCounting ==
  ASSUME PublisherInv, Notes!IInv, UNCHANGED routed,
         \A e \in Events : outbox'[e] # None =>
           /\ outbox[e] # None
           /\ outbox'[e].published = outbox[e].published
           /\ outbox'[e].published => outbox'[e].failure = outbox[e].failure
  PROVE  MarksFit'
  <1>1. \A m \in Messages : routed'[m] \in Nat /\ routed'[m] >= routed[m]
    BY DEF Notes!IInv, Notes!TablesType
  <1>2. \A e \in Events : Outbox!IsMarked(e)' =>
          Outbox!IsMarked(e) /\ outbox'[e].failure = outbox[e].failure
    BY DEF Outbox!IsMarked, Outbox!Exists
  <1> QED
    BY <1>1, <1>2, MarksStay

\* reserveAttempt counts an attempt before it is made.
LEMMA ReserveAttemptKeepsInv ==
  ASSUME PublisherInv, Notes!IInv, Outbox!ReserveAttempt
  PROVE  PublisherInv'
  <1> DEFINE e == batch[1].event
             n == batch[1].attempts + 1
             reserved == [outbox EXCEPT ![e].attempts = n, ![e].due = FALSE]
  <1>1. /\ loop = "reserve" /\ e \in Events /\ batch[1].attempts \in Nat
        /\ Outbox!Current = batch[1]
        /\ outbox[e] \in Outbox!OutboxRow /\ ~outbox[e].published
        /\ outbox[e].attempts = batch[1].attempts
        /\ outbox[e] # None
    <2>1. loop = "reserve"
      BY DEF Outbox!ReserveAttempt
    <2>2. outbox[e] # None
      BY <2>1, TheCurrentRow DEF PublisherInv, BatchFits, Working
    <2> QED
      BY <2>1, <2>2, TheCurrentRow DEF PublisherInv, Working
  <1>2. UNCHANGED <<channel, wire, replies, orphans, queue, routed>>
    BY DEF Outbox!ReserveAttempt, Outbox!connection, Outbox!broker
  <1>3. /\ outbox' \in {outbox, reserved}
        /\ \/ /\ outbox' = reserved /\ loop' = "publish"
              /\ UNCHANGED <<batch, returned, reason>>
           \/ Outbox!NextRow
    BY <1>1 DEF Outbox!ReserveAttempt, Outbox!Attempt
  <1>4. /\ reserved \in [Events -> Outbox!OutboxRow \cup {None}]
        /\ \A f \in Events \ {e} : reserved[f] = outbox[f]
        /\ reserved[e] \in Outbox!OutboxRow /\ reserved[e] # None
        /\ reserved[e].attempts = n
        /\ reserved[e].published = outbox[e].published
        /\ reserved[e].failure = outbox[e].failure
    <2>1. outbox \in [Events -> Outbox!OutboxRow \cup {None}] /\ n \in Nat
      BY <1>1 DEF PublisherInv, PublisherType
    <2>2. /\ reserved[e] = [outbox[e] EXCEPT !.attempts = n, !.due = FALSE]
          /\ \A f \in Events \ {e} : reserved[f] = outbox[f]
          /\ DOMAIN reserved = Events
      BY <1>1, <2>1
    <2>3. reserved[e] = [attempts |-> n, due |-> FALSE,
                         published |-> outbox[e].published,
                         failure |-> outbox[e].failure]
      BY <1>1, <2>2 DEF Outbox!OutboxRow
    <2>4. reserved[e] \in Outbox!OutboxRow
      BY <1>1, <2>1, <2>3 DEF Outbox!OutboxRow
    <2>5. reserved[e] # None
      BY <2>4, DeliveryAssumption DEF Outbox!OutboxAssumption
    <2>6. reserved \in [Events -> Outbox!OutboxRow \cup {None}]
      BY <2>1, <2>2, <2>4
    <2>7. /\ reserved[e].attempts = n
          /\ reserved[e].published = outbox[e].published
          /\ reserved[e].failure = outbox[e].failure
      <3> HIDE DEF reserved
      <3> QED BY <2>3
    <2> HIDE DEF reserved, e, n
    <2> QED
      BY <2>2, <2>4, <2>5, <2>6, <2>7
  <1> HIDE DEF reserved
  <1>5. outbox' \in [Events -> Outbox!OutboxRow \cup {None}]
    BY <1>3, <1>4 DEF PublisherInv, PublisherType
  <1>6. RowsStay
    <2>1. ASSUME NEW f \in Events, outbox[f] # None
          PROVE  outbox'[f] # None /\ outbox'[f].attempts >= outbox[f].attempts
      <3>1. outbox[f] \in Outbox!OutboxRow /\ outbox[f].attempts \in Nat
        BY <2>1 DEF PublisherInv, PublisherType, Outbox!OutboxRow
      <3>2. CASE f = e
        BY <1>1, <1>3, <1>4, <3>1, <3>2
      <3>3. CASE f # e
        BY <1>3, <1>4, <2>1, <3>1, <3>3
      <3> QED
        BY <3>2, <3>3
    <2> QED
      BY <2>1 DEF RowsStay
  <1>7. MarksFit'
    <2>1. \A f \in Events : outbox'[f] # None =>
            /\ outbox[f] # None
            /\ outbox'[f].published = outbox[f].published
            /\ outbox'[f].published => outbox'[f].failure = outbox[f].failure
      BY <1>1, <1>3, <1>4
    <2> QED
      BY <1>2, <2>1, MarksOfCounting
  <1>8. CASE Outbox!NextRow
    <2>1. /\ PublisherType' /\ BatchFits' /\ CopiesFit' /\ PublishesFit'
          /\ AcksAreTrue'
      BY <1>1, <1>2, <1>3, <1>4, <1>5, <1>6, <1>8, AttemptEnds
         DEF Working, PublisherInv, PublisherType
    <2> QED
      BY <1>7, <2>1 DEF PublisherInv
  <1>9. CASE /\ outbox' = reserved /\ loop' = "publish"
             /\ UNCHANGED <<batch, returned, reason>>
    <2>1. PublisherType'
      BY <1>2, <1>5, <1>9 DEF PublisherInv, PublisherType, Working
    <2>2. BatchFits'
      <3>1. ASSUME NEW i \in DOMAIN batch
            PROVE  LET row == outbox'[batch[i].event] IN
                   /\ row # None
                   /\ ~row.published
                   /\ row.attempts = IF i = 1 THEN batch[i].attempts + 1
                                              ELSE batch[i].attempts
        <4>1. CASE i = 1
          BY <1>1, <1>4, <1>9, <4>1
        <4>2. CASE i # 1
          <5>1. 1 \in DOMAIN batch
            BY <1>1, TheCurrentRow DEF PublisherInv, Working
          <5>2. PICK f \in Events \ {e} : f = batch[i].event
            BY <4>2, <5>1, ReadsAreTyped DEF PublisherInv, BatchFits
          <5>3. /\ outbox[f] # None /\ ~outbox[f].published
                /\ outbox[f].attempts = batch[i].attempts
            BY <4>2, <5>2 DEF PublisherInv, BatchFits
          <5>4. outbox'[f] = outbox[f]
            BY <1>4, <1>9, <5>2
          <5> QED
            BY <4>2, <5>2, <5>3, <5>4
        <4> QED
          BY <4>1, <4>2
      <3>2. batch # <<>>
        BY <1>1 DEF PublisherInv, BatchFits, Working
      <3> QED
        BY <1>9, <3>1, <3>2 DEF PublisherInv, BatchFits, Working
    <2>3. ASSUME NEW f \in Events
          PROVE  Tried(f) \in Nat /\ Tried(f)' \in Nat /\ Tried(f)' >= Tried(f)
      <3>1. Tried(f) \in Nat
        BY TriedIsReserved DEF PublisherInv
      <3>2. Outbox!Current' = batch[1]
        BY <1>1, <1>9 DEF Outbox!Current
      <3>3. CASE f = e
        <4>1. Tried(f)' = batch[1].attempts /\ Tried(f) = outbox[e].attempts
          BY <1>1, <1>4, <1>9, <3>2, <3>3 DEF Tried
        <4> QED
          BY <1>1, <4>1
      <3>4. CASE f # e
        <4>1. Tried(f)' = Tried(f)
          BY <1>1, <1>4, <1>9, <3>2, <3>4 DEF Tried
        <4> QED
          BY <3>1, <4>1
      <3> QED
        BY <3>3, <3>4
    <2>4. CopiesFit' /\ PublishesFit'
      BY <1>2, <2>3, TriesStay DEF PublisherInv
    <2>5. AcksAreTrue'
      BY <1>9 DEF AcksAreTrue
    <2> QED
      BY <1>7, <2>1, <2>2, <2>4, <2>5 DEF PublisherInv
  <1> QED
    BY <1>3, <1>8, <1>9

\* An attempt that comes to nothing leaves the rows alone.
LEMMA AttemptFailsKeepsInv ==
  ASSUME PublisherInv, Notes!IInv, Outbox!ConnectFails \/ Outbox!SendOnDeadChannel
  PROVE  PublisherInv'
  <1>1. /\ loop = "publish" /\ Outbox!NextRow /\ channel' \in {"none", "open", "dead"}
        /\ UNCHANGED <<outbox, wire, replies, orphans, queue, routed>>
    BY DEF Outbox!ConnectFails, Outbox!SendOnDeadChannel, Outbox!connection,
           Outbox!broker, PublisherInv, PublisherType
  <1>2. RowsStay
    BY <1>1 DEF RowsStay, PublisherInv, PublisherType, Outbox!OutboxRow
  <1>3. /\ PublisherType' /\ BatchFits' /\ CopiesFit' /\ PublishesFit'
        /\ AcksAreTrue'
    BY <1>1, <1>2, AttemptEnds DEF Working, PublisherInv, PublisherType
  <1>4. MarksFit'
    BY <1>1, MarksOfCounting
  <1> QED
    BY <1>3, <1>4 DEF PublisherInv

\* recordFailure is about a row that is not marked.
LEMMA RecordFailureKeepsInv ==
  ASSUME PublisherInv, Notes!IInv, Outbox!RecordFailure
  PROVE  PublisherInv'
  <1> DEFINE e == batch[1].event
  <1>1. /\ loop = "fail" /\ Outbox!NextRow
        /\ UNCHANGED <<channel, wire, replies, orphans, queue, routed>>
    BY DEF Outbox!RecordFailure, Outbox!connection, Outbox!broker
  <1>2. /\ e \in Events /\ Outbox!Current = batch[1]
        /\ outbox[e] \in Outbox!OutboxRow /\ ~outbox[e].published
    BY <1>1, TheCurrentRow DEF PublisherInv, Working
  <1>3. outbox[e] # None
    BY <1>2, DeliveryAssumption DEF Outbox!OutboxAssumption
  <1>4. outbox' \in {outbox, [outbox EXCEPT ![e].failure = reason]}
    BY <1>2 DEF Outbox!RecordFailure
  <1>5. /\ outbox' \in [Events -> Outbox!OutboxRow \cup {None}]
        /\ \A f \in Events \ {e} : outbox'[f] = outbox[f]
        /\ outbox'[e] # None /\ outbox'[e].attempts = outbox[e].attempts
        /\ outbox'[e].published = outbox[e].published
    <2>1. outbox \in [Events -> Outbox!OutboxRow \cup {None}]
      BY DEF PublisherInv, PublisherType
    <2>2. PICK row \in Outbox!OutboxRow :
            row = [attempts |-> outbox[e].attempts, due |-> outbox[e].due,
                   published |-> outbox[e].published, failure |-> reason]
      BY <1>2 DEF Outbox!OutboxRow, PublisherInv, PublisherType
    <2>3. row # None
      BY DeliveryAssumption DEF Outbox!OutboxAssumption
    <2>4. [outbox[e] EXCEPT !.failure = reason] = row
      BY <1>2, <2>2 DEF Outbox!OutboxRow
    <2>5. outbox' = outbox \/ outbox' = [outbox EXCEPT ![e] = row]
      BY <1>4, <2>4
    <2> QED
      BY <1>2, <1>3, <2>1, <2>2, <2>3, <2>5
  <1>6. RowsStay
    BY <1>5 DEF RowsStay, PublisherInv, PublisherType, Outbox!OutboxRow
  <1>7. /\ PublisherType' /\ BatchFits' /\ CopiesFit' /\ PublishesFit'
        /\ AcksAreTrue'
    BY <1>1, <1>5, <1>6, AttemptEnds DEF Working, PublisherInv, PublisherType
  <1>8. MarksFit'
    <2>1. \A f \in Events : outbox'[f] # None =>
            /\ outbox[f] # None
            /\ outbox'[f].published = outbox[f].published
            /\ outbox'[f].published => outbox'[f].failure = outbox[f].failure
      BY <1>2, <1>3, <1>5
    <2> QED
      BY <1>1, <2>1, MarksOfCounting
  <1> QED
    BY <1>7, <1>8 DEF PublisherInv

\* A row with its mark.
LEMMA RowMarked ==
  ASSUME NEW x \in Outbox!OutboxRow
  PROVE  [x EXCEPT !.published = TRUE, !.failure = None] =
           [attempts |-> x.attempts, due |-> x.due, published |-> TRUE,
            failure |-> None]
  <1> DEFINE y == [x EXCEPT !.published = TRUE]
             z == [y EXCEPT !.failure = None]
  <1>1. /\ y.attempts = x.attempts /\ y.due = x.due
        /\ y.published = TRUE /\ y.failure = x.failure
    BY DEF Outbox!OutboxRow
  <1>2. y \in Outbox!OutboxRow
    BY DEF Outbox!OutboxRow
  <1> HIDE DEF y
  <1>3. /\ z.attempts = y.attempts /\ z.due = y.due
        /\ z.published = y.published /\ z.failure = None
    BY <1>2 DEF Outbox!OutboxRow
  <1>4. z \in Outbox!OutboxRow
    BY <1>2 DEF Outbox!OutboxRow
  <1> HIDE DEF z
  <1>5. z = [attempts |-> z.attempts, due |-> z.due, published |-> z.published,
             failure |-> z.failure]
    BY <1>4 DEF Outbox!OutboxRow
  <1>6. z = [attempts |-> x.attempts, due |-> x.due, published |-> TRUE,
             failure |-> None]
    BY <1>1, <1>3, <1>5
  <1> QED
    BY <1>6 DEF y, z

\* markPublished comes after an acknowledgement of a copy in the queue.
LEMMA MarkPublishedKeepsInv ==
  ASSUME PublisherInv, Notes!IInv, Outbox!MarkPublished
  PROVE  PublisherInv'
  <1> DEFINE e == batch[1].event
  <1>1. /\ loop = "mark" /\ Outbox!NextRow
        /\ UNCHANGED <<channel, wire, replies, orphans, queue, routed>>
    BY DEF Outbox!MarkPublished, Outbox!connection, Outbox!broker
  <1>2. /\ e \in Events /\ Outbox!Current = batch[1]
        /\ outbox[e] \in Outbox!OutboxRow /\ ~outbox[e].published
    BY <1>1, TheCurrentRow DEF PublisherInv, Working
  <1>3. outbox[e] # None
    BY <1>2, DeliveryAssumption DEF Outbox!OutboxAssumption
  <1>4. outbox' = outbox
        \/ outbox' = [outbox EXCEPT ![e].published = TRUE, ![e].failure = None]
    BY <1>2 DEF Outbox!MarkPublished
  <1>5. /\ outbox' \in [Events -> Outbox!OutboxRow \cup {None}]
        /\ \A f \in Events \ {e} : outbox'[f] = outbox[f]
        /\ outbox'[e] # None /\ outbox'[e].attempts = outbox[e].attempts
        /\ outbox'[e].published => outbox'[e].failure = None
    <2>1. outbox \in [Events -> Outbox!OutboxRow \cup {None}]
      BY DEF PublisherInv, PublisherType
    <2>2. PICK row \in Outbox!OutboxRow :
            row = [attempts |-> outbox[e].attempts, due |-> outbox[e].due,
                   published |-> TRUE, failure |-> None]
      BY <1>2 DEF Outbox!OutboxRow
    <2>3. row # None
      BY DeliveryAssumption DEF Outbox!OutboxAssumption
    <2>4. [outbox[e] EXCEPT !.published = TRUE, !.failure = None] = row
      BY <1>2, <2>2, RowMarked
    <2>5. outbox' = outbox \/ outbox' = [outbox EXCEPT ![e] = row]
      BY <1>4, <2>4
    <2> QED
      BY <1>2, <1>3, <2>1, <2>2, <2>3, <2>5
  <1>6. RowsStay
    BY <1>5 DEF RowsStay, PublisherInv, PublisherType, Outbox!OutboxRow
  <1>7. /\ PublisherType' /\ BatchFits' /\ CopiesFit' /\ PublishesFit'
        /\ AcksAreTrue'
    BY <1>1, <1>5, <1>6, AttemptEnds DEF Working, PublisherInv, PublisherType
  <1>8. MarksFit'
    <2> SUFFICES ASSUME NEW f \in Events, Outbox!IsMarked(f)'
                 PROVE  IsRouted(f)' /\ outbox'[f].failure = None
      BY DEF MarksFit
    <2>1. CASE f = e
      <3>1. IsRouted(e)
        BY <1>1, <1>2 DEF PublisherInv, AcksAreTrue
      <3> QED
        BY <1>1, <1>5, <2>1, <3>1 DEF IsRouted, Outbox!IsMarked
    <2>2. CASE f # e
      BY <1>1, <1>5, <2>2
         DEF IsRouted, Outbox!IsMarked, Outbox!Exists, PublisherInv, MarksFit
    <2> QED
      BY <2>1, <2>2
  <1> QED
    BY <1>7, <1>8 DEF PublisherInv

\* A confirmation that is awaited no longer is a failure.
LEMMA ConfirmTimeoutKeepsInv ==
  ASSUME PublisherInv, Notes!IInv, Outbox!ConfirmTimeout
  PROVE  PublisherInv'
  <1>1. /\ loop = "await" /\ loop' = "fail" /\ reason' \in Outbox!Reasons
        /\ UNCHANGED <<outbox, batch, returned, channel, wire, replies, orphans,
                       queue, routed>>
    BY DEF Outbox!ConfirmTimeout, Outbox!Fail, Outbox!connection, Outbox!broker,
           Outbox!Reasons
  <1>2. PublisherType'
    BY <1>1 DEF PublisherInv, PublisherType, Working
  <1>3. BatchFits'
    BY <1>1, BatchStays DEF Working
  <1>4. RowsStay
    BY <1>1 DEF RowsStay, PublisherInv, PublisherType, Outbox!OutboxRow
  <1>5. \A e \in Events :
          Tried(e) \in Nat /\ Tried(e)' \in Nat /\ Tried(e)' >= Tried(e)
    BY <1>1, <1>2, <1>4, NoLessTried DEF PublisherInv
  <1>6. CopiesFit' /\ PublishesFit'
    BY <1>1, <1>5, TriesStay DEF PublisherInv
  <1>7. AcksAreTrue'
    BY <1>1 DEF AcksAreTrue
  <1>8. MarksFit'
    BY <1>1, MarksOfCounting
  <1> QED
    BY <1>2, <1>3, <1>6, <1>7, <1>8 DEF PublisherInv

\* The process is up again, with nothing in hand.
LEMMA RestartKeepsInv ==
  ASSUME PublisherInv, Notes!IInv, Outbox!Restart
  PROVE  PublisherInv'
  <1>1. /\ loop = "down" /\ loop' = "poll"
        /\ UNCHANGED <<outbox, batch, returned, reason, channel, wire, replies,
                       orphans, queue, routed>>
    BY DEF Outbox!Restart, Outbox!connection, Outbox!broker
  <1>2. PublisherType'
    BY <1>1 DEF PublisherInv, PublisherType, Working
  <1>3. BatchFits'
    BY <1>1 DEF PublisherInv, BatchFits, Working
  <1>4. RowsStay
    BY <1>1 DEF RowsStay, PublisherInv, PublisherType, Outbox!OutboxRow
  <1>5. \A e \in Events :
          Tried(e) \in Nat /\ Tried(e)' \in Nat /\ Tried(e)' >= Tried(e)
    BY <1>1, <1>2, <1>4, NoLessTried DEF PublisherInv
  <1>6. CopiesFit' /\ PublishesFit'
    BY <1>1, <1>5, TriesStay DEF PublisherInv
  <1>7. AcksAreTrue'
    BY <1>1 DEF AcksAreTrue
  <1>8. MarksFit'
    BY <1>1, MarksOfCounting
  <1> QED
    BY <1>2, <1>3, <1>6, <1>7, <1>8 DEF PublisherInv

\* What was tried stays so while no publish is prepared anew.
LEMMA TriesGrow ==
  ASSUME PublisherInv, PublisherType', UNCHANGED outbox,
         loop' # "publish" \/ UNCHANGED <<loop, batch>>
  PROVE  \A e \in Events :
           Tried(e) \in Nat /\ Tried(e)' \in Nat /\ Tried(e)' >= Tried(e)
  <1>1. RowsStay
    BY DEF RowsStay, PublisherInv, PublisherType, Outbox!OutboxRow
  <1> QED
    BY <1>1, NoLessTried DEF PublisherInv

\* Publishes that were tried are what the next state has.
LEMMA PublishesStay ==
  ASSUME \A e \in Events :
           Tried(e) \in Nat /\ Tried(e)' \in Nat /\ Tried(e)' >= Tried(e),
         \A i \in DOMAIN wire' : wire'[i] \in Outbox!Publish /\ IsTried(wire'[i]),
         \A i \in DOMAIN replies' :
           replies'[i].to \in Outbox!Publish /\ IsTried(replies'[i].to),
         \A o \in orphans' : o \in Outbox!Publish /\ IsTried(o)
  PROVE  PublishesFit'
  <1>1. \A p \in Outbox!Publish : IsTried(p) => IsTried(p)'
    BY DEF Outbox!Publish, IsTried
  <1> QED
    BY <1>1 DEF PublishesFit

\* An attempt is a publish of the current row's event.
LEMMA AttemptIsAPublish ==
  ASSUME PublisherInv, loop \in Working
  PROVE  /\ Outbox!Attempt \in Outbox!Publish
         /\ Outbox!Attempt.event = Outbox!Current.event
         /\ Outbox!Attempt.attempt = Outbox!Current.attempts + 1
  <1>1. /\ Outbox!Current.event \in Events /\ Outbox!Current.attempts \in Nat
    BY TheCurrentRow DEF PublisherInv
  <1>2. Outbox!Current.attempts + 1 \in Nat \ {0}
    BY <1>1
  <1> QED
    BY <1>1, <1>2 DEF Outbox!Attempt, Outbox!Publish

\* A publish is sent for an attempt that is reserved, for the first time.
LEMMA SendKeepsInv ==
  ASSUME PublisherInv, Notes!IInv, Outbox!Send
  PROVE  PublisherInv'
  <1> DEFINE e == batch[1].event
             n == batch[1].attempts
  <1>1. /\ loop = "publish" /\ loop' = "await" /\ channel' = "open"
        /\ wire' = Append(wire, Outbox!Attempt) /\ returned' = FALSE
        /\ UNCHANGED <<outbox, batch, reason, replies, orphans, queue, routed>>
    BY DEF Outbox!Send, Outbox!broker
  <1>2. /\ e \in Events /\ n \in Nat /\ Outbox!Current = batch[1]
        /\ outbox[e] \in Outbox!OutboxRow
        /\ outbox[e].attempts = n + 1 /\ outbox[e] # None
    <2>1. outbox[e] # None
      BY <1>1, TheCurrentRow DEF PublisherInv, BatchFits, Working
    <2> QED
      BY <1>1, <2>1, TheCurrentRow DEF PublisherInv, Working
  <1>3. PICK a \in Outbox!Publish :
          /\ a = Outbox!Attempt /\ a.event = e /\ a.attempt = n + 1
    BY <1>1, <1>2, AttemptIsAPublish DEF Working
  <1>4. wire \in Seq(Outbox!Publish) /\ wire' = Append(wire, a)
    BY <1>1, <1>3 DEF PublisherInv, PublisherType
  <1>5. PublisherType'
    <2>1. wire' \in Seq(Outbox!Publish)
      BY <1>4, AppendProperties
    <2> QED
      BY <1>1, <2>1 DEF PublisherInv, PublisherType, Working
  <1>6. BatchFits'
    BY <1>1, BatchStays DEF Working
  <1>7. Tried(e) = n /\ Tried(e)' = n + 1
    BY <1>1, <1>2 DEF Tried
  <1>8. \A f \in Events \ {e} : Tried(f)' = Tried(f)
    BY <1>1, <1>2 DEF Tried
  <1>9. \A f \in Events :
          Tried(f) \in Nat /\ Tried(f)' \in Nat /\ Tried(f)' >= Tried(f)
    BY <1>1, <1>5, TriesGrow
  <1>10. CopiesFit'
    <2> SUFFICES ASSUME NEW f \in Events
                 PROVE  routed'[Envelope[f]] + Cardinality(Places(wire', f))
                          + Cardinality(Orphaned(f)') <= Tried(f)'
      BY DEF CopiesFit
    <2>1. /\ Cardinality(Places(wire, f)) \in Nat
          /\ Cardinality(Orphaned(f)) \in Nat
          /\ routed[Envelope[f]] \in Nat
      BY CountsAreNat DEF PublisherInv
    <2>2. Orphaned(f)' = Orphaned(f) /\ routed' = routed
      BY <1>1 DEF Orphaned
    <2>3. Cardinality(Places(wire', f)) =
            IF f = e THEN Cardinality(Places(wire, f)) + 1
                     ELSE Cardinality(Places(wire, f))
      BY <1>3, <1>4, PlacesOfAppend
    <2>4. routed[Envelope[f]] + Cardinality(Places(wire, f))
            + Cardinality(Orphaned(f)) <= Tried(f)
      BY DEF PublisherInv, CopiesFit
    <2>5. CASE f = e
      <3>1. /\ Cardinality(Places(wire', f)) = Cardinality(Places(wire, f)) + 1
            /\ Tried(f) = n /\ Tried(f)' = n + 1 /\ n \in Nat
        <4>1. Tried(f) = n /\ Tried(f)' = n + 1
          BY <1>1, <1>2, <2>5 DEF Tried
        <4> QED
          BY <1>2, <2>3, <2>5, <4>1
      <3>2. routed[Envelope[f]] + (Cardinality(Places(wire, f)) + 1)
              + Cardinality(Orphaned(f)) <= n + 1
        BY <2>1, <2>4, <3>1
      <3> QED
        BY <2>2, <3>1, <3>2
    <2>6. CASE f # e
      BY <1>8, <1>9, <2>1, <2>2, <2>3, <2>4, <2>6
    <2> QED
      BY <2>5, <2>6
  <1>11. PublishesFit'
    <2>1. /\ \A i \in DOMAIN wire : wire[i] \in Outbox!Publish
          /\ \A i \in DOMAIN replies : replies[i].to \in Outbox!Publish
      BY PublishesAreTyped DEF PublisherInv
    <2>2. \A p \in Outbox!Publish : IsTried(p) => IsTried(p)'
      BY <1>9 DEF Outbox!Publish, IsTried
    <2>3. IsTried(a)'
      <3>1. Tried(a.event)' = n + 1
        BY <1>1, <1>2, <1>3 DEF Tried
      <3> QED
        BY <1>2, <1>3, <3>1 DEF IsTried
    <2>4. \A i \in DOMAIN wire' :
            \/ i \in DOMAIN wire /\ wire'[i] = wire[i]
            \/ wire'[i] = a
      BY <1>4, AppendProperties, LenProperties
    <2>5. \A i \in DOMAIN wire' : IsTried(wire[i])'
      BY <2>1, <2>2, <2>3, <2>4 DEF PublisherInv, PublishesFit
    <2>6. \A i \in DOMAIN replies' : IsTried(replies[i].to)'
      BY <1>1, <2>1, <2>2 DEF PublisherInv, PublishesFit
    <2>7. \A o \in orphans' : IsTried(o)'
      BY <1>1, <2>2 DEF PublisherInv, PublisherType, PublishesFit
    <2> QED
      BY <2>5, <2>6, <2>7 DEF PublishesFit
  <1>12. AcksAreTrue'
    <2>1. Outbox!Attempt' = a
      BY <1>1, <1>3 DEF Outbox!Attempt, Outbox!Current
    <2>2. \A i \in DOMAIN replies : replies[i].to # a
      BY <1>2, <1>3, <1>7 DEF PublisherInv, PublishesFit, IsTried
    <2> QED
      BY <1>1, <2>1, <2>2 DEF AcksAreTrue
  <1>13. MarksFit'
    BY <1>1, MarksOfCounting
  <1> QED
    BY <1>5, <1>6, <1>10, <1>11, <1>12, <1>13 DEF PublisherInv

\* The answers left when the first is taken.
LEMMA RepliesLeft ==
  ASSUME PublisherInv, replies # <<>>, replies' = Tail(replies)
  PROVE  /\ replies' \in Seq(Outbox!Reply)
         /\ Head(replies) = replies[1] /\ 1 \in DOMAIN replies
         /\ replies[1] \in Outbox!Reply
         /\ \A i \in DOMAIN replies' :
              i \in Nat \ {0} /\ i + 1 \in DOMAIN replies /\ replies'[i] = replies[i + 1]
         /\ \A i \in DOMAIN replies' : \A j \in 2..i :
              j - 1 \in 1..(i - 1) /\ replies'[j - 1] = replies[j]
  <1>1. replies \in Seq(Outbox!Reply)
    BY DEF PublisherInv, PublisherType
  <1>2. /\ Len(replies) \in Nat \ {0} /\ DOMAIN replies = 1..Len(replies)
        /\ replies' \in Seq(Outbox!Reply)
        /\ DOMAIN replies' = 1..(Len(replies) - 1)
        /\ \A i \in 1..(Len(replies) - 1) : replies'[i] = replies[i + 1]
    BY <1>1, EmptySeq, HeadTailProperties, LenProperties
  <1>3. Head(replies) = replies[1] /\ 1 \in DOMAIN replies
    BY <1>2
  <1>4. replies[1] \in Outbox!Reply
    BY <1>1, <1>2, <1>3, ElementOfSeq
  <1>5. \A i \in DOMAIN replies' : \A j \in 2..i :
          j - 1 \in 1..(i - 1) /\ replies'[j - 1] = replies[j]
    <2> SUFFICES ASSUME NEW i \in DOMAIN replies', NEW j \in 2..i
                 PROVE  j - 1 \in 1..(i - 1) /\ replies'[j - 1] = replies[j]
      OBVIOUS
    <2>1. i \in 1..(Len(replies) - 1)
      BY <1>2
    <2>2. j - 1 \in 1..(Len(replies) - 1) /\ (j - 1) + 1 = j /\ j - 1 \in 1..(i - 1)
      BY <1>2, <2>1
    <2> QED
      BY <1>2, <2>2
  <1> QED
    BY <1>2, <1>3, <1>4, <1>5

\* What is counted of publishes does not depend on answers.
LEMMA RepliesTaken ==
  ASSUME PublisherInv, Notes!IInv, PublisherType',
         replies # <<>>, replies' = Tail(replies),
         loop' = loop \/ loop' # "publish",
         UNCHANGED <<outbox, batch, wire, orphans, routed>>
  PROVE  CopiesFit' /\ PublishesFit'
  <1>1. \A e \in Events :
          Tried(e) \in Nat /\ Tried(e)' \in Nat /\ Tried(e)' >= Tried(e)
    BY TriesGrow
  <1>2. CopiesFit'
    <2> SUFFICES ASSUME NEW e \in Events
                 PROVE  routed'[Envelope[e]] + Cardinality(Places(wire', e))
                          + Cardinality(Orphaned(e)') <= Tried(e)'
      BY DEF CopiesFit
    <2>1. /\ Cardinality(Places(wire, e)) \in Nat
          /\ Cardinality(Orphaned(e)) \in Nat
          /\ routed[Envelope[e]] \in Nat
      BY CountsAreNat DEF PublisherInv
    <2>2. Orphaned(e)' = Orphaned(e)
      BY DEF Orphaned
    <2>3. routed[Envelope[e]] + Cardinality(Places(wire, e))
            + Cardinality(Orphaned(e)) <= Tried(e)
      BY DEF PublisherInv, CopiesFit
    <2> QED
      BY <1>1, <2>1, <2>2, <2>3
  <1>3. PublishesFit'
    <2>1. \A i \in DOMAIN wire' : wire'[i] \in Outbox!Publish /\ IsTried(wire'[i])
      BY PublishesAreTyped DEF PublisherInv, PublishesFit
    <2>2. \A i \in DOMAIN replies' :
            replies'[i].to \in Outbox!Publish /\ IsTried(replies'[i].to)
      BY RepliesLeft, PublishesAreTyped DEF PublisherInv, PublishesFit
    <2>3. \A o \in orphans' : o \in Outbox!Publish /\ IsTried(o)
      BY DEF PublisherInv, PublisherType, PublishesFit
    <2> QED
      BY <1>1, <2>1, <2>2, <2>3, PublishesStay
  <1> QED
    BY <1>2, <1>3

\* A return is remembered until the acknowledgement that follows it.
LEMMA OnReturnKeepsInv ==
  ASSUME PublisherInv, Notes!IInv, Outbox!OnReturn
  PROVE  PublisherInv'
  <1>1. /\ replies # <<>> /\ Head(replies).is = "return" /\ replies' = Tail(replies)
        /\ returned' = (returned \/ /\ loop = "await"
                                    /\ Head(replies).to.event = Outbox!Current.event)
        /\ UNCHANGED <<outbox, loop, batch, reason, channel, wire, orphans, queue,
                       routed>>
    BY DEF Outbox!OnReturn, Outbox!broker
  <1>2. PublisherType'
    BY <1>1, RepliesLeft DEF PublisherInv, PublisherType
  <1>3. BatchFits'
    BY <1>1, BatchStays
  <1>4. CopiesFit' /\ PublishesFit'
    BY <1>1, <1>2, RepliesTaken
  <1>5. AcksAreTrue'
    <2>1. Outbox!Attempt' = Outbox!Attempt /\ Outbox!Current' = Outbox!Current
      BY <1>1 DEF Outbox!Attempt, Outbox!Current
    <2>2. loop' = "mark" => IsRouted(Outbox!Current.event)'
      BY <1>1, <2>1 DEF PublisherInv, AcksAreTrue, IsRouted
    <2>3. ASSUME loop = "await", NEW i \in DOMAIN replies',
                 replies'[i] = [is |-> "ack", to |-> Outbox!Attempt]
          PROVE  \/ returned'
                 \/ IsRouted(Outbox!Current.event)
                 \/ \E j \in 1..(i - 1) :
                      replies'[j] = [is |-> "return", to |-> Outbox!Attempt]
      <3>1. /\ i + 1 \in DOMAIN replies /\ i \in Nat \ {0}
            /\ replies[i + 1] = [is |-> "ack", to |-> Outbox!Attempt]
        BY <1>1, <2>3, RepliesLeft
      <3>2. CASE returned \/ IsRouted(Outbox!Current.event)
        BY <1>1, <3>2
      <3>3. CASE \E j \in 1..((i + 1) - 1) :
                   replies[j] = [is |-> "return", to |-> Outbox!Attempt]
        <4>1. PICK j \in 1..i : replies[j] = [is |-> "return", to |-> Outbox!Attempt]
          BY <3>1, <3>3
        <4>2. CASE j = 1
          <5>1. Head(replies).to.event = Outbox!Current.event
            BY <1>1, <4>1, <4>2, RepliesLeft DEF Outbox!Attempt
          <5> QED
            BY <1>1, <2>3, <5>1
        <4>3. CASE j # 1
          <5>1. j \in 2..i
            BY <3>1, <4>1, <4>3
          <5> QED
            BY <1>1, <4>1, <5>1, RepliesLeft
        <4> QED
          BY <4>2, <4>3
      <3> QED
        BY <2>3, <3>1, <3>2, <3>3 DEF PublisherInv, AcksAreTrue
    <2> QED
      BY <1>1, <2>1, <2>2, <2>3 DEF AcksAreTrue, IsRouted
  <1>6. MarksFit'
    BY <1>1, MarksOfCounting
  <1> QED
    BY <1>2, <1>3, <1>4, <1>5, <1>6 DEF PublisherInv

\* An acknowledgement that is accepted is of a copy in the queue.
LEMMA OnConfirmKeepsInv ==
  ASSUME PublisherInv, Notes!IInv, Outbox!OnConfirm
  PROVE  PublisherInv'
  <1>1. /\ replies # <<>> /\ Head(replies).is # "return" /\ replies' = Tail(replies)
        /\ UNCHANGED <<outbox, batch, returned, channel, wire, orphans, queue, routed>>
    BY DEF Outbox!OnConfirm, Outbox!publisher, Outbox!broker, Outbox!Fail
  <1>2. \/ UNCHANGED <<loop, reason>>
        \/ loop = "await" /\ loop' = "fail" /\ reason' \in Outbox!Reasons
        \/ /\ loop = "await" /\ loop' = "mark" /\ UNCHANGED reason
           /\ Head(replies).to = Outbox!Attempt /\ ~returned
           /\ Head(replies).is = "ack"
    BY DEF Outbox!OnConfirm, Outbox!publisher, Outbox!Fail, Outbox!Reasons
  <1>3. PublisherType'
    BY <1>1, <1>2, RepliesLeft DEF PublisherInv, PublisherType, Working
  <1>4. BatchFits'
    BY <1>1, <1>2, BatchStays DEF Working
  <1>5. CopiesFit' /\ PublishesFit'
    BY <1>1, <1>2, <1>3, RepliesTaken
  <1>6. AcksAreTrue'
    <2>1. Outbox!Attempt' = Outbox!Attempt /\ Outbox!Current' = Outbox!Current
      BY <1>1 DEF Outbox!Attempt, Outbox!Current
    <2>2. ASSUME loop = "await", loop' = "mark"
          PROVE  IsRouted(Outbox!Current.event)
      <3>1. replies[1] = [is |-> "ack", to |-> Outbox!Attempt] /\ 1 \in DOMAIN replies
        BY <1>1, <1>2, <2>2, RepliesLeft DEF Outbox!Reply
      <3>2. ~returned /\ 1..(1 - 1) = {}
        BY <1>2, <2>2
      <3> QED
        BY <2>2, <3>1, <3>2 DEF PublisherInv, AcksAreTrue
    <2>3. loop' = "mark" => IsRouted(Outbox!Current.event)
      BY <1>2, <2>2 DEF PublisherInv, AcksAreTrue
    <2>4. ASSUME loop = "await", loop' = "await", NEW i \in DOMAIN replies',
                 replies'[i] = [is |-> "ack", to |-> Outbox!Attempt]
          PROVE  \/ returned
                 \/ IsRouted(Outbox!Current.event)
                 \/ \E j \in 1..(i - 1) :
                      replies'[j] = [is |-> "return", to |-> Outbox!Attempt]
      <3>1. /\ i + 1 \in DOMAIN replies /\ i \in Nat \ {0}
            /\ replies[i + 1] = [is |-> "ack", to |-> Outbox!Attempt]
        BY <1>1, <2>4, RepliesLeft
      <3>2. CASE \E j \in 1..((i + 1) - 1) :
                   replies[j] = [is |-> "return", to |-> Outbox!Attempt]
        <4>1. PICK j \in 1..i : replies[j] = [is |-> "return", to |-> Outbox!Attempt]
          BY <3>1, <3>2
        <4>2. j # 1
          BY <1>1, <4>1, RepliesLeft
        <4>3. j \in 2..i
          BY <3>1, <4>1, <4>2
        <4> QED
          BY <1>1, <4>1, <4>3, RepliesLeft
      <3> QED
        BY <2>4, <3>1, <3>2 DEF PublisherInv, AcksAreTrue
    <2>5. loop' = "await" => loop = "await"
      BY <1>2
    <2> QED
      BY <1>1, <2>1, <2>3, <2>4, <2>5 DEF AcksAreTrue, IsRouted
  <1>7. MarksFit'
    BY <1>1, MarksOfCounting
  <1> QED
    BY <1>3, <1>4, <1>5, <1>6, <1>7 DEF PublisherInv

\* What was on the wire may still arrive, and is counted as before.
LEMMA LostWireFits ==
  ASSUME PublisherInv, Notes!IInv, Outbox!LoseWire, UNCHANGED <<outbox, routed>>,
         loop' # "publish" \/ UNCHANGED <<loop, batch>>, PublisherType'
  PROVE  CopiesFit' /\ PublishesFit'
  <1>1. wire \in Seq(Outbox!Publish) /\ wire' = <<>> /\ replies' = <<>>
        /\ orphans' = orphans \cup Range(wire)
    BY DEF PublisherInv, PublisherType, Outbox!LoseWire, Outbox!Range, Range
  <1>2. \A e \in Events :
          Tried(e) \in Nat /\ Tried(e)' \in Nat /\ Tried(e)' >= Tried(e)
    BY TriesGrow
  <1>3. CopiesFit'
    <2> SUFFICES ASSUME NEW e \in Events
                 PROVE  routed'[Envelope[e]] + Cardinality(Places(wire', e))
                          + Cardinality(Orphaned(e)') <= Tried(e)'
      BY DEF CopiesFit
    <2> DEFINE lost == {p \in Range(wire) : p.event = e}
    <2>1. /\ Cardinality(Places(wire, e)) \in Nat /\ IsFiniteSet(Orphaned(e))
          /\ Cardinality(Orphaned(e)) \in Nat
          /\ routed[Envelope[e]] \in Nat
      BY CountsAreNat DEF PublisherInv
    <2>2. IsFiniteSet(lost) /\ Cardinality(lost) <= Cardinality(Places(wire, e))
      BY <1>1, PublishesInPlaces
    <2>3. Orphaned(e)' = Orphaned(e) \cup lost
      BY <1>1 DEF Orphaned
    <2> HIDE DEF lost
    <2>4. /\ Cardinality(Orphaned(e) \cup lost) =
               Cardinality(Orphaned(e)) + Cardinality(lost)
                 - Cardinality(Orphaned(e) \cap lost)
          /\ Cardinality(lost) \in Nat
          /\ Cardinality(Orphaned(e) \cap lost) \in Nat
      BY <2>1, <2>2, FS_Union, FS_Intersection, FS_CardinalityType
    <2>5. Cardinality(Places(wire', e)) = 0
      BY <1>1, PlacesOfNone
    <2>6. routed[Envelope[e]] + Cardinality(Places(wire, e))
            + Cardinality(Orphaned(e)) <= Tried(e)
      BY DEF PublisherInv, CopiesFit
    <2>7. Cardinality(Orphaned(e)') <=
            Cardinality(Orphaned(e)) + Cardinality(Places(wire, e))
          /\ Cardinality(Orphaned(e)') \in Int
      BY <2>1, <2>2, <2>3, <2>4
    <2>8. Tried(e) \in Nat /\ Tried(e)' \in Nat /\ Tried(e)' >= Tried(e)
      BY <1>2
    <2> QED
      BY <2>1, <2>5, <2>6, <2>7, <2>8
  <1>4. PublishesFit'
    <2>1. \A i \in DOMAIN wire : wire[i] \in Outbox!Publish /\ IsTried(wire[i])
      BY PublishesAreTyped DEF PublisherInv, PublishesFit
    <2>2. \A o \in orphans' : o \in Outbox!Publish /\ IsTried(o)
      BY <1>1, <2>1 DEF PublisherInv, PublisherType, PublishesFit, Range
    <2>3. DOMAIN wire' = {} /\ DOMAIN replies' = {}
      BY <1>1
    <2> QED
      BY <1>2, <2>2, <2>3, PublishesStay
  <1> QED
    BY <1>3, <1>4

\* What is on the wire is no more than finitely many publishes.
LEMMA LostWireIsTyped ==
  ASSUME PublisherInv, Outbox!LoseWire
  PROVE  /\ wire' \in Seq(Outbox!Publish) /\ replies' \in Seq(Outbox!Reply)
         /\ orphans' \in SUBSET Outbox!Publish /\ IsFiniteSet(orphans')
  <1>1. /\ IsFiniteSet(orphans) /\ orphans \in SUBSET Outbox!Publish
        /\ IsFiniteSet(Range(wire)) /\ Range(wire) \subseteq Outbox!Publish
    BY RangeIsFinite DEF PublisherInv, PublisherType
  <1>2. IsFiniteSet(orphans \cup Range(wire))
    BY <1>1, FS_Union
  <1> QED
    BY <1>1, <1>2, EmptySeq DEF Outbox!LoseWire, Outbox!Range, Range

\* A channel that closes takes the answers with it.
LEMMA ChannelClosesKeepsInv ==
  ASSUME PublisherInv, Notes!IInv, Outbox!ChannelCloses
  PROVE  PublisherInv'
  <1>1. /\ channel' \in {"none", "open", "dead"} /\ Outbox!LoseWire
        /\ UNCHANGED <<outbox, batch, returned, queue, routed>>
        /\ \/ loop = "await" /\ loop' = "fail" /\ reason' \in Outbox!Reasons
           \/ loop # "await" /\ UNCHANGED <<loop, reason>>
    BY DEF Outbox!ChannelCloses, Outbox!publisher, Outbox!broker, Outbox!Fail,
           Outbox!Reasons
  <1>2. PublisherType'
    BY <1>1, LostWireIsTyped DEF PublisherInv, PublisherType, Working
  <1>3. BatchFits'
    BY <1>1, BatchStays DEF Working
  <1>4. CopiesFit' /\ PublishesFit'
    BY <1>1, <1>2, LostWireFits
  <1>5. AcksAreTrue'
    BY <1>1 DEF PublisherInv, AcksAreTrue, IsRouted, Outbox!Current
  <1>6. MarksFit'
    BY <1>1, MarksOfCounting
  <1> QED
    BY <1>2, <1>3, <1>4, <1>5, <1>6 DEF PublisherInv

\* So does a process that ends, which forgets its batch.
LEMMA CrashKeepsInv ==
  ASSUME PublisherInv, Notes!IInv, Crash
  PROVE  PublisherInv'
  <1>1. /\ loop' = "down" /\ batch' = <<>> /\ returned' = FALSE /\ reason' = None
        /\ channel' = "none" /\ Outbox!LoseWire /\ UNCHANGED <<outbox, routed>>
    BY DEF Crash
  <1>2. PublisherType'
    <2>1. batch' \in Seq(Outbox!Read)
      BY <1>1
    <2> QED
      BY <1>1, <2>1, LostWireIsTyped DEF PublisherInv, PublisherType, Working
  <1>3. BatchFits'
    BY <1>1 DEF BatchFits, Working
  <1>4. CopiesFit' /\ PublishesFit'
    BY <1>1, <1>2, LostWireFits
  <1>5. AcksAreTrue'
    BY <1>1 DEF AcksAreTrue
  <1>6. MarksFit'
    BY <1>1, MarksOfCounting
  <1> QED
    BY <1>2, <1>3, <1>4, <1>5, <1>6 DEF PublisherInv

-----------------------------------------------------------------------------
(***************************************************************************)
(* The steps of the broker.                                                *)
(***************************************************************************)

\* A copy in the queue counts for its event and no other.
LEMMA CopiesRouted ==
  ASSUME Notes!IInv, NEW e \in Events, Outbox!Route(Envelope[e])
  PROVE  /\ routed'[Envelope[e]] = routed[Envelope[e]] + 1
         /\ \A f \in Events : f # e => routed'[Envelope[f]] = routed[Envelope[f]]
         /\ \A m \in Messages : routed'[m] \in Nat /\ routed'[m] >= routed[m]
  <1>1. routed \in [Messages -> Nat] /\ \A f \in Events : Envelope[f] \in Messages
    BY DEF Notes!IInv, Notes!TablesType, Messages
  <1>2. routed' = [routed EXCEPT ![Envelope[e]] = @ + 1]
    BY DEF Outbox!Route
  <1>3. \A f \in Events : f # e => Envelope[f] # Envelope[e]
    BY DeliveryAssumption DEF Outbox!OutboxAssumption
  <1> QED
    BY <1>1, <1>2, <1>3

\* A publish that arrives late was counted when it was lost.
LEMMA OrphanArrivesKeepsInv ==
  ASSUME PublisherInv, Notes!IInv, Outbox!OrphanArrives
  PROVE  PublisherInv'
  <1>1. PICK p \in orphans :
          /\ Outbox!Route(Envelope[p.event]) /\ orphans' = orphans \ {p}
          /\ UNCHANGED <<outbox, loop, batch, returned, reason, channel, wire, replies>>
    BY DEF Outbox!OrphanArrives, Outbox!publisher
  <1>2. p \in Outbox!Publish /\ p.event \in Events
    BY <1>1 DEF PublisherInv, PublisherType, Outbox!Publish
  <1>3. PICK e \in Events : e = p.event
    BY <1>2
  <1>4. /\ routed'[Envelope[e]] = routed[Envelope[e]] + 1
        /\ \A f \in Events : f # e => routed'[Envelope[f]] = routed[Envelope[f]]
        /\ \A m \in Messages : routed'[m] \in Nat /\ routed'[m] >= routed[m]
    BY <1>1, <1>3, CopiesRouted
  <1>5. PublisherType'
    <2>1. IsFiniteSet(orphans')
      BY <1>1, FS_Subset DEF PublisherInv, PublisherType
    <2> QED
      BY <1>1, <2>1 DEF PublisherInv, PublisherType
  <1>6. BatchFits'
    BY <1>1, BatchStays
  <1>7. \A f \in Events :
          Tried(f) \in Nat /\ Tried(f)' \in Nat /\ Tried(f)' >= Tried(f)
    BY <1>1, <1>5, TriesGrow
  <1>8. CopiesFit'
    <2> SUFFICES ASSUME NEW f \in Events
                 PROVE  routed'[Envelope[f]] + Cardinality(Places(wire', f))
                          + Cardinality(Orphaned(f)') <= Tried(f)'
      BY DEF CopiesFit
    <2>1. /\ Cardinality(Places(wire, f)) \in Nat /\ IsFiniteSet(Orphaned(f))
          /\ Cardinality(Orphaned(f)) \in Nat
          /\ routed[Envelope[f]] \in Nat
      BY CountsAreNat DEF PublisherInv
    <2>2. routed[Envelope[f]] + Cardinality(Places(wire, f))
            + Cardinality(Orphaned(f)) <= Tried(f)
      BY DEF PublisherInv, CopiesFit
    <2>3. CASE f = e
      <3>1. Orphaned(f)' = Orphaned(f) \ {p} /\ p \in Orphaned(f)
        BY <1>1, <1>3, <2>3 DEF Orphaned
      <3>2. Cardinality(Orphaned(f) \ {p}) = Cardinality(Orphaned(f)) - 1
        BY <2>1, <3>1, FS_RemoveElement
      <3> QED
        BY <1>1, <1>4, <1>7, <2>1, <2>2, <2>3, <3>1, <3>2
    <2>4. CASE f # e
      <3>1. Orphaned(f)' = Orphaned(f)
        BY <1>1, <1>3, <2>4 DEF Orphaned
      <3> QED
        BY <1>1, <1>4, <1>7, <2>1, <2>2, <2>4, <3>1
    <2> QED
      BY <2>3, <2>4
  <1>9. PublishesFit'
    <2>1. /\ \A i \in DOMAIN wire' : wire'[i] \in Outbox!Publish /\ IsTried(wire'[i])
          /\ \A i \in DOMAIN replies' :
               replies'[i].to \in Outbox!Publish /\ IsTried(replies'[i].to)
      BY <1>1, PublishesAreTyped DEF PublisherInv, PublishesFit
    <2>2. \A o \in orphans' : o \in Outbox!Publish /\ IsTried(o)
      BY <1>1 DEF PublisherInv, PublisherType, PublishesFit
    <2> QED
      BY <1>7, <2>1, <2>2, PublishesStay
  <1>10. \A f \in Events : IsRouted(f) => IsRouted(f)'
    BY <1>4, CountsAreNat DEF PublisherInv, IsRouted
  <1>11. AcksAreTrue'
    <2>1. loop \in Working => Outbox!Current.event \in Events
      BY TheCurrentRow DEF PublisherInv
    <2> QED
      BY <1>1, <1>10, <2>1
         DEF PublisherInv, AcksAreTrue, Outbox!Attempt, Outbox!Current, Working
  <1>12. MarksFit'
    <2>1. \A f \in Events : Outbox!IsMarked(f)' =>
            Outbox!IsMarked(f) /\ outbox'[f].failure = outbox[f].failure
      BY <1>1 DEF Outbox!IsMarked, Outbox!Exists
    <2> QED
      BY <1>4, <2>1, MarksStay
  <1> QED
    BY <1>5, <1>6, <1>8, <1>9, <1>11, <1>12 DEF PublisherInv

\* The broker answers what it takes from the wire, and does not acknowledge what
\* is neither in the queue nor announced as returned.
AnswersFit ==
  /\ replies' \in Seq(Outbox!Reply)
  /\ \A i \in DOMAIN replies : i \in DOMAIN replies' /\ replies'[i] = replies[i]
  /\ \A i \in DOMAIN replies' \ DOMAIN replies :
       /\ replies'[i].to = Outbox!Sent
       /\ replies'[i].is = "ack" =>
            \/ routed'[Envelope[Outbox!Sent.event]] > 0
            \/ \E j \in 1..(i - 1) :
                 replies'[j] = [is |-> "return", to |-> Outbox!Sent]

\* A copy more for a place less.
LEMMA OneForAnother ==
  ASSUME NEW copies \in Nat, NEW places \in Nat, NEW others \in Nat,
         NEW more \in Nat, NEW less \in Nat, NEW tried \in Nat,
         copies + places + others <= tried, more <= copies + 1, places = less + 1
  PROVE  more + less + others <= tried
  OBVIOUS

\* A publish the broker takes is counted as a copy, or no longer.
LEMMA WireKeepsInv ==
  ASSUME PublisherInv, Notes!IInv, wire # <<>>, wire' = Tail(wire), AnswersFit,
         Outbox!Route(Envelope[Outbox!Sent.event]) \/ UNCHANGED routed,
         UNCHANGED <<outbox, loop, batch, returned, reason, channel, orphans>>
  PROVE  PublisherInv'
  <1>1. /\ wire \in Seq(Outbox!Publish) /\ Outbox!Sent = wire[1] /\ 1 \in DOMAIN wire
        /\ Tail(wire) \in Seq(Outbox!Publish)
        /\ \A i \in DOMAIN wire' : i + 1 \in DOMAIN wire /\ wire'[i] = wire[i + 1]
    <2>1. wire \in Seq(Outbox!Publish)
      BY DEF PublisherInv, PublisherType
    <2>2. /\ Len(wire) \in Nat \ {0} /\ DOMAIN wire = 1..Len(wire)
          /\ Tail(wire) \in Seq(Outbox!Publish)
          /\ DOMAIN wire' = 1..(Len(wire) - 1)
          /\ \A i \in 1..(Len(wire) - 1) : wire'[i] = wire[i + 1]
      BY <2>1, EmptySeq, HeadTailProperties, LenProperties
    <2> QED
      BY <2>1, <2>2 DEF Outbox!Sent
  <1>2. PICK p \in Outbox!Publish : p = Outbox!Sent /\ IsTried(p) /\ p.event \in Events
    <2>1. wire[1] \in Outbox!Publish /\ IsTried(wire[1])
      BY <1>1, PublishesAreTyped DEF PublisherInv, PublishesFit
    <2>2. wire[1].event \in Events
      BY <2>1 DEF Outbox!Publish
    <2> QED
      BY <1>1, <2>1, <2>2
  <1>3. PICK e \in Events : e = p.event
    BY <1>2
  <1>4. /\ \/ routed'[Envelope[e]] = routed[Envelope[e]] + 1
           \/ routed'[Envelope[e]] = routed[Envelope[e]]
        /\ \A f \in Events : f # e => routed'[Envelope[f]] = routed[Envelope[f]]
        /\ \A m \in Messages : routed'[m] \in Nat /\ routed'[m] >= routed[m]
    <2>1. CASE Outbox!Route(Envelope[e])
      BY <2>1, CopiesRouted
    <2>2. CASE UNCHANGED routed
      BY <2>2 DEF Notes!IInv, Notes!TablesType
    <2> QED
      BY <1>2, <1>3, <2>1, <2>2
  <1>5. PublisherType'
    BY <1>1 DEF PublisherInv, PublisherType, AnswersFit
  <1>6. BatchFits'
    BY BatchStays
  <1>7. \A f \in Events :
          Tried(f) \in Nat /\ Tried(f)' \in Nat /\ Tried(f)' >= Tried(f)
    BY <1>5, TriesGrow
  <1>8. CopiesFit'
    <2> SUFFICES ASSUME NEW f \in Events
                 PROVE  routed'[Envelope[f]] + Cardinality(Places(wire', f))
                          + Cardinality(Orphaned(f)') <= Tried(f)'
      BY DEF CopiesFit
    <2>1. /\ Cardinality(Places(wire, f)) \in Nat
          /\ Cardinality(Orphaned(f)) \in Nat
          /\ routed[Envelope[f]] \in Nat
      BY CountsAreNat DEF PublisherInv
    <2>2. routed[Envelope[f]] + Cardinality(Places(wire, f))
            + Cardinality(Orphaned(f)) <= Tried(f)
      BY DEF PublisherInv, CopiesFit
    <2>3. Orphaned(f)' = Orphaned(f)
      BY DEF Orphaned
    <2>4. Cardinality(Places(wire, f)) =
            IF e = f THEN Cardinality(Places(Tail(wire), f)) + 1
                     ELSE Cardinality(Places(Tail(wire), f))
      BY <1>1, <1>2, <1>3, PlacesOfTail DEF Outbox!Sent
    <2>5. Cardinality(Places(Tail(wire), f)) \in Nat
      BY <1>1, PlacesAreFinite
    <2>6. Tried(f) \in Nat /\ Tried(f)' \in Nat /\ Tried(f)' >= Tried(f)
      BY <1>7
    <2>7. CASE e = f
      <3>1. Cardinality(Places(wire', f)) = Cardinality(Places(Tail(wire), f))
        OBVIOUS
      <3>2. /\ routed'[Envelope[f]] <= routed[Envelope[f]] + 1
            /\ routed'[Envelope[f]] \in Nat
        BY <1>4, <2>1, <2>7
      <3>3. Cardinality(Places(wire, f)) = Cardinality(Places(wire', f)) + 1
        BY <2>4, <2>7, <3>1
      <3>4. Cardinality(Places(wire', f)) \in Nat
        BY <2>5, <3>1
      <3>5. routed'[Envelope[f]] + Cardinality(Places(wire', f))
              + Cardinality(Orphaned(f)) <= Tried(f)
        BY <2>1, <2>2, <2>6, <3>2, <3>3, <3>4, OneForAnother
      <3> QED
        BY <2>1, <2>3, <2>6, <3>2, <3>4, <3>5
    <2>8. CASE e # f
      BY <1>4, <2>1, <2>2, <2>3, <2>4, <2>5, <2>6, <2>8
    <2> QED
      BY <2>7, <2>8
  <1>9. PublishesFit'
    <2>1. \A i \in DOMAIN wire' : wire'[i] \in Outbox!Publish /\ IsTried(wire'[i])
      BY <1>1, PublishesAreTyped DEF PublisherInv, PublishesFit
    <2>2. ASSUME NEW i \in DOMAIN replies'
          PROVE  replies'[i].to \in Outbox!Publish /\ IsTried(replies'[i].to)
      <3>1. CASE i \in DOMAIN replies
        BY <3>1, PublishesAreTyped DEF PublisherInv, PublishesFit, AnswersFit
      <3>2. CASE i \notin DOMAIN replies
        BY <1>2, <2>2, <3>2 DEF AnswersFit
      <3> QED
        BY <3>1, <3>2
    <2>3. \A o \in orphans' : o \in Outbox!Publish /\ IsTried(o)
      BY DEF PublisherInv, PublisherType, PublishesFit
    <2> QED
      BY <1>7, <2>1, <2>2, <2>3, PublishesStay
  <1>10. \A f \in Events : IsRouted(f) => IsRouted(f)'
    BY <1>4, CountsAreNat DEF PublisherInv, IsRouted
  <1>11. AcksAreTrue'
    <2>1. Outbox!Attempt' = Outbox!Attempt /\ Outbox!Current' = Outbox!Current
      BY DEF Outbox!Attempt, Outbox!Current
    <2>2. loop \in Working => Outbox!Current.event \in Events
      BY TheCurrentRow DEF PublisherInv
    <2>3. ASSUME loop = "await", NEW i \in DOMAIN replies',
                 replies'[i] = [is |-> "ack", to |-> Outbox!Attempt]
          PROVE  \/ returned
                 \/ IsRouted(Outbox!Current.event)'
                 \/ \E j \in 1..(i - 1) :
                      replies'[j] = [is |-> "return", to |-> Outbox!Attempt]
      <3>1. CASE i \in DOMAIN replies
        <4>1. replies[i] = [is |-> "ack", to |-> Outbox!Attempt]
          BY <2>3, <3>1 DEF AnswersFit
        <4>2. \A j \in 1..(i - 1) : j \in DOMAIN replies
          BY <3>1, LenProperties DEF PublisherInv, PublisherType
        <4>3. \A j \in 1..(i - 1) : replies'[j] = replies[j]
          BY <4>2 DEF AnswersFit
        <4>4. \/ returned
              \/ IsRouted(Outbox!Current.event)
              \/ \E j \in 1..(i - 1) :
                   replies[j] = [is |-> "return", to |-> Outbox!Attempt]
          BY <2>3, <3>1, <4>1 DEF PublisherInv, AcksAreTrue
        <4>5. IsRouted(Outbox!Current.event) => IsRouted(Outbox!Current.event)'
          BY <1>10, <2>1, <2>2, <2>3 DEF Working, IsRouted
        <4> QED
          BY <4>3, <4>4, <4>5
      <3>2. CASE i \notin DOMAIN replies
        <4>1. replies'[i].to = Outbox!Sent /\ replies'[i].is = "ack"
              /\ Outbox!Sent = Outbox!Attempt
          BY <2>3, <3>2 DEF AnswersFit
        <4>2. Outbox!Sent.event = Outbox!Current.event
          BY <4>1 DEF Outbox!Attempt
        <4>3. \/ routed'[Envelope[Outbox!Sent.event]] > 0
              \/ \E j \in 1..(i - 1) :
                   replies'[j] = [is |-> "return", to |-> Outbox!Sent]
          BY <2>3, <3>2, <4>1 DEF AnswersFit
        <4>4. routed'[Envelope[Outbox!Sent.event]] > 0
                => IsRouted(Outbox!Current.event)'
          BY <2>1, <4>2 DEF IsRouted
        <4> QED
          BY <4>1, <4>3, <4>4
      <3> QED
        BY <3>1, <3>2
    <2>4. loop = "mark" => IsRouted(Outbox!Current.event)'
      BY <1>10, <2>1, <2>2 DEF PublisherInv, AcksAreTrue, Working, IsRouted
    <2> QED
      BY <2>1, <2>3, <2>4 DEF AcksAreTrue
  <1>12. MarksFit'
    <2>1. \A f \in Events : Outbox!IsMarked(f)' =>
            Outbox!IsMarked(f) /\ outbox'[f].failure = outbox[f].failure
      BY DEF Outbox!IsMarked, Outbox!Exists
    <2> QED
      BY <1>4, <2>1, MarksStay
  <1> QED
    BY <1>5, <1>6, <1>8, <1>9, <1>11, <1>12 DEF PublisherInv

\* The publish at the head of the wire.
LEMMA SentIsOfAnEvent ==
  ASSUME PublisherInv, wire # <<>>
  PROVE  Outbox!Sent \in Outbox!Publish /\ Outbox!Sent.event \in Events
  <1>1. Outbox!Sent \in Outbox!Publish
    <2>1. wire \in Seq(Outbox!Publish) /\ wire # <<>>
      BY DEF PublisherInv, PublisherType
    <2> QED
      BY <2>1, HeadTailProperties DEF Outbox!Sent
  <1> QED
    BY <1>1 DEF Outbox!Publish

\* A copy is in the queue when it is acknowledged.
LEMMA BrokerRoutesKeepsInv ==
  ASSUME PublisherInv, Notes!IInv, Outbox!BrokerRoutes
  PROVE  PublisherInv'
  <1>1. /\ wire # <<>> /\ Outbox!Route(Envelope[Outbox!Sent.event])
        /\ replies' = Append(replies, [is |-> "ack", to |-> Outbox!Sent])
        /\ wire' = Tail(wire)
        /\ UNCHANGED <<outbox, loop, batch, returned, reason, channel, orphans>>
    BY DEF Outbox!BrokerRoutes, Outbox!publisher
  <1>2. Outbox!Sent \in Outbox!Publish /\ Outbox!Sent.event \in Events
    BY <1>1, SentIsOfAnEvent
  <1>3. routed'[Envelope[Outbox!Sent.event]] > 0
    <2>1. PICK e \in Events : e = Outbox!Sent.event
      BY <1>2
    <2>2. routed'[Envelope[e]] = routed[Envelope[e]] + 1
      BY <1>1, <2>1, CopiesRouted
    <2> QED
      BY <2>1, <2>2, CountsAreNat DEF PublisherInv
  <1>4. AnswersFit
    <2>1. PICK reply \in Outbox!Reply :
            reply = [is |-> "ack", to |-> Outbox!Sent]
      BY <1>2 DEF Outbox!Reply
    <2>2. replies \in Seq(Outbox!Reply) /\ replies' = Append(replies, reply)
      BY <1>1, <2>1 DEF PublisherInv, PublisherType
    <2>3. /\ replies' \in Seq(Outbox!Reply)
          /\ \A i \in DOMAIN replies : i \in DOMAIN replies' /\ replies'[i] = replies[i]
          /\ \A i \in DOMAIN replies' \ DOMAIN replies : replies'[i] = reply
      BY <2>2, AppendProperties, LenProperties
    <2> QED
      BY <1>3, <2>1, <2>3 DEF AnswersFit
  <1> QED
    BY <1>1, <1>4, WireKeepsInv

\* A message without a queue is returned before it is acknowledged.
LEMMA BrokerReturnsKeepsInv ==
  ASSUME PublisherInv, Notes!IInv, Outbox!BrokerReturns
  PROVE  PublisherInv'
  <1>1. /\ wire # <<>>
        /\ replies' = replies \o <<[is |-> "return", to |-> Outbox!Sent],
                                   [is |-> "ack", to |-> Outbox!Sent]>>
        /\ wire' = Tail(wire) /\ UNCHANGED routed
        /\ UNCHANGED <<outbox, loop, batch, returned, reason, channel, orphans>>
    BY DEF Outbox!BrokerReturns, Outbox!publisher, Outbox!broker
  <1>2. Outbox!Sent \in Outbox!Publish /\ Outbox!Sent.event \in Events
    BY <1>1, SentIsOfAnEvent
  <1>3. AnswersFit
    <2>1. PICK first \in Outbox!Reply :
            first = [is |-> "return", to |-> Outbox!Sent]
      BY <1>2 DEF Outbox!Reply
    <2>2. PICK second \in Outbox!Reply :
            second = [is |-> "ack", to |-> Outbox!Sent]
      BY <1>2 DEF Outbox!Reply
    <2>3. replies \in Seq(Outbox!Reply) /\ <<first, second>> \in Seq(Outbox!Reply)
          /\ replies' = replies \o <<first, second>>
      BY <1>1, <2>1, <2>2 DEF PublisherInv, PublisherType
    <2>4. /\ replies' \in Seq(Outbox!Reply)
          /\ Len(replies) \in Nat /\ DOMAIN replies = 1..Len(replies)
          /\ DOMAIN replies' = 1..(Len(replies) + 2)
          /\ \A i \in 1..Len(replies) : replies'[i] = replies[i]
          /\ replies'[Len(replies) + 1] = first
          /\ replies'[Len(replies) + 2] = second
      BY <2>3, ConcatProperties, LenProperties
    <2>5. ASSUME NEW i \in DOMAIN replies' \ DOMAIN replies
          PROVE  /\ replies'[i].to = Outbox!Sent
                 /\ replies'[i].is = "ack" =>
                      \E j \in 1..(i - 1) :
                        replies'[j] = [is |-> "return", to |-> Outbox!Sent]
      <3>1. i = Len(replies) + 1 \/ i = Len(replies) + 2
        BY <2>4
      <3>2. CASE i = Len(replies) + 1
        BY <2>1, <2>4, <3>2
      <3>3. CASE i = Len(replies) + 2
        <4>1. Len(replies) + 1 \in 1..(i - 1)
          BY <2>4, <3>3
        <4> QED
          BY <2>1, <2>2, <2>4, <3>3, <4>1
      <3> QED
        BY <3>1, <3>2, <3>3
    <2>6. \A i \in DOMAIN replies : i \in DOMAIN replies' /\ replies'[i] = replies[i]
      BY <2>4
    <2> QED
      BY <2>4, <2>5, <2>6 DEF AnswersFit
  <1> QED
    BY <1>1, <1>3, WireKeepsInv

\* A refusal promises nothing.
LEMMA BrokerNacksKeepsInv ==
  ASSUME PublisherInv, Notes!IInv, Outbox!BrokerNacks
  PROVE  PublisherInv'
  <1>1. /\ wire # <<>>
        /\ Outbox!Route(Envelope[Outbox!Sent.event]) \/ UNCHANGED routed
        /\ replies' = Append(replies, [is |-> "nack", to |-> Outbox!Sent])
        /\ wire' = Tail(wire)
        /\ UNCHANGED <<outbox, loop, batch, returned, reason, channel, orphans>>
    BY DEF Outbox!BrokerNacks, Outbox!publisher, Outbox!broker
  <1>2. Outbox!Sent \in Outbox!Publish
    BY <1>1, SentIsOfAnEvent
  <1>3. AnswersFit
    <2>1. PICK reply \in Outbox!Reply :
            reply = [is |-> "nack", to |-> Outbox!Sent]
      BY <1>2 DEF Outbox!Reply
    <2>2. replies \in Seq(Outbox!Reply) /\ replies' = Append(replies, reply)
      BY <1>1, <2>1 DEF PublisherInv, PublisherType
    <2>3. /\ replies' \in Seq(Outbox!Reply)
          /\ \A i \in DOMAIN replies : i \in DOMAIN replies' /\ replies'[i] = replies[i]
          /\ \A i \in DOMAIN replies' \ DOMAIN replies : replies'[i] = reply
      BY <2>2, AppendProperties, LenProperties
    <2> QED
      BY <2>1, <2>3 DEF AnswersFit
  <1> QED
    BY <1>1, <1>3, WireKeepsInv

-----------------------------------------------------------------------------
(***************************************************************************)
(* The worker and its surroundings.                                        *)
(***************************************************************************)

\* The consumer's assumption is one of the delivery.
LEMMA MessagesFit == Notes!MessagesAssumption
  BY DeliveryAssumption
     DEF Consumer!IsFiniteSet, Notes!IsFiniteSet, Consumer!MessagesAssumption,
         Notes!MessagesAssumption

\* The copy a publish puts into the queue is one the consumer may get.
LEMMA RouteKeepsNotes ==
  ASSUME Notes!IInv, NEW e \in Events, Outbox!Route(Envelope[e]), UNCHANGED consumed
  PROVE  Notes!IInv'
  <1>1. PICK m \in Messages : m = Envelope[e]
    BY DEF Messages
  <1>2. /\ queue' = [queue EXCEPT ![m] = @ + 1]
        /\ routed' = [routed EXCEPT ![m] = @ + 1]
        /\ UNCHANGED <<contracts, log, acked, dlq, Notes!handlers>>
    BY <1>1 DEF Outbox!Route, consumed, Notes!handlers
  <1> QED
    BY <1>2, MessagesFit, Notes!NewCopyKeepsIInv

\* Other steps of the publisher do not concern the consumer.
LEMMA RestKeepsNotes ==
  ASSUME Notes!IInv, UNCHANGED <<consumed, queue, routed>>
  PROVE  Notes!IInv'
  <1>1. UNCHANGED <<contracts, log, Notes!broker, Notes!handlers>>
    BY DEF consumed, Notes!broker, Notes!handlers
  <1> QED
    BY <1>1, MessagesFit, Notes!RestKeepsIInv

\* An activation commits its row with the revision it announces.
LEMMA ActivateKeepsIInv ==
  ASSUME IInv, NEW e \in Events, Activate(e)
  PROVE  IInv'
  <1>1. /\ outbox[e] = None
        /\ outbox' = [outbox EXCEPT ![e] = [attempts |-> 0, due |-> TRUE,
                                            published |-> FALSE, failure |-> None]]
        /\ UNCHANGED <<loop, batch, returned, reason, channel, wire, replies,
                       orphans, queue, routed>>
    BY DEF Activate, Outbox!Activate, Outbox!publisher, Outbox!connection,
           Outbox!broker
  <1>2. PublisherInv'
    <2>1. [attempts |-> 0, due |-> TRUE, published |-> FALSE, failure |-> None]
            \in Outbox!OutboxRow
      BY DEF Outbox!OutboxRow
    <2>2. outbox \in [Events -> Outbox!OutboxRow \cup {None}]
      BY DEF IInv, PublisherInv, PublisherType
    <2> QED
      BY <1>1, <2>1, <2>2, RowsKeepInv DEF IInv
  <1>3. Notes!IInv'
    <2>1. PICK m \in Messages : m = Envelope[e]
      BY DEF Messages
    <2>2. /\ m.contract = Activation[e].contract
          /\ m.revision = Activation[e].revision
      BY <2>1 DEF Envelope
    <2>3. m.contract \in Contracts /\ m.revision \in Nat
      BY <2>1, MessagesFit DEF Notes!MessagesAssumption
    <2>4. PICK c \in Contracts : c = Activation[e].contract
      BY <2>2, <2>3
    <2>5. PICK n \in Nat : n = Activation[e].revision
      BY <2>2, <2>3
    <2>6. contracts' = [contracts EXCEPT ![c] = n] /\ contracts[c] = n - 1
      BY <2>4, <2>5 DEF Activate
    <2>7. n >= contracts[c]
      BY <2>6
    <2>8. UNCHANGED <<log, Notes!broker, Notes!handlers>>
      BY <1>1 DEF Activate, Notes!broker, Notes!handlers
    <2> QED
      BY <2>6, <2>7, <2>8, MessagesFit, Notes!ProgressKeepsIInv DEF IInv
  <1> QED
    BY <1>2, <1>3 DEF IInv

\* A row with its time come.
LEMMA RowDue ==
  ASSUME NEW x \in Outbox!OutboxRow
  PROVE  [x EXCEPT !.due = TRUE] =
           [attempts |-> x.attempts, due |-> TRUE, published |-> x.published,
            failure |-> x.failure]
  <1> DEFINE y == [x EXCEPT !.due = TRUE]
  <1>1. /\ y.attempts = x.attempts /\ y.due = TRUE
        /\ y.published = x.published /\ y.failure = x.failure
    BY DEF Outbox!OutboxRow
  <1>2. y \in Outbox!OutboxRow
    BY DEF Outbox!OutboxRow
  <1> HIDE DEF y
  <1>3. y = [attempts |-> y.attempts, due |-> y.due, published |-> y.published,
             failure |-> y.failure]
    BY <1>2 DEF Outbox!OutboxRow
  <1>4. y = [attempts |-> x.attempts, due |-> TRUE, published |-> x.published,
             failure |-> x.failure]
    BY <1>1, <1>3
  <1> QED
    BY <1>4 DEF y

\* A row whose time comes is the same row.
LEMMA ElapseKeepsInv ==
  ASSUME PublisherInv, Notes!IInv, NEW e \in Events, Outbox!Elapse(e)
  PROVE  PublisherInv'
  <1>1. /\ outbox[e] # None /\ outbox' = [outbox EXCEPT ![e].due = TRUE]
        /\ UNCHANGED <<loop, batch, returned, reason, channel, wire, replies,
                       orphans, queue, routed>>
    BY DEF Outbox!Elapse, Outbox!publisher, Outbox!connection, Outbox!broker
  <1>2. outbox \in [Events -> Outbox!OutboxRow \cup {None}]
    BY DEF PublisherInv, PublisherType
  <1>3. PICK row \in Outbox!OutboxRow :
          /\ row = [outbox[e] EXCEPT !.due = TRUE]
          /\ row.attempts = outbox[e].attempts
          /\ row.published = outbox[e].published
          /\ row.failure = outbox[e].failure
    <2>1. PICK x \in Outbox!OutboxRow : x = outbox[e]
      BY <1>1, <1>2
    <2>2. [x EXCEPT !.due = TRUE] =
            [attempts |-> x.attempts, due |-> TRUE, published |-> x.published,
             failure |-> x.failure]
      BY RowDue
    <2>3. PICK y \in Outbox!OutboxRow :
            y = [attempts |-> x.attempts, due |-> TRUE, published |-> x.published,
                 failure |-> x.failure]
      BY DEF Outbox!OutboxRow
    <2> QED
      BY <2>1, <2>2, <2>3
  <1>4. row # None
    BY DeliveryAssumption DEF Outbox!OutboxAssumption
  <1>5. outbox' = [outbox EXCEPT ![e] = row]
    BY <1>1, <1>3
  <1> QED
    BY <1>1, <1>2, <1>3, <1>4, <1>5, RowsKeepInv

\* The publisher's loop and what is on its way to the broker.
LEMMA PublisherKeepsIInv ==
  ASSUME IInv, Publisher
  PROVE  IInv'
  <1> USE DEF IInv
  <1>1. UNCHANGED consumed
    BY DEF Publisher
  <1>2. CASE UNCHANGED Outbox!broker /\ PublisherInv'
    <2>1. UNCHANGED <<queue, routed>>
      BY <1>2 DEF Outbox!broker
    <2> QED
      BY <1>1, <1>2, <2>1, RestKeepsNotes
  <1>3. CASE Outbox!Publishing
    <2>1. CASE Outbox!FindDue
      BY <1>2, <2>1, FindDueKeepsInv DEF Outbox!FindDue
    <2>2. CASE Outbox!ReserveAttempt
      BY <1>2, <2>2, ReserveAttemptKeepsInv DEF Outbox!ReserveAttempt
    <2>3. CASE Outbox!Send
      BY <1>2, <2>3, SendKeepsInv DEF Outbox!Send
    <2>4. CASE Outbox!ConnectFails \/ Outbox!SendOnDeadChannel
      BY <1>2, <2>4, AttemptFailsKeepsInv
         DEF Outbox!ConnectFails, Outbox!SendOnDeadChannel
    <2>5. CASE Outbox!OnReturn
      BY <1>2, <2>5, OnReturnKeepsInv DEF Outbox!OnReturn
    <2>6. CASE Outbox!OnConfirm
      BY <1>2, <2>6, OnConfirmKeepsInv DEF Outbox!OnConfirm
    <2>7. CASE Outbox!RecordFailure
      BY <1>2, <2>7, RecordFailureKeepsInv DEF Outbox!RecordFailure
    <2>8. CASE Outbox!MarkPublished
      BY <1>2, <2>8, MarkPublishedKeepsInv DEF Outbox!MarkPublished
    <2>9. CASE Outbox!Restart
      BY <1>2, <2>9, RestartKeepsInv DEF Outbox!Restart
    <2> QED
      BY <1>3, <2>1, <2>2, <2>3, <2>4, <2>5, <2>6, <2>7, <2>8, <2>9
         DEF Outbox!Publishing
  <1>4. CASE Outbox!Brokering
    <2>1. wire # <<>>
      BY <1>4 DEF Outbox!Brokering, Outbox!BrokerRoutes, Outbox!BrokerReturns,
                  Outbox!BrokerNacks
    <2>2. PICK e \in Events : e = Outbox!Sent.event
      BY <2>1, SentIsOfAnEvent
    <2>3. CASE Outbox!BrokerRoutes
      BY <1>1, <2>2, <2>3, BrokerRoutesKeepsInv, RouteKeepsNotes
         DEF Outbox!BrokerRoutes
    <2>4. CASE Outbox!BrokerReturns
      BY <1>2, <2>4, BrokerReturnsKeepsInv DEF Outbox!BrokerReturns
    <2>5. CASE Outbox!BrokerNacks
      <3>1. PublisherInv'
        BY <2>5, BrokerNacksKeepsInv
      <3>2. CASE Outbox!Route(Envelope[e])
        BY <1>1, <3>1, <3>2, RouteKeepsNotes
      <3>3. CASE UNCHANGED Outbox!broker
        BY <1>2, <3>1, <3>3
      <3> QED
        BY <2>2, <2>5, <3>2, <3>3 DEF Outbox!BrokerNacks
    <2> QED
      BY <1>4, <2>3, <2>4, <2>5 DEF Outbox!Brokering
  <1>5. CASE Outbox!Disturbing
    <2>1. CASE Outbox!ConfirmTimeout
      BY <1>2, <2>1, ConfirmTimeoutKeepsInv DEF Outbox!ConfirmTimeout
    <2>2. CASE Outbox!ChannelCloses
      BY <1>2, <2>2, ChannelClosesKeepsInv DEF Outbox!ChannelCloses
    <2>3. CASE Outbox!OrphanArrives
      <3>1. PICK o \in orphans : Outbox!Route(Envelope[o.event])
        BY <2>3 DEF Outbox!OrphanArrives
      <3>2. PICK e \in Events : e = o.event
        BY DEF PublisherInv, PublisherType, Outbox!Publish
      <3> QED
        BY <1>1, <2>3, <3>1, <3>2, OrphanArrivesKeepsInv, RouteKeepsNotes
    <2> QED
      BY <1>5, <2>1, <2>2, <2>3 DEF Outbox!Disturbing
  <1>6. CASE \E e \in Events : Outbox!Elapse(e)
    BY <1>2, <1>6, ElapseKeepsInv DEF Outbox!Elapse
  <1> QED
    BY <1>3, <1>4, <1>5, <1>6 DEF Publisher

\* The publisher's part depends on nothing of the consumer but what was routed.
LEMMA RestKeepsPublisher ==
  ASSUME PublisherInv, UNCHANGED <<published, routed>>
  PROVE  PublisherInv'
  BY DEF published, PublisherInv, PublisherType, BatchFits, CopiesFit, Orphaned,
         PublishesFit, IsTried, Tried, AcksAreTrue, IsRouted, MarksFit,
         Outbox!Current, Outbox!Attempt, Outbox!IsMarked, Outbox!Exists

\* Handlers take copies from the queue, none of which is forgotten.
LEMMA NotifierKeepsIInv ==
  ASSUME IInv, Notifier
  PROVE  IInv'
  <1>1. CASE \E h \in Handlers : Consumer!Handle(h)
    <2>1. PICK h \in Handlers : Consumer!Handle(h)
      BY <1>1
    <2>2. Notes!Handle(h)
      BY <2>1
         DEF Consumer!Handle, Notes!Handle, Consumer!Parse, Notes!Parse,
             Consumer!FindContract, Notes!FindContract, Consumer!Insert,
             Notes!Insert, Consumer!ResolveDuplicate, Notes!ResolveDuplicate,
             Consumer!Ack, Notes!Ack, Consumer!Reject, Notes!Reject,
             Consumer!Release, Notes!Release, Consumer!Goto, Notes!Goto,
             Consumer!broker, Notes!broker, Consumer!Valid, Notes!Valid,
             Consumer!Refers, Notes!Refers, Consumer!Recorded, Notes!Recorded
    <2>3. UNCHANGED routed
      BY <2>1
         DEF Consumer!Handle, Consumer!Parse, Consumer!FindContract,
             Consumer!Insert, Consumer!ResolveDuplicate, Consumer!Ack,
             Consumer!Reject, Consumer!broker
    <2> QED
      BY <2>2, <2>3, MessagesFit, Notes!HandleKeepsIInv, RestKeepsPublisher
         DEF IInv, Notifier
  <1>2. CASE \E h \in Handlers : Consumer!DatabaseFails(h)
    <2>1. PICK h \in Handlers : Consumer!DatabaseFails(h)
      BY <1>2
    <2>2. Notes!DatabaseFails(h)
      BY <2>1
         DEF Consumer!DatabaseFails, Notes!DatabaseFails, Consumer!Reject,
             Notes!Reject, Consumer!Release, Notes!Release, Consumer!Recorded,
             Notes!Recorded, Consumer!Fault, Notes!Fault
    <2>3. UNCHANGED routed
      BY <2>1 DEF Consumer!DatabaseFails, Consumer!Reject
    <2> QED
      BY <2>2, <2>3, MessagesFit, Notes!DatabaseFailsKeepsIInv, RestKeepsPublisher
         DEF IInv, Notifier
  <1>3. CASE \E h \in Handlers, m \in Messages : Consumer!Deliver(h, m)
    <2>1. PICK h \in Handlers, m \in Messages : Consumer!Deliver(h, m)
      BY <1>3
    <2>2. Notes!Deliver(h, m) /\ UNCHANGED routed
      BY <2>1 DEF Consumer!Deliver, Notes!Deliver
    <2> QED
      BY <2>2, MessagesFit, Notes!DeliverKeepsIInv, RestKeepsPublisher
         DEF IInv, Notifier
  <1>4. CASE Consumer!ConnectionLost
    <2>1. Notes!ConnectionLost /\ UNCHANGED routed
      BY <1>4
         DEF Consumer!ConnectionLost, Notes!ConnectionLost, Consumer!Fault,
             Notes!Fault, Consumer!Requeue, Notes!Requeue, Consumer!Held,
             Notes!Held, Consumer!Cardinality, Notes!Cardinality
    <2> QED
      BY <2>1, MessagesFit, Notes!ConnectionLostKeepsIInv, RestKeepsPublisher
         DEF IInv, Notifier
  <1> QED
    BY <1>1, <1>2, <1>3, <1>4 DEF Notifier

\* The worker dies as a whole.
LEMMA CrashKeepsIInv ==
  ASSUME IInv, Crash
  PROVE  IInv'
  <1>1. PublisherInv'
    BY CrashKeepsInv DEF IInv
  <1>2. Notes!Requeue
    BY DEF Crash, Consumer!Requeue, Notes!Requeue, Consumer!Held, Notes!Held,
           Consumer!Cardinality, Notes!Cardinality
  <1>3. /\ at' = [h \in Handlers |-> "idle"]
        /\ msg' = [h \in Handlers |-> None]
        /\ live' = [h \in Handlers |-> FALSE]
        /\ UNCHANGED <<contracts, log, routed, acked, dlq>>
    BY DEF Crash
  <1> QED
    BY <1>1, <1>2, <1>3, MessagesFit, Notes!RestartKeepsIInv DEF IInv

\* A contract changes otherwise.
LEMMA ChangeKeepsIInv ==
  ASSUME IInv, NEW c \in Contracts, ChangeContract(c)
  PROVE  IInv'
  <1>1. Notes!ChangeContract(c) /\ UNCHANGED <<published, routed>>
    BY DEF ChangeContract, Consumer!ChangeContract, Notes!ChangeContract,
           Consumer!broker, Notes!broker, Consumer!handlers, Notes!handlers
  <1> QED
    BY <1>1, MessagesFit, Notes!ChangeContractKeepsIInv, RestKeepsPublisher DEF IInv

\* At first nothing is on its way.
LEMMA InitIInv == Init => IInv
  <1> SUFFICES ASSUME Init
               PROVE  IInv
    OBVIOUS
  <1>1. /\ outbox = [e \in Events |-> None] /\ loop = "poll" /\ batch = <<>>
        /\ returned = FALSE /\ reason = None /\ channel = "none" /\ wire = <<>>
        /\ replies = <<>> /\ orphans = {} /\ routed = [m \in Messages |-> 0]
    BY DEF Init, Outbox!Init
  <1>2. PublisherType
    <2>1. /\ outbox \in [Events -> Outbox!OutboxRow \cup {None}]
          /\ loop \in Working \cup {"poll", "down"} /\ returned \in BOOLEAN
          /\ reason \in Outbox!Reasons \cup {None}
          /\ channel \in {"none", "open", "dead"}
      BY <1>1
    <2>2. /\ batch \in Seq(Outbox!Read) /\ wire \in Seq(Outbox!Publish)
          /\ replies \in Seq(Outbox!Reply)
      BY <1>1
    <2>3. orphans \in SUBSET Outbox!Publish /\ IsFiniteSet(orphans)
      BY <1>1, FS_EmptySet
    <2> QED
      BY <2>1, <2>2, <2>3 DEF PublisherType
  <1>3. BatchFits
    BY <1>1 DEF BatchFits, Working
  <1>4. CopiesFit
    <2> SUFFICES ASSUME NEW e \in Events
                 PROVE  routed[Envelope[e]] + Cardinality(Places(wire, e))
                          + Cardinality(Orphaned(e)) <= Tried(e)
      BY DEF CopiesFit
    <2>1. routed[Envelope[e]] = 0
      BY <1>1 DEF Messages
    <2>2. Cardinality(Places(wire, e)) = 0
      BY <1>1, PlacesOfNone
    <2>3. Orphaned(e) = {}
      BY <1>1 DEF Orphaned
    <2>4. Tried(e) = 0
      BY <1>1 DEF Tried
    <2> QED
      BY <2>1, <2>2, <2>3, <2>4, FS_EmptySet
  <1>5. PublishesFit
    BY <1>1 DEF PublishesFit
  <1>6. AcksAreTrue
    BY <1>1 DEF AcksAreTrue
  <1>7. MarksFit
    BY <1>1 DEF MarksFit, Outbox!IsMarked, Outbox!Exists
  <1>8. Notes!Init
    BY DEF Init, Consumer!Init, Notes!Init
  <1> QED
    BY <1>2, <1>3, <1>4, <1>5, <1>6, <1>7, <1>8, MessagesFit, Notes!InitIInv
       DEF IInv, PublisherInv

\* Every step keeps the invariant.
LEMMA StepKeepsIInv == IInv /\ [Next]_vars => IInv'
  <1> SUFFICES ASSUME IInv, [Next]_vars
               PROVE  IInv'
    OBVIOUS
  <1>1. CASE \E e \in Events : Activate(e)
    BY <1>1, ActivateKeepsIInv
  <1>2. CASE \E c \in Contracts : ChangeContract(c)
    BY <1>2, ChangeKeepsIInv
  <1>3. CASE Publisher
    BY <1>3, PublisherKeepsIInv
  <1>4. CASE Notifier
    BY <1>4, NotifierKeepsIInv
  <1>5. CASE Crash
    BY <1>5, CrashKeepsIInv
  <1>6. CASE UNCHANGED vars
    BY <1>6, RestKeepsPublisher, RestKeepsNotes DEF IInv, vars
  <1> QED
    BY <1>1, <1>2, <1>3, <1>4, <1>5, <1>6 DEF Next

-----------------------------------------------------------------------------
(***************************************************************************)
(* The theorems.                                                           *)
(***************************************************************************)

\* The rows, the loop of the publisher, its channel and the consumer fit each
\* other through failures and crashes.
THEOREM DeliveryInvariant == Spec => []IInv
  <1> QED
    BY InitIInv, StepKeepsIInv, PTL DEF Spec

\* The row of an event counts every copy of it that is, was or may be at the
\* broker (reserveAttempt before broker I/O).
THEOREM CopiesAreReserved == Spec => []EveryCopyIsReserved
  <1>1. IInv => EveryCopyIsReserved
    <2> SUFFICES ASSUME IInv, NEW e \in Events, outbox[e] # None
                 PROVE  routed[Envelope[e]] + Outbox!OnTheWay(e)
                          <= outbox[e].attempts
      BY DEF EveryCopyIsReserved, Outbox!EveryCopyIsReserved, Outbox!Exists
    <2>1. Outbox!OnTheWay(e) =
            Cardinality(Places(wire, e)) + Cardinality(Orphaned(e))
      BY DEF Outbox!OnTheWay, Places, Orphaned, Outbox!Cardinality, Cardinality
    <2>2. /\ Cardinality(Places(wire, e)) \in Nat
          /\ Cardinality(Orphaned(e)) \in Nat
          /\ routed[Envelope[e]] \in Nat
      BY CountsAreNat DEF IInv, PublisherInv
    <2>3. Tried(e) \in Nat /\ Tried(e) <= outbox[e].attempts
      BY TriedIsReserved DEF IInv, PublisherInv
    <2>4. routed[Envelope[e]] + Cardinality(Places(wire, e))
            + Cardinality(Orphaned(e)) <= Tried(e)
      BY DEF IInv, PublisherInv, CopiesFit
    <2>5. outbox[e].attempts \in Nat
      BY DEF IInv, PublisherInv, PublisherType, Outbox!OutboxRow
    <2> QED
      BY <2>1, <2>2, <2>3, <2>4, <2>5
  <1> QED
    BY <1>1, DeliveryInvariant, PTL

\* Of a marked event a copy is kept somewhere: rows may be forgotten once they
\* are marked (markPublished, the broker and the consumer together).
THEOREM MarkedCopiesAreKept == Spec => []MarkedIsKept
  <1>1. IInv => MarkedIsKept
    <2> SUFFICES ASSUME IInv, NEW e \in Events, Outbox!IsMarked(e),
                        Envelope[e] \notin log
                 PROVE  queue[Envelope[e]] + Consumer!Held(Envelope[e])
                          + dlq[Envelope[e]] > 0
      BY DEF MarkedIsKept
    <2>1. PICK m \in Messages : m = Envelope[e]
      BY DEF Messages
    <2>2. routed[m] > 0
      BY <2>1 DEF IInv, PublisherInv, MarksFit, IsRouted
    <2>3. routed[m] = queue[m] + Notes!Held(m) + acked[m] + dlq[m]
      BY DEF IInv, Notes!IInv, Notes!NothingIsLost
    <2>4. acked[m] = 0
      <3>1. acked[m] \in Nat /\ ~(acked[m] > 0)
        BY <2>1 DEF IInv, Notes!IInv, Notes!TablesType, Notes!AckedIsRecorded
      <3> QED
        BY <3>1
    <2>5. Notes!Held(m) \in Nat /\ queue[m] \in Nat /\ dlq[m] \in Nat
      BY MessagesFit, Notes!HeldIsNat DEF IInv, Notes!IInv, Notes!TablesType
    <2>6. Consumer!Held(m) = Notes!Held(m)
      BY DEF Consumer!Held, Notes!Held, Consumer!Cardinality, Notes!Cardinality
    <2> QED
      BY <2>1, <2>2, <2>3, <2>4, <2>5, <2>6
  <1> QED
    BY <1>1, DeliveryInvariant, PTL

\* The event is not sent, and its row keeps its mark and no failure.
MarkStays(e) ==
  /\ ~Outbox!Sends(e)
  /\ outbox'[e].published
  /\ outbox'[e].failure = None
  /\ outbox'[e].attempts = outbox[e].attempts

\* The rows stay, and nothing is sent.
IsQuiet ==
  /\ UNCHANGED outbox
  /\ \/ wire' \in {wire, <<>>}
     \/ wire # <<>> /\ wire' = Tail(wire)

\* A step that leaves the rows alone and does not lengthen the wire leaves marks.
LEMMA QuietStepsKeepMarks ==
  ASSUME PublisherInv, NEW e \in Events, Outbox!IsMarked(e), IsQuiet
  PROVE  MarkStays(e)
  <1>1. ~(Len(wire') > Len(wire))
    <2>1. wire \in Seq(Outbox!Publish) /\ Len(wire) \in Nat
      BY LenProperties DEF PublisherInv, PublisherType
    <2>2. CASE wire' = <<>>
      BY <2>1, <2>2
    <2>3. CASE wire # <<>> /\ wire' = Tail(wire)
      <3>1. Len(wire') = Len(wire) - 1
        BY <2>1, <2>3, HeadTailProperties
      <3> QED
        BY <2>1, <3>1
    <2> QED
      BY <2>1, <2>2, <2>3 DEF IsQuiet
  <1> QED
    BY <1>1 DEF MarkStays, IsQuiet, Outbox!Sends, Outbox!IsMarked, PublisherInv, MarksFit

\* Nor is the row the publisher works on a marked one.
LEMMA WorkKeepsMarks ==
  ASSUME PublisherInv, NEW e \in Events, Outbox!IsMarked(e),
         \/ Outbox!ReserveAttempt
         \/ Outbox!RecordFailure
         \/ Outbox!MarkPublished
         \/ Outbox!Send
  PROVE  MarkStays(e)
  <1>1. /\ Outbox!Current.event \in Events /\ Outbox!Current.event # e
        /\ loop \in Working
    <2>1. loop \in Working
      BY DEF Outbox!ReserveAttempt, Outbox!RecordFailure, Outbox!MarkPublished,
             Outbox!Send, Working
    <2> QED
      BY <2>1, TheCurrentRow DEF PublisherInv, Outbox!IsMarked
  <1>2. outbox'[e] = outbox[e]
    <2>1. outbox \in [Events -> Outbox!OutboxRow \cup {None}]
      BY DEF PublisherInv, PublisherType
    <2> QED
      BY <1>1, <2>1 DEF Outbox!ReserveAttempt, Outbox!RecordFailure,
                        Outbox!MarkPublished, Outbox!Send
  <1>3. ~Outbox!Sends(e)
    <2>1. wire \in Seq(Outbox!Publish) /\ Len(wire) \in Nat
      BY LenProperties DEF PublisherInv, PublisherType
    <2>2. CASE Outbox!Send
      <3>1. PICK a \in Outbox!Publish : a = Outbox!Attempt /\ a.event # e
        BY <1>1, AttemptIsAPublish
      <3>2. wire' = Append(wire, a)
        BY <2>2, <3>1 DEF Outbox!Send
      <3>3. wire'[Len(wire')] = a
        BY <2>1, <3>2, AppendProperties
      <3> QED
        BY <3>1, <3>3 DEF Outbox!Sends
    <2>3. CASE UNCHANGED wire
      BY <2>1, <2>3 DEF Outbox!Sends
    <2> QED
      BY <2>2, <2>3 DEF Outbox!ReserveAttempt, Outbox!RecordFailure,
                        Outbox!MarkPublished, Outbox!connection
  <1> QED
    BY <1>2, <1>3 DEF MarkStays, Outbox!IsMarked, PublisherInv, MarksFit

\* Rows come and their time comes without a change of marks.
LEMMA RowsKeepMarks ==
  ASSUME PublisherInv, NEW e \in Events, Outbox!IsMarked(e), NEW f \in Events,
         Activate(f) \/ Outbox!Elapse(f)
  PROVE  MarkStays(e)
  <1>1. outbox \in [Events -> Outbox!OutboxRow \cup {None}] /\ UNCHANGED wire
    BY DEF PublisherInv, PublisherType, Activate, Outbox!Activate, Outbox!Elapse,
           Outbox!connection
  <1>2. ~Outbox!Sends(e)
    <2>1. Len(wire) \in Nat
      BY LenProperties DEF PublisherInv, PublisherType
    <2> QED
      BY <1>1, <2>1 DEF Outbox!Sends
  <1>3. outbox[e] # None /\ outbox[e].published /\ outbox[e].failure = None
    BY DEF Outbox!IsMarked, Outbox!Exists, PublisherInv, MarksFit
  <1>4. /\ outbox'[e].published = outbox[e].published
        /\ outbox'[e].failure = outbox[e].failure
        /\ outbox'[e].attempts = outbox[e].attempts
    <2>1. CASE Activate(f)
      BY <1>1, <1>3, <2>1 DEF Activate, Outbox!Activate
    <2>2. CASE Outbox!Elapse(f) /\ e # f
      BY <1>1, <2>2 DEF Outbox!Elapse
    <2>3. CASE Outbox!Elapse(f) /\ e = f
      <3>1. PICK x \in Outbox!OutboxRow : x = outbox[e]
        BY <1>1, <1>3
      <3>2. outbox'[e] = [x EXCEPT !.due = TRUE]
        BY <1>1, <2>3, <3>1 DEF Outbox!Elapse
      <3> QED
        BY <3>1, <3>2, RowDue
    <2> QED
      BY <2>1, <2>2, <2>3
  <1> QED
    BY <1>2, <1>3, <1>4 DEF MarkStays

\* The steps as far as marks are concerned.
LEMMA StepsForMarks ==
  ASSUME [Next]_vars
  PROVE  \/ \E f \in Events : Activate(f) \/ Outbox!Elapse(f)
         \/ Outbox!ReserveAttempt \/ Outbox!RecordFailure
         \/ Outbox!MarkPublished \/ Outbox!Send
         \/ IsQuiet
  <1>1. CASE Outbox!Publishing
    BY <1>1
       DEF IsQuiet, Outbox!Publishing, Outbox!FindDue, Outbox!ConnectFails,
           Outbox!SendOnDeadChannel, Outbox!OnReturn, Outbox!OnConfirm,
           Outbox!Restart, Outbox!connection
  <1>2. CASE Outbox!Brokering
    BY <1>2
       DEF IsQuiet, Outbox!Brokering, Outbox!BrokerRoutes, Outbox!BrokerReturns,
           Outbox!BrokerNacks
  <1>3. CASE Outbox!Disturbing
    BY <1>3
       DEF IsQuiet, Outbox!Disturbing, Outbox!ConfirmTimeout,
           Outbox!ChannelCloses, Outbox!OrphanArrives, Outbox!connection,
           Outbox!LoseWire
  <1>4. CASE (\E c \in Contracts : ChangeContract(c)) \/ Notifier \/ UNCHANGED vars
    BY <1>4 DEF IsQuiet, ChangeContract, Notifier, vars, published
  <1>5. CASE Crash
    BY <1>5 DEF IsQuiet, Crash, Outbox!LoseWire
  <1> QED
    BY <1>1, <1>2, <1>3, <1>4, <1>5 DEF Next, Publisher

\* A mark is final: a marked event is not sent again, and its row keeps its mark
\* and no failure, although the loop works on rows it read earlier.
THEOREM MarkedRowsStay == Spec => MarksAreFinal
  <1>1. ASSUME IInv, [Next]_vars, NEW e \in Events, Outbox!IsMarked(e)
        PROVE  MarkStays(e)
    <2>1. PublisherInv
      BY <1>1 DEF IInv
    <2>2. CASE \E f \in Events : Activate(f) \/ Outbox!Elapse(f)
      BY <1>1, <2>1, <2>2, RowsKeepMarks
    <2>3. CASE \/ Outbox!ReserveAttempt \/ Outbox!RecordFailure
               \/ Outbox!MarkPublished \/ Outbox!Send
      BY <1>1, <2>1, <2>3, WorkKeepsMarks
    <2>4. CASE IsQuiet
      BY <1>1, <2>1, <2>4, QuietStepsKeepMarks
    <2> QED
      BY <1>1, <2>2, <2>3, <2>4, StepsForMarks
  <1>2. IInv /\ [Next]_vars =>
          [\A e \in Events : Outbox!IsMarked(e) => MarkStays(e)]_(Outbox!vars)
    BY <1>1
  <1>3. Spec => [][\A e \in Events : Outbox!IsMarked(e) => MarkStays(e)]_(Outbox!vars)
    BY <1>2, DeliveryInvariant, PTL DEF Spec
  <1> QED
    BY <1>3 DEF MarksAreFinal, Outbox!MarksAreFinal, MarkStays

=============================================================================
