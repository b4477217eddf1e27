--------------------- MODULE NotificationConsumerProofs ---------------------
(***************************************************************************)
(* What holds of NotificationConsumer for any number of handlers, messages *)
(* and failures.                                                           *)
(***************************************************************************)
EXTENDS NotificationConsumer, FiniteSetTheorems, TLAPS

Steps == {"idle", "parse", "findContract", "insert", "resolve", "ack"}

\* Types of the rows and of the broker's counts.
TablesType ==
  /\ contracts \in [Contracts -> Nat]
  /\ log \subseteq Messages
  /\ queue \in [Messages -> Nat]
  /\ routed \in [Messages -> Nat]
  /\ acked \in [Messages -> Nat]
  /\ dlq \in [Messages -> Nat]

\* Types of the handlers.
HandlersType ==
  /\ at \in [Handlers -> Steps]
  /\ msg \in [Handlers -> Messages \cup {None}]
  /\ live \in [Handlers -> BOOLEAN]

\* m is about a contract of its tenant that got as far.
IsAboutItsContract(m) ==
  Owner[m.contract] = m.tenant /\ contracts[m.contract] >= m.revision

\* A handler has a message while it works, has checked it before it inserts, and
\* acknowledges only what is recorded.
HandlerFits(h) ==
  /\ at[h] = "idle" => ~live[h]
  /\ at[h] # "idle" => msg[h] \in Messages
  /\ at[h] \in {"findContract", "insert"} => Valid(msg[h])
  /\ at[h] = "insert" => IsAboutItsContract(msg[h])
  /\ at[h] = "ack" => msg[h] \in log

HandlersFit == \A h \in Handlers : HandlerFits(h)

IInv ==
  /\ TablesType
  /\ HandlersType
  /\ HandlersFit
  /\ NothingIsLost
  /\ AckedIsRecorded
  /\ EvidenceIsSound

-----------------------------------------------------------------------------
(***************************************************************************)
(* The copies that are held.                                               *)
(***************************************************************************)

Holding(m) == {h \in Handlers : live[h] /\ msg[h] = m}

\* Only so many copies are held as there are handlers.
LEMMA HeldIsNat ==
  ASSUME NEW m
  PROVE  /\ IsFiniteSet(Holding(m)) /\ Held(m) = Cardinality(Holding(m))
         /\ Held(m) \in Nat /\ Held(m)' \in Nat
  <1>1. Holding(m) \in SUBSET Handlers /\ Holding(m)' \in SUBSET Handlers
    BY DEF Holding
  <1>2. IsFiniteSet(Holding(m)) /\ IsFiniteSet(Holding(m)')
    BY <1>1, FS_Subset, MessagesAssumption
  <1>3. /\ Cardinality(Holding(m)) \in Nat
        /\ Cardinality(Holding(m)') \in Nat
    BY <1>2, FS_CardinalityType
  <1> QED
    BY <1>2, <1>3 DEF Held, Holding

\* Nobody holds anything without a connection.
LEMMA NothingHeld ==
  ASSUME \A h \in Handlers : ~live[h], NEW m
  PROVE  Held(m) = 0
  <1>1. Holding(m) = {}
    BY DEF Holding
  <1> QED
    BY <1>1, HeldIsNat, FS_EmptySet

\* A handler that gets a message holds one copy more of it.
LEMMA OneMoreHeld ==
  ASSUME HandlersType, HandlersType', NEW h \in Handlers, NEW m,
         ~live[h], live'[h], msg'[h] = m,
         \A q \in Handlers \ {h} : live'[q] = live[q] /\ msg'[q] = msg[q]
  PROVE  /\ Held(m)' = Held(m) + 1
         /\ \A n : n # m => Held(n)' = Held(n)
  <1>1. Holding(m)' = Holding(m) \cup {h} /\ h \notin Holding(m)
    BY DEF Holding
  <1>2. Held(m)' = Cardinality(Holding(m)')
    BY DEF Held, Holding
  <1>3. Held(m)' = Held(m) + 1
    <2>1. IsFiniteSet(Holding(m)) /\ Held(m) = Cardinality(Holding(m))
      BY HeldIsNat
    <2>2. Cardinality(Holding(m) \cup {h}) = Cardinality(Holding(m)) + 1
      BY <1>1, <2>1, FS_AddElement
    <2> QED
      BY <1>1, <1>2, <2>1, <2>2
  <1>4. ASSUME NEW n, n # m
        PROVE  Held(n)' = Held(n)
    <2>1. Holding(n)' = Holding(n)
      BY <1>4 DEF Holding
    <2> QED
      BY <2>1 DEF Held, Holding
  <1> QED
    BY <1>3, <1>4

\* A handler that lets its message go holds one copy less, if it held one.
LEMMA OneLessHeld ==
  ASSUME HandlersType, HandlersType', NEW h \in Handlers,
         ~live'[h],
         \A q \in Handlers \ {h} : live'[q] = live[q] /\ msg'[q] = msg[q]
  PROVE  \A n : IF live[h] /\ n = msg[h] THEN Held(n) = Held(n)' + 1
                                        ELSE Held(n)' = Held(n)
  <1>1. ASSUME NEW m, live[h], m = msg[h]
        PROVE  Held(m) = Held(m)' + 1
    <2>1. Holding(m)' = Holding(m) \ {h} /\ h \in Holding(m)
      BY <1>1 DEF Holding
    <2>2. Held(m)' = Cardinality(Holding(m)')
      BY DEF Held, Holding
    <2>3. /\ IsFiniteSet(Holding(m)) /\ Held(m) = Cardinality(Holding(m))
          /\ Held(m) \in Nat
      BY HeldIsNat
    <2>4. Cardinality(Holding(m) \ {h}) = Cardinality(Holding(m)) - 1
      BY <2>1, <2>3, FS_RemoveElement
    <2> QED
      BY <2>1, <2>2, <2>3, <2>4
  <1>2. ASSUME NEW n, n # msg[h] \/ ~live[h]
        PROVE  Held(n)' = Held(n)
    <2>1. Holding(n)' = Holding(n)
      BY <1>2 DEF Holding
    <2> QED
      BY <2>1 DEF Held, Holding
  <1> QED
    BY <1>1, <1>2

-----------------------------------------------------------------------------
(***************************************************************************)
(* What several steps have in common.                                      *)
(***************************************************************************)

\* Rows only come, and contracts only get further.
TablesGrow ==
  /\ log \subseteq log'
  /\ \A c \in Contracts : contracts[c] <= contracts'[c]

\* A handler that does nothing stays as it should be.
LEMMA RestsFit ==
  ASSUME IInv, TablesType', TablesGrow, NEW h \in Handlers,
         at'[h] = at[h], msg'[h] = msg[h], live'[h] = live[h] \/ ~live'[h]
  PROVE  HandlerFits(h)'
  <1>1. HandlerFits(h)
    BY DEF IInv, HandlersFit
  <1>2. at[h] = "insert" => IsAboutItsContract(msg[h])'
    <2> SUFFICES ASSUME at[h] = "insert"
                 PROVE  IsAboutItsContract(msg[h])'
      OBVIOUS
    <2>1. PICK m \in Messages : m = msg[h]
      BY <1>1 DEF HandlerFits
    <2>2. /\ Owner[m.contract] = m.tenant /\ contracts[m.contract] >= m.revision
          /\ m.contract \in Contracts /\ m.revision \in Nat
      BY <1>1, <2>1, MessagesAssumption DEF HandlerFits, IsAboutItsContract
    <2>3. contracts'[m.contract] >= m.revision
      BY <2>2 DEF TablesGrow, IInv, TablesType
    <2> QED
      BY <2>1, <2>2, <2>3 DEF IsAboutItsContract
  <1> QED
    BY <1>1, <1>2 DEF HandlerFits, TablesGrow, Valid

\* The evidence stays sound while no row comes.
LEMMA EvidenceStays ==
  ASSUME IInv, TablesType', TablesGrow, UNCHANGED log
  PROVE  EvidenceIsSound'
  <1> SUFFICES ASSUME NEW m \in log
               PROVE  /\ Recorded(m.eventId)' = {m}
                      /\ Valid(m)
                      /\ Owner[m.contract] = m.tenant
                      /\ contracts'[m.contract] >= m.revision
    BY DEF EvidenceIsSound, Valid
  <1>1. /\ m.contract \in Contracts /\ m.revision \in Nat
    BY MessagesAssumption DEF IInv, TablesType
  <1>2. /\ Recorded(m.eventId) = {m} /\ Valid(m)
        /\ Owner[m.contract] = m.tenant
        /\ contracts[m.contract] >= m.revision
    BY DEF IInv, EvidenceIsSound
  <1>3. contracts'[m.contract] >= m.revision
    BY <1>1, <1>2 DEF TablesGrow, IInv, TablesType
  <1> QED
    BY <1>2, <1>3 DEF Recorded

\* An insert that finds no row of its event adds sound evidence.
LEMMA EvidenceGrows ==
  ASSUME IInv, NEW h \in Handlers, at[h] = "insert",
         Recorded(msg[h].eventId) = {}, log' = log \cup {msg[h]},
         UNCHANGED contracts
  PROVE  log' \subseteq Messages /\ EvidenceIsSound'
  <1>1. PICK n \in Messages : n = msg[h]
    BY DEF IInv, HandlersFit, HandlerFits
  <1>2. Valid(n) /\ IsAboutItsContract(n)
    BY <1>1 DEF IInv, HandlersFit, HandlerFits
  <1>3. ASSUME NEW m \in log'
        PROVE  /\ Recorded(m.eventId)' = {m}
               /\ Valid(m)
               /\ Owner[m.contract] = m.tenant
               /\ contracts'[m.contract] >= m.revision
    <2>1. CASE m = n
      <3>1. Recorded(m.eventId)' = {m}
        BY <1>1, <2>1 DEF Recorded
      <3> QED
        BY <1>2, <2>1, <3>1 DEF IsAboutItsContract
    <2>2. CASE m # n
      <3>1. m \in log /\ m.eventId # n.eventId
        BY <1>1, <1>3, <2>2 DEF Recorded
      <3>2. /\ Recorded(m.eventId) = {m} /\ Valid(m)
            /\ Owner[m.contract] = m.tenant
            /\ contracts[m.contract] >= m.revision
        BY <3>1 DEF IInv, EvidenceIsSound
      <3> QED
        BY <1>1, <3>1, <3>2 DEF Recorded
    <2> QED
      BY <2>1, <2>2
  <1> QED
    BY <1>1, <1>3 DEF EvidenceIsSound, Valid, IInv, TablesType

\* The end of a delivery leaves the handler idle and the others alone.
LEMMA ReleaseFits ==
  ASSUME IInv, NEW h \in Handlers, Release(h), TablesType', TablesGrow
  PROVE  HandlersType' /\ HandlersFit'
  <1>1. HandlersType'
    BY DEF IInv, HandlersType, Release, Steps
  <1>2. ASSUME NEW q \in Handlers
        PROVE  HandlerFits(q)'
    <2>1. CASE q = h
      BY <2>1 DEF Release, HandlerFits, IInv, HandlersType
    <2>2. CASE q # h
      BY <2>2, RestsFit DEF Release, IInv, HandlersType
    <2> QED
      BY <2>1, <2>2
  <1> QED
    BY <1>1, <1>2 DEF HandlersFit

\* A rejected message is a dead letter, or waits again on the broker's side.
LEMMA RejectKeepsIInv ==
  ASSUME IInv, NEW h \in Handlers, at[h] # "idle", Reject(h),
         UNCHANGED contracts,
         log \subseteq log', log' \subseteq Messages, EvidenceIsSound'
  PROVE  IInv'
  <1>1. PICK m \in Messages : m = msg[h]
    BY DEF IInv, HandlersFit, HandlerFits
  <1>2. TablesType'
    BY <1>1 DEF IInv, TablesType, Reject
  <1>3. TablesGrow
    BY DEF TablesGrow, IInv, TablesType
  <1>4. HandlersType' /\ HandlersFit'
    BY <1>2, <1>3, ReleaseFits DEF Reject
  <1>5. \A n : IF live[h] /\ n = m THEN Held(n) = Held(n)' + 1
                                  ELSE Held(n)' = Held(n)
    BY <1>1, <1>4, OneLessHeld DEF Reject, Release, IInv, HandlersType
  <1>6. NothingIsLost'
    <2> SUFFICES ASSUME NEW n \in Messages
                 PROVE  routed'[n] = queue'[n] + Held(n)' + acked'[n] + dlq'[n]
      BY DEF NothingIsLost
    <2>1. /\ routed[n] = queue[n] + Held(n) + acked[n] + dlq[n]
          /\ queue[n] \in Nat /\ acked[n] \in Nat /\ dlq[n] \in Nat
          /\ Held(n) \in Nat
      BY HeldIsNat DEF IInv, NothingIsLost, TablesType
    <2>2. Held(n)' \in Nat
      BY HeldIsNat
    <2>3. CASE live[h] /\ n = m
      BY <1>1, <1>5, <2>1, <2>2, <2>3 DEF Reject, IInv, TablesType
    <2>4. CASE ~(live[h] /\ n = m)
      BY <1>1, <1>5, <2>1, <2>4 DEF Reject, IInv, TablesType
    <2> QED
      BY <2>3, <2>4
  <1>7. AckedIsRecorded'
    BY DEF IInv, AckedIsRecorded, Reject
  <1> QED
    BY <1>2, <1>4, <1>6, <1>7 DEF IInv

\* A step between two statements leaves the broker alone.
LEMMA GotoKeepsIInv ==
  ASSUME IInv, NEW h \in Handlers, NEW step \in Steps \ {"idle"},
         at[h] # "idle", Goto(h, step), UNCHANGED <<contracts, broker>>,
         log \subseteq log', log' \subseteq Messages, EvidenceIsSound',
         step \in {"findContract", "insert"} => Valid(msg[h]),
         step = "insert" => IsAboutItsContract(msg[h]),
         step = "ack" => msg[h] \in log'
  PROVE  IInv'
  <1>1. TablesType'
    BY DEF IInv, TablesType, broker
  <1>2. TablesGrow
    BY DEF TablesGrow, IInv, TablesType
  <1>3. HandlersType'
    BY DEF IInv, HandlersType, Goto
  <1>4. ASSUME NEW q \in Handlers
        PROVE  HandlerFits(q)'
    <2>1. CASE q = h
      <3>1. /\ at'[q] = step /\ msg'[q] = msg[q] /\ msg[q] \in Messages
        BY <2>1 DEF Goto, IInv, HandlersType, HandlersFit, HandlerFits
      <3> QED
        BY <2>1, <3>1 DEF HandlerFits, IsAboutItsContract, Valid
    <2>2. CASE q # h
      BY <1>1, <1>2, <2>2, RestsFit DEF Goto, IInv, HandlersType
    <2> QED
      BY <2>1, <2>2
  <1>5. NothingIsLost'
    BY DEF IInv, NothingIsLost, Held, Goto, broker
  <1>6. AckedIsRecorded'
    BY DEF IInv, AckedIsRecorded, broker
  <1> QED
    BY <1>1, <1>3, <1>4, <1>5, <1>6 DEF IInv, HandlersFit
-----------------------------------------------------------------------------
(***************************************************************************)
(* The steps.                                                              *)
(***************************************************************************)

\* Initially there is nothing.
LEMMA InitIInv == Init => IInv
  <1> SUFFICES ASSUME Init
               PROVE  IInv
    OBVIOUS
  <1>1. \A m : Held(m) = 0
    BY NothingHeld DEF Init
  <1> QED
    BY <1>1, MessagesAssumption
       DEF Init, IInv, TablesType, HandlersType, HandlersFit, HandlerFits, Steps,
           NothingIsLost, AckedIsRecorded, EvidenceIsSound

\* Steps in which neither handlers nor the log take part.
LEMMA HandlersRest ==
  ASSUME IInv, TablesType', TablesGrow, UNCHANGED <<log, handlers>>
  PROVE  HandlersType' /\ HandlersFit' /\ EvidenceIsSound'
  <1>1. HandlersType'
    BY DEF IInv, HandlersType, handlers
  <1>2. ASSUME NEW q \in Handlers
        PROVE  HandlerFits(q)'
    BY RestsFit DEF handlers
  <1> QED
    BY <1>1, <1>2, EvidenceStays DEF HandlersFit

\* A contract that gets further stays good for what refers to it.
LEMMA ProgressKeepsIInv ==
  ASSUME IInv, NEW c \in Contracts, NEW n \in Nat, n >= contracts[c],
         contracts' = [contracts EXCEPT ![c] = n],
         UNCHANGED <<log, broker, handlers>>
  PROVE  IInv'
  <1>1. TablesType' /\ TablesGrow
    BY DEF IInv, TablesType, TablesGrow, broker
  <1>2. HandlersType' /\ HandlersFit' /\ EvidenceIsSound'
    BY <1>1, HandlersRest
  <1>3. NothingIsLost' /\ AckedIsRecorded'
    BY DEF IInv, NothingIsLost, AckedIsRecorded, Held, broker, handlers
  <1> QED
    BY <1>1, <1>2, <1>3 DEF IInv

\* The API changes a contract, one revision at a time.
LEMMA ChangeContractKeepsIInv ==
  ASSUME IInv, NEW c \in Contracts, ChangeContract(c)
  PROVE  IInv'
  <1>1. PICK n \in Nat : n = contracts[c] + 1 /\ n >= contracts[c]
    BY DEF IInv, TablesType
  <1>2. /\ contracts' = [contracts EXCEPT ![c] = n]
        /\ UNCHANGED <<log, broker, handlers>>
    BY <1>1 DEF ChangeContract
  <1> QED
    BY <1>1, <1>2, ProgressKeepsIInv

\* A copy that arrives waits.
LEMMA NewCopyKeepsIInv ==
  ASSUME IInv, NEW m \in Messages,
         queue' = [queue EXCEPT ![m] = @ + 1],
         routed' = [routed EXCEPT ![m] = @ + 1],
         UNCHANGED <<contracts, log, acked, dlq, handlers>>
  PROVE  IInv'
  <1>1. TablesType' /\ TablesGrow
    BY DEF IInv, TablesType, TablesGrow
  <1>2. HandlersType' /\ HandlersFit' /\ EvidenceIsSound'
    BY <1>1, HandlersRest
  <1>3. NothingIsLost'
    <2> SUFFICES ASSUME NEW n \in Messages
                 PROVE  routed'[n] = queue'[n] + Held(n)' + acked'[n] + dlq'[n]
      BY DEF NothingIsLost
    <2>1. /\ routed[n] = queue[n] + Held(n) + acked[n] + dlq[n]
          /\ queue[n] \in Nat /\ acked[n] \in Nat /\ dlq[n] \in Nat
          /\ Held(n) \in Nat
      BY HeldIsNat DEF IInv, NothingIsLost, TablesType
    <2>2. Held(n)' = Held(n)
      BY DEF Held, handlers
    <2> QED
      BY <2>1, <2>2 DEF IInv, TablesType
  <1>4. AckedIsRecorded'
    BY DEF IInv, AckedIsRecorded
  <1> QED
    BY <1>1, <1>2, <1>3, <1>4 DEF IInv

\* A delivery moves a copy from the queue to a handler.
LEMMA DeliverKeepsIInv ==
  ASSUME IInv, NEW h \in Handlers, NEW m \in Messages, Deliver(h, m)
  PROVE  IInv'
  <1>1. TablesType' /\ TablesGrow
    BY DEF IInv, TablesType, TablesGrow, Deliver
  <1>2. HandlersType'
    BY DEF IInv, HandlersType, Deliver, Steps
  <1>3. ASSUME NEW q \in Handlers
        PROVE  HandlerFits(q)'
    <2>1. CASE q = h
      BY <2>1 DEF Deliver, HandlerFits, IInv, HandlersType
    <2>2. CASE q # h
      BY <1>1, <2>2, RestsFit DEF Deliver, IInv, HandlersType
    <2> QED
      BY <2>1, <2>2
  <1>4. EvidenceIsSound'
    BY <1>1, EvidenceStays DEF Deliver
  <1>5. /\ Held(m)' = Held(m) + 1
        /\ \A n : n # m => Held(n)' = Held(n)
    <2>1. ~live[h]
      BY DEF Deliver, IInv, HandlersFit, HandlerFits
    <2> QED
      BY <1>2, <2>1, OneMoreHeld DEF Deliver, IInv, HandlersType
  <1>6. NothingIsLost'
    <2> SUFFICES ASSUME NEW n \in Messages
                 PROVE  routed'[n] = queue'[n] + Held(n)' + acked'[n] + dlq'[n]
      BY DEF NothingIsLost
    <2>1. /\ routed[n] = queue[n] + Held(n) + acked[n] + dlq[n]
          /\ queue[n] \in Nat /\ acked[n] \in Nat /\ dlq[n] \in Nat
          /\ Held(n) \in Nat
      BY HeldIsNat DEF IInv, NothingIsLost, TablesType
    <2> QED
      BY <1>5, <2>1 DEF Deliver, IInv, TablesType
  <1>7. AckedIsRecorded'
    BY DEF IInv, AckedIsRecorded, Deliver
  <1> QED
    BY <1>1, <1>2, <1>3, <1>4, <1>6, <1>7 DEF IInv, HandlersFit

\* An acknowledgement moves a copy out of the handler's hands; the row is there.
LEMMA AckKeepsIInv ==
  ASSUME IInv, NEW h \in Handlers, Ack(h)
  PROVE  IInv'
  <1>1. PICK m \in Messages : m = msg[h] /\ m \in log
    BY DEF Ack, IInv, HandlersFit, HandlerFits
  <1>2. TablesType' /\ TablesGrow
    BY <1>1 DEF IInv, TablesType, TablesGrow, Ack
  <1>3. HandlersType' /\ HandlersFit'
    BY <1>2, ReleaseFits DEF Ack
  <1>4. EvidenceIsSound'
    BY <1>2, EvidenceStays DEF Ack
  <1>5. \A n : IF live[h] /\ n = m THEN Held(n) = Held(n)' + 1
                                  ELSE Held(n)' = Held(n)
    BY <1>1, <1>3, OneLessHeld DEF Ack, Release, IInv, HandlersType
  <1>6. NothingIsLost'
    <2> SUFFICES ASSUME NEW n \in Messages
                 PROVE  routed'[n] = queue'[n] + Held(n)' + acked'[n] + dlq'[n]
      BY DEF NothingIsLost
    <2>1. /\ routed[n] = queue[n] + Held(n) + acked[n] + dlq[n]
          /\ queue[n] \in Nat /\ acked[n] \in Nat /\ dlq[n] \in Nat
          /\ Held(n) \in Nat /\ Held(n)' \in Nat
      BY HeldIsNat DEF IInv, NothingIsLost, TablesType
    <2>2. CASE live[h] /\ n = m
      BY <1>1, <1>5, <2>1, <2>2 DEF Ack, IInv, TablesType
    <2>3. CASE ~(live[h] /\ n = m)
      BY <1>1, <1>5, <2>1, <2>3 DEF Ack, IInv, TablesType
    <2> QED
      BY <2>2, <2>3
  <1>7. AckedIsRecorded'
    BY <1>1 DEF IInv, AckedIsRecorded, Ack, TablesType
  <1> QED
    BY <1>2, <1>3, <1>4, <1>6, <1>7 DEF IInv

\* The other steps of a handler.
LEMMA HandleKeepsIInv ==
  ASSUME IInv, NEW h \in Handlers, Handle(h)
  PROVE  IInv'
  <1>0. /\ at[h] # "idle" => msg[h] \in Messages
        /\ at[h] \in {"findContract", "insert"} => Valid(msg[h])
        /\ log \subseteq Messages
    BY DEF IInv, HandlersFit, HandlerFits, TablesType
  <1>1. ASSUME UNCHANGED <<contracts, log>>
        PROVE  EvidenceIsSound'
    BY <1>1 DEF IInv, EvidenceIsSound, Recorded, Valid
  <1>2. CASE Parse(h)
    <2>1. at[h] = "parse" /\ UNCHANGED <<contracts, log>>
      BY <1>2 DEF Parse
    <2>2. CASE Reject(h)
      BY <1>0, <1>1, <2>1, <2>2, RejectKeepsIInv
    <2>3. CASE Valid(msg[h]) /\ Goto(h, "findContract") /\ UNCHANGED broker
      BY <1>0, <1>1, <2>1, <2>3, GotoKeepsIInv DEF Steps
    <2> QED
      BY <1>2, <2>2, <2>3 DEF Parse
  <1>3. CASE FindContract(h)
    <2>1. at[h] = "findContract" /\ UNCHANGED <<contracts, log>>
      BY <1>3 DEF FindContract
    <2>2. CASE Reject(h)
      BY <1>0, <1>1, <2>1, <2>2, RejectKeepsIInv
    <2>3. CASE Refers(msg[h]) /\ Goto(h, "insert") /\ UNCHANGED broker
      <3>1. IsAboutItsContract(msg[h])
        BY <2>3 DEF Refers, IsAboutItsContract
      <3> QED
        BY <1>0, <1>1, <2>1, <2>3, <3>1, GotoKeepsIInv DEF Steps
    <2> QED
      BY <1>3, <2>2, <2>3 DEF FindContract
  <1>4. CASE Insert(h)
    <2>1. at[h] = "insert" /\ UNCHANGED <<contracts, broker>>
      BY <1>4 DEF Insert
    <2>2. CASE /\ Recorded(msg[h].eventId) = {}
               /\ log' = log \cup {msg[h]}
               /\ Goto(h, "ack")
      BY <1>0, <2>1, <2>2, EvidenceGrows, GotoKeepsIInv DEF Steps
    <2>3. CASE Goto(h, "resolve") /\ UNCHANGED log
      BY <1>0, <1>1, <2>1, <2>3, GotoKeepsIInv DEF Steps
    <2> QED
      BY <1>4, <2>2, <2>3 DEF Insert
  <1>5. CASE ResolveDuplicate(h)
    <2>1. at[h] = "resolve" /\ UNCHANGED <<contracts, log>>
      BY <1>5 DEF ResolveDuplicate
    <2>2. CASE Reject(h)
      BY <1>0, <1>1, <2>1, <2>2, RejectKeepsIInv
    <2>3. CASE /\ Recorded(msg[h].eventId) = {msg[h]}
               /\ Goto(h, "ack") /\ UNCHANGED broker
      <3>1. msg[h] \in log
        BY <2>3 DEF Recorded
      <3> QED
        BY <1>0, <1>1, <2>1, <2>3, <3>1, GotoKeepsIInv DEF Steps
    <2> QED
      BY <1>5, <2>2, <2>3 DEF ResolveDuplicate
  <1> QED
    BY <1>2, <1>3, <1>4, <1>5, AckKeepsIInv DEF Handle

\* A failed statement rejects the message, although its commit may have worked.
LEMMA DatabaseFailsKeepsIInv ==
  ASSUME IInv, NEW h \in Handlers, DatabaseFails(h)
  PROVE  IInv'
  <1>1. at[h] # "idle" /\ Reject(h) /\ UNCHANGED contracts
    BY DEF DatabaseFails
  <1>2. CASE UNCHANGED log
    <2>1. EvidenceIsSound' /\ log' \subseteq Messages
      BY <1>1, <1>2 DEF IInv, EvidenceIsSound, Recorded, Valid, TablesType
    <2> QED
      BY <1>1, <1>2, <2>1, RejectKeepsIInv
  <1>3. CASE /\ at[h] = "insert"
             /\ Recorded(msg[h].eventId) = {}
             /\ log' = log \cup {msg[h]}
    BY <1>1, <1>3, EvidenceGrows, RejectKeepsIInv
  <1> QED
    BY <1>2, <1>3 DEF DatabaseFails

\* Whatever ends the connection gives the broker back all that was held.
LEMMA RequeueKeepsIInv ==
  ASSUME IInv, Requeue, HandlersType', HandlersFit',
         live' = [h \in Handlers |-> FALSE],
         UNCHANGED <<contracts, log, routed, acked, dlq>>
  PROVE  IInv'
  <1>1. TablesType' /\ TablesGrow
    BY HeldIsNat DEF IInv, TablesType, TablesGrow, Requeue
  <1>2. EvidenceIsSound'
    BY <1>1, EvidenceStays
  <1>3. NothingIsLost'
    <2> SUFFICES ASSUME NEW n \in Messages
                 PROVE  routed'[n] = queue'[n] + Held(n)' + acked'[n] + dlq'[n]
      BY DEF NothingIsLost
    <2>1. /\ routed[n] = queue[n] + Held(n) + acked[n] + dlq[n]
          /\ queue[n] \in Nat /\ acked[n] \in Nat /\ dlq[n] \in Nat
          /\ Held(n) \in Nat
      BY HeldIsNat DEF IInv, NothingIsLost, TablesType
    <2>2. Held(n)' = 0
      <3>1. Holding(n)' = {}
        BY DEF Holding
      <3> QED
        BY <3>1, FS_EmptySet DEF Held, Holding
    <2> QED
      BY <2>1, <2>2 DEF Requeue
  <1>4. AckedIsRecorded'
    BY DEF IInv, AckedIsRecorded
  <1> QED
    BY <1>1, <1>2, <1>3, <1>4 DEF IInv

\* Handlers go on without a connection.
LEMMA ConnectionLostKeepsIInv ==
  ASSUME IInv, ConnectionLost
  PROVE  IInv'
  <1>1. HandlersType'
    BY DEF ConnectionLost, IInv, HandlersType
  <1>2. HandlersFit'
    BY DEF ConnectionLost, IInv, HandlersType, HandlersFit, HandlerFits,
           IsAboutItsContract, Valid
  <1> QED
    BY <1>1, <1>2, RequeueKeepsIInv DEF ConnectionLost

\* Handlers are gone.
LEMMA RestartKeepsIInv ==
  ASSUME IInv, Requeue,
         at' = [h \in Handlers |-> "idle"],
         msg' = [h \in Handlers |-> None],
         live' = [h \in Handlers |-> FALSE],
         UNCHANGED <<contracts, log, routed, acked, dlq>>
  PROVE  IInv'
  <1>1. HandlersType' /\ HandlersFit'
    BY DEF HandlersType, HandlersFit, HandlerFits, Steps
  <1> QED
    BY <1>1, RequeueKeepsIInv

\* Nothing the invariant is about changes.
LEMMA RestKeepsIInv ==
  ASSUME IInv, UNCHANGED <<contracts, log, broker, handlers>>
  PROVE  IInv'
  BY DEF broker, handlers, IInv, TablesType, HandlersType, HandlersFit,
         HandlerFits, IsAboutItsContract, Valid, NothingIsLost, Held,
         AckedIsRecorded, EvidenceIsSound, Recorded

\* Every step keeps the invariant.
LEMMA StepKeepsIInv == IInv /\ [Next]_vars => IInv'
  <1> SUFFICES ASSUME IInv, [Next]_vars
               PROVE  IInv'
    OBVIOUS
  <1>1. CASE UNCHANGED vars
    BY <1>1, RestKeepsIInv DEF vars
  <1>2. CASE \E c \in Contracts : ChangeContract(c)
    BY <1>2, ChangeContractKeepsIInv
  <1>3. CASE \E m \in Messages : Arrive(m) \/ Replay(m)
    BY <1>3, NewCopyKeepsIInv DEF Arrive, Replay
  <1>4. CASE \E h \in Handlers, m \in Messages : Deliver(h, m)
    BY <1>4, DeliverKeepsIInv
  <1>5. CASE \E h \in Handlers : Handle(h) \/ DatabaseFails(h)
    BY <1>5, HandleKeepsIInv, DatabaseFailsKeepsIInv
  <1>6. CASE ConnectionLost \/ Crash
    BY <1>6, ConnectionLostKeepsIInv, RestartKeepsIInv DEF Crash
  <1> QED
    BY <1>1, <1>2, <1>3, <1>4, <1>5, <1>6 DEF Next

-----------------------------------------------------------------------------
(***************************************************************************)
(* The theorems.                                                           *)
(***************************************************************************)

\* What a handler has checked stays true until it acknowledges, the counts of the
\* copies balance, and the evidence is sound, all at once
\* (ContractActivatedConsumer and PrismaActivationNotificationRepository).
THEOREM ConsumerInvariant == Spec => []IInv
  <1> QED
    BY InitIInv, StepKeepsIInv, PTL DEF Spec

\* No copy of a message is lost or counted twice through failures, lost
\* connections and crashes (ack, nack and the broker's redelivery).
THEOREM CopiesBalance == Spec => []NothingIsLost
  <1>1. IInv => NothingIsLost
    BY DEF IInv
  <1> QED
    BY <1>1, ConsumerInvariant, PTL

\* What is acknowledged is recorded, as exactly this event (record).
THEOREM AcknowledgedIsRecorded == Spec => []AckedIsRecorded
  <1>1. IInv => AckedIsRecorded
    BY DEF IInv
  <1> QED
    BY <1>1, ConsumerInvariant, PTL

\* One notification for an event, about a contract of its tenant that got as far
\* (record, resolveDuplicate and the unique key of notification_logs).
THEOREM EvidenceStaysSound == Spec => []EvidenceIsSound
  <1>1. IInv => EvidenceIsSound
    BY DEF IInv
  <1> QED
    BY <1>1, ConsumerInvariant, PTL

=============================================================================
