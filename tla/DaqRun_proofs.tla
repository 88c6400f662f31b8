--------------------------- MODULE DaqRun_proofs ----------------------------
(***************************************************************************)
(* Proofs about DaqRun: type correctness, that no sample is ever written   *)
(* twice or out of order, that every sample is taken under its setting,    *)
(* that every event marks one, and that no sample is in two places or lost *)
(* uncounted, for every board, any number of scans, points, events and     *)
(* samples, and whatever the timing of the front-end.  The last part shows *)
(* that undisturbed the loop does what ScanRecord says.                    *)
(***************************************************************************)
EXTENDS DaqRun, SequenceTheorems, FiniteSetTheorems, TLAPS

-----------------------------------------------------------------------------
(***************************************************************************)
(* Type correctness.                                                       *)
(***************************************************************************)

\* What getLinkData returns is a sample or NoSample.
LEMMA LinkDataType == TypeOK => LinkData \in Sample \cup {NoSample}
  BY DEF TypeOK, LinkData

\* The trigger command the program names has the type of a trigger.
LEMMA RorType == TypeOK => Ror \in Nat \X Nat \X Nat
  BY DEF TypeOK, Ror

\* An L1A leaves the captured samples well typed.
LEMMA L1AType ==
  ASSUME TypeOK, NEW ror \in Nat \X Nat \X Nat, L1A(ror)
  PROVE  l1a' \in Nat /\ frontend' \in Seq(Sample)
<1>1. [id |-> l1a + 1, ror |-> ror, tag |-> roc] \in Sample
  BY DEF TypeOK, Sample
<1>2. QED
  BY <1>1 DEF TypeOK, L1A

\* The ordinals of a sequence of samples are positive numbers.
LEMMA IdsType == ASSUME NEW s \in Seq(Sample) PROVE Ids(s) \subseteq Nat
<1>1. \A i \in DOMAIN s : s[i] \in Sample
  OBVIOUS
<1>2. QED
  BY <1>1 DEF Ids, Sample

\* DAQ::setup and setL1AperROR keep natural numbers.
LEMMA SetupType ==
  ASSUME NEW n \in Nat, NEW s \in Int
  PROVE  SanitizedSoi(n, s) \in Nat /\ KeptL1AperROR(n) \in Nat
<1>1. SanitizedSoi(n, s) \in Nat
  BY DEF SanitizedSoi
<1>2. KeptL1AperROR(n) \in Nat
  <2>1. FieldSize \in Nat /\ FieldSize > 0
    BY SizeAssumption
  <2>2. n % FieldSize \in Nat
    BY <2>1
  <2>3. QED
    BY <2>2 DEF KeptL1AperROR
<1>3. QED
  BY <1>1, <1>2

\* One step of the program or of the front-end keeps every variable in its type.
LEMMA TypeStep == TypeOK /\ [Next]_vars => TypeOK'
<1> SUFFICES ASSUME TypeOK, [Next]_vars
             PROVE  TypeOK'
  OBVIOUS
<1> USE DEF Locations
<1>1. CASE Configure
  <2>1. PICK n \in SampleChoices : \E s \in SoiChoices[board, n] :
              /\ samples' = n
              /\ soi' = SanitizedSoi(n, s)
              /\ l1aPerRor' = KeptL1AperROR(n)
    BY <1>1 DEF Configure
  <2>a. PICK s \in SoiChoices[board, n] :
              /\ samples' = n
              /\ soi' = SanitizedSoi(n, s)
              /\ l1aPerRor' = KeptL1AperROR(n)
    BY <2>1
  <2>2. n \in Nat /\ s \in Int
    BY SizeAssumption DEF TypeOK
  <2>3. samples' \in Nat /\ soi' \in Nat /\ l1aPerRor' \in Nat
    BY <2>a, <2>2, SetupType
  <2>4. QED
    BY <1>1, <2>3 DEF Configure, TypeOK, hwVars, histVars
<1>2. CASE DaqReset
  <2>1. Ids(fifo) \subseteq Nat
    BY IdsType DEF TypeOK
  <2>2. fifo' \in Seq(Sample)
    BY <1>2 DEF DaqReset
  <2>3. QED
    BY <1>2, <2>1, <2>2 DEF DaqReset, TypeOK
<1>3. CASE ClearRun
  <2>1. Ids(frontend) \subseteq Nat
    BY IdsType DEF TypeOK
  <2>2. frontend' \in Seq(Sample)
    BY <1>3 DEF ClearRun
  <2>3. QED
    BY <1>3, <2>1, <2>2 DEF ClearRun, TypeOK
<1>4. CASE ApplyPoint
  BY <1>4 DEF ApplyPoint, TypeOK, histVars
<1>5. CASE EndPoint
  BY <1>5 DEF EndPoint, TypeOK, histVars
<1>6. CASE EndScan
  BY <1>6 DEF EndScan, TypeOK, hwVars, histVars
<1>7. CASE SendL1A
  <2>1. l1a' \in Nat /\ frontend' \in Seq(Sample)
    BY <1>7, RorType, L1AType DEF SendL1A
  <2>2. QED
    BY <1>7, <2>1 DEF SendL1A, TypeOK, histVars
<1>8. CASE EndROR
  BY <1>8 DEF EndROR, TypeOK, hwVars, histVars
<1>9. CASE StartRead
  BY <1>9 DEF StartRead, TypeOK, hwVars, histVars
<1>10. CASE SkipEvent
  BY <1>10 DEF SkipEvent, NextEvent, TypeOK, hwVars, histVars
<1>11. CASE GetLinkData
  <2>1. [index |-> Len(buf), soi |-> Len(buf) = soi, data |-> LinkData] \in Subpacket
    BY LinkDataType DEF Subpacket, TypeOK
  <2>2. buf' \in Seq(Subpacket)
    BY <1>11, <2>1 DEF GetLinkData, TypeOK
  <2>3. QED
    BY <1>11, <2>2 DEF GetLinkData, TypeOK, hwVars, histVars
<1>12. CASE AdvanceLinkReadPtr
  <2>1. LinkData.id \in Nat
    BY LinkDataType DEF Sample, NoSample
  <2>2. fifo' \in Seq(Sample)
    BY <1>12 DEF AdvanceLinkReadPtr, TypeOK
  <2>3. lost' \subseteq Nat
    BY <1>12, <2>1 DEF AdvanceLinkReadPtr, TypeOK
  <2>4. QED
    BY <1>12, <2>2, <2>3 DEF AdvanceLinkReadPtr, TypeOK
<1>13. CASE Consume
  <2>1. [scan |-> scan + 1, point |-> point, ievt |-> ievt, subpackets |-> buf] \in Event
    BY DEF Event, TypeOK
  <2>2. delivered' \in Seq(Event)
    BY <1>13, <2>1 DEF Consume, TypeOK
  <2>3. QED
    BY <1>13, <2>2 DEF Consume, NextEvent, TypeOK, hwVars
<1>14. CASE Arrive
  <2>1. Head(frontend) \in Sample /\ Tail(frontend) \in Seq(Sample)
    BY <1>14 DEF Arrive, TypeOK
  <2>2. QED
    BY <1>14, <2>1 DEF Arrive, TypeOK, progVars, histVars
<1>15. CASE ExternalTrigger
  <2>1. External \in Nat \X Nat \X Nat
    BY DEF External
  <2>2. l1a' \in Nat /\ frontend' \in Seq(Sample)
    BY <1>15, <2>1, L1AType DEF ExternalTrigger
  <2>3. QED
    BY <1>15, <2>2 DEF ExternalTrigger, TypeOK, progVars, histVars
<1>16. CASE UNCHANGED vars
  BY <1>16 DEF TypeOK, vars, progVars, hwVars, histVars
<1>18. CASE MergeL1A
  BY <1>18 DEF MergeL1A, TypeOK, hwVars, histVars
<1>17. QED
  BY <1>1, <1>2, <1>3, <1>4, <1>5, <1>6, <1>7, <1>8, <1>9, <1>10, <1>11, <1>12,
     <1>13, <1>14, <1>15, <1>16, <1>18 DEF Next, Program, Terminated

\* Type correctness: every variable keeps its type in every state of a session
\* (all the code DaqRun models).
THEOREM TypeCorrect == Spec => []TypeOK
<1>1. Init => TypeOK
  BY DEF Init, TypeOK, Locations
<1>2. QED
  BY <1>1, TypeStep, PTL DEF Spec
-----------------------------------------------------------------------------
(***************************************************************************)
(* InOrder.  It is not inductive by itself: that a sample read now is      *)
(* younger than all the written ones follows from the order of the queues  *)
(* between the front-end and the program, and, between getLinkData and     *)
(* advanceLinkReadPtr, from the one sample that is in both the event under *)
(* construction and the FIFO.                                              *)
(***************************************************************************)
Increasing(q) == \A i, j \in DOMAIN q : i < j => q[i].id < q[j].id

QueueOrder ==
    /\ Increasing(fifo) /\ Increasing(frontend)
    /\ \A i \in DOMAIN fifo, j \in DOMAIN frontend : fifo[i].id < frontend[j].id
    /\ \A i \in DOMAIN fifo : fifo[i].id <= l1a
    /\ \A j \in DOMAIN frontend : frontend[j].id <= l1a

\* The last subpacket of the event under construction holds the head of the FIFO.
IsPeeked(i, k) ==
    pc = "advance" /\ i = Len(delivered) + 1 /\ k = Len(buf)

ReadOrder ==
    \A i \in DOMAIN Batches : \A k \in DOMAIN Batches[i] :
        /\ Batches[i][k].data.id <= l1a
        /\ \A j \in DOMAIN frontend : Batches[i][k].data.id < frontend[j].id
        /\ \A j \in DOMAIN fifo :
              \/ Batches[i][k].data.id < fifo[j].id
              \/ IsPeeked(i, k) /\ j = 1 /\ Batches[i][k].data.id = fifo[1].id

OrderInv == TypeOK /\ QueueOrder /\ ReadOrder /\ InOrder

\* What Batches is made of.
BatchesAreEvents ==
    /\ DOMAIN Batches = 1..(Len(delivered) + 1)
    /\ \A i \in DOMAIN delivered :
          i \in 1..Len(delivered) /\ Batches[i] = delivered[i].subpackets
    /\ Batches[Len(delivered) + 1] = buf
    /\ \A i \in DOMAIN Batches : Batches[i] \in Seq(Subpacket)

\* The batches are the subpackets of the delivered events and then buf.
LEMMA BatchesShape == TypeOK => BatchesAreEvents
<1> SUFFICES ASSUME TypeOK PROVE BatchesAreEvents
  OBVIOUS
<1> DEFINE Past == [i \in DOMAIN delivered |-> delivered[i].subpackets]
<1>1. \A i \in DOMAIN delivered : delivered[i].subpackets \in Seq(Subpacket)
  <2>1. delivered \in Seq(Event)
    BY DEF TypeOK
  <2>2. \A i \in DOMAIN delivered : delivered[i] \in Event
    BY <2>1
  <2>3. QED
    BY <2>2 DEF Event
<1>2. DOMAIN delivered = 1..Len(delivered) /\ Len(delivered) \in Nat
  BY DEF TypeOK
<1>3. Past \in Seq(Seq(Subpacket)) /\ Len(Past) = Len(delivered)
  <2>1. Past \in [1..Len(delivered) -> Seq(Subpacket)]
    BY <1>1, <1>2
  <2> HIDE DEF Past
  <2>2. Past \in Seq(Seq(Subpacket))
    BY <1>2, <2>1, SeqDef
  <2>3. DOMAIN Past = 1..Len(Past) /\ Len(Past) \in Nat /\ DOMAIN Past = 1..Len(delivered)
    BY <2>1, <2>2, LenProperties
  <2>4. \A m, n \in Nat : 1..m = 1..n => m = n
    <3> SUFFICES ASSUME NEW m \in Nat, NEW n \in Nat, 1..m = 1..n, m < n
                 PROVE  FALSE
      BY SMT
    <3>1. n \in 1..n /\ n \notin 1..m
      OBVIOUS
    <3>2. QED
      BY <3>1
  <2>5. QED
    BY <1>2, <2>2, <2>3, <2>4
<1>4. buf \in Seq(Subpacket)
  BY DEF TypeOK
<1>5. Batches = Append(Past, buf)
  BY DEF Batches
<1> HIDE DEF Past
<1>6. /\ DOMAIN Batches = 1..(Len(delivered) + 1)
      /\ \A i \in 1..Len(delivered) : Batches[i] = Past[i]
      /\ Batches[Len(delivered) + 1] = buf
      /\ Batches \in Seq(Seq(Subpacket))
  BY <1>2, <1>3, <1>4, <1>5
<1>7. \A i \in DOMAIN delivered : Past[i] = delivered[i].subpackets
  BY DEF Past
<1>8. QED
  BY <1>2, <1>6, <1>7 DEF BatchesAreEvents

\* What a read returned carries the number of an L1A, or 0.
LEMMA ReadId ==
  ASSUME TypeOK, NEW i \in DOMAIN Batches, NEW k \in DOMAIN Batches[i]
  PROVE  Batches[i][k].data.id \in Nat
<1>1. Batches[i] \in Seq(Subpacket)
  BY BatchesShape DEF BatchesAreEvents
<1>2. Batches[i][k] \in Subpacket
  BY <1>1
<1>3. QED
  BY <1>2 DEF Subpacket, Sample, NoSample

\* Every sample on its way or in the FIFO carries a positive number.
LEMMA QueuedId ==
  ASSUME TypeOK
  PROVE  /\ \A j \in DOMAIN fifo : fifo[j].id \in Nat \ {0}
         /\ \A j \in DOMAIN frontend : frontend[j].id \in Nat \ {0}
<1>1. fifo \in Seq(Sample) /\ frontend \in Seq(Sample)
  BY DEF TypeOK
<1>2. /\ \A j \in DOMAIN fifo : fifo[j] \in Sample
      /\ \A j \in DOMAIN frontend : frontend[j] \in Sample
  BY <1>1
<1>3. QED
  BY <1>2 DEF Sample

\* A step that leaves the events alone leaves the batches alone.
LEMMA SameBatches ==
  ASSUME UNCHANGED <<delivered, buf>>
  PROVE  Batches' = Batches
<1>1. delivered' = delivered /\ buf' = buf
  OBVIOUS
<1>2. QED
  BY <1>1, SMT DEF Batches

\* A step that at most drops samples or subpackets preserves the order.
LEMMA FewerOrder ==
  ASSUME OrderInv, pc # "advance", l1a' = l1a,
         fifo' = fifo \/ fifo' = <<>>,
         frontend' = frontend \/ frontend' = <<>>,
         \A i \in DOMAIN Batches' : \A k \in DOMAIN Batches'[i] :
             /\ i \in DOMAIN Batches /\ k \in DOMAIN Batches[i]
             /\ Batches'[i][k] = Batches[i][k]
  PROVE  QueueOrder' /\ ReadOrder' /\ InOrder'
<1>1. /\ \A j \in DOMAIN fifo' : j \in DOMAIN fifo /\ fifo'[j] = fifo[j]
      /\ \A j \in DOMAIN frontend' : j \in DOMAIN frontend /\ frontend'[j] = frontend[j]
  OBVIOUS
<1>2. QueueOrder'
  BY <1>1 DEF OrderInv, QueueOrder, Increasing
<1>3. ReadOrder'
  BY <1>1 DEF OrderInv, ReadOrder, IsPeeked
<1>4. InOrder'
  BY DEF OrderInv, InOrder
<1>5. QED
  BY <1>2, <1>3, <1>4

\* A captured sample is younger than all the others.
LEMMA L1AOrder ==
  ASSUME OrderInv, NEW ror, L1A(ror), UNCHANGED <<delivered, buf, fifo, pc>>
  PROVE  QueueOrder' /\ ReadOrder' /\ InOrder'
<1> DEFINE new == [id |-> l1a + 1, ror |-> ror, tag |-> roc]
<1>1. Batches' = Batches
  BY SameBatches
<1>2. /\ TypeOK /\ l1a \in Nat /\ l1a' = l1a + 1 /\ new.id = l1a + 1
      /\ frontend' = Append(frontend, new)
      /\ frontend \in Seq(Sample)
  BY DEF OrderInv, TypeOK, L1A
<1>3. /\ Len(frontend) \in Nat
      /\ DOMAIN frontend = 1..Len(frontend)
      /\ DOMAIN frontend' = 1..(Len(frontend) + 1)
      /\ \A j \in DOMAIN frontend : frontend'[j] = frontend[j]
      /\ frontend'[Len(frontend) + 1] = new
  BY <1>2
<1> HIDE DEF new
<1>4. QueueOrder'
  BY <1>2, <1>3, QueuedId DEF OrderInv, QueueOrder, Increasing
<1>5. ReadOrder'
  BY <1>1, <1>2, <1>3, ReadId DEF OrderInv, ReadOrder, IsPeeked
<1>6. InOrder'
  BY <1>1 DEF OrderInv, InOrder
<1>7. QED
  BY <1>4, <1>5, <1>6

\* Arrive moves the oldest sample on its way behind the youngest of the FIFO.
LEMMA ArriveOrder ==
  ASSUME OrderInv, Arrive
  PROVE  QueueOrder' /\ ReadOrder' /\ InOrder'
<1>1. Batches' = Batches
  BY SameBatches DEF Arrive, progVars, histVars
<1>2. /\ TypeOK /\ l1a' = l1a /\ pc' = pc /\ buf' = buf /\ delivered' = delivered
      /\ frontend # <<>> /\ fifo' = Append(fifo, Head(frontend))
      /\ frontend' = Tail(frontend)
      /\ frontend \in Seq(Sample) /\ fifo \in Seq(Sample)
  BY DEF OrderInv, TypeOK, Arrive, progVars, histVars
<1>3. /\ Len(frontend) \in Nat /\ Len(fifo) \in Nat
      /\ DOMAIN frontend = 1..Len(frontend) /\ 1 \in DOMAIN frontend
      /\ DOMAIN frontend' = 1..(Len(frontend) - 1)
      /\ \A j \in DOMAIN frontend' : frontend'[j] = frontend[j + 1] /\ j + 1 \in DOMAIN frontend
      /\ DOMAIN fifo = 1..Len(fifo) /\ DOMAIN fifo' = 1..(Len(fifo) + 1)
      /\ \A j \in DOMAIN fifo : fifo'[j] = fifo[j]
      /\ fifo'[Len(fifo) + 1] = frontend[1]
  BY <1>2
<1>4. QueueOrder'
  <2>1. Increasing(fifo) /\ Increasing(frontend)
    BY DEF OrderInv, QueueOrder
  <2>2. Increasing(fifo')
    <3> SUFFICES ASSUME NEW a \in DOMAIN fifo', NEW b \in DOMAIN fifo', a < b
                 PROVE  fifo'[a].id < fifo'[b].id
      BY DEF Increasing
    <3>1. a \in DOMAIN fifo /\ fifo'[a] = fifo[a]
      BY <1>3
    <3>2. CASE b \in DOMAIN fifo
      BY <1>3, <2>1, <3>1, <3>2 DEF Increasing
    <3>3. CASE b = Len(fifo) + 1
      BY <1>3, <3>1, <3>3 DEF OrderInv, QueueOrder
    <3>4. QED
      BY <1>3, <3>2, <3>3
  <2>3. Increasing(frontend')
    BY <1>2, <1>3, <2>1 DEF Increasing
  <2>4. \A i \in DOMAIN fifo', j \in DOMAIN frontend' : fifo'[i].id < frontend'[j].id
    <3> SUFFICES ASSUME NEW a \in DOMAIN fifo', NEW b \in DOMAIN frontend'
                 PROVE  fifo'[a].id < frontend'[b].id
      OBVIOUS
    <3>1. frontend'[b] = frontend[b + 1] /\ b + 1 \in DOMAIN frontend /\ b + 1 > 1
      BY <1>3
    <3>2. CASE a \in DOMAIN fifo
      BY <1>3, <3>1, <3>2 DEF OrderInv, QueueOrder
    <3>3. CASE a = Len(fifo) + 1
      BY <1>3, <2>1, <3>1, <3>3 DEF Increasing
    <3>4. QED
      BY <1>3, <3>2, <3>3
  <2>5. /\ \A i \in DOMAIN fifo' : fifo'[i].id <= l1a'
        /\ \A j \in DOMAIN frontend' : frontend'[j].id <= l1a'
    BY <1>2, <1>3 DEF OrderInv, QueueOrder
  <2>6. QED
    BY <2>2, <2>3, <2>4, <2>5 DEF QueueOrder, Increasing
<1>5. ReadOrder'
  <2> SUFFICES ASSUME NEW i \in DOMAIN Batches, NEW k \in DOMAIN Batches[i]
               PROVE  /\ Batches[i][k].data.id <= l1a
                      /\ \A j \in DOMAIN frontend' : Batches[i][k].data.id < frontend'[j].id
                      /\ \A j \in DOMAIN fifo' :
                            \/ Batches[i][k].data.id < fifo'[j].id
                            \/ IsPeeked(i, k) /\ j = 1 /\ Batches[i][k].data.id = fifo'[1].id
    BY <1>1, <1>2 DEF ReadOrder, IsPeeked
  <2>1. /\ Batches[i][k].data.id <= l1a
        /\ \A j \in DOMAIN frontend : Batches[i][k].data.id < frontend[j].id
        /\ \A j \in DOMAIN fifo :
              \/ Batches[i][k].data.id < fifo[j].id
              \/ IsPeeked(i, k) /\ j = 1 /\ Batches[i][k].data.id = fifo[1].id
    BY DEF OrderInv, ReadOrder
  <2>2. QED
    BY <1>3, <2>1
<1>6. InOrder'
  BY <1>1 DEF OrderInv, InOrder
<1>7. QED
  BY <1>4, <1>5, <1>6

\* getLinkData returns the first of the queued samples, or none when there is none.
LEMMA LinkDataCases ==
  ASSUME fifo \in Seq(Sample)
  PROVE  \/ LinkData.id = 0 /\ DOMAIN fifo = {}
         \/ 1 \in DOMAIN fifo /\ LinkData.id = fifo[1].id
<1>1. CASE fifo = <<>>
  <2>1. LinkData = NoSample /\ DOMAIN fifo = {}
    BY <1>1 DEF LinkData
  <2>2. QED
    BY <2>1 DEF NoSample
<1>2. CASE fifo # <<>>
  <2>1. LinkData = fifo[1]
    BY <1>2 DEF LinkData
  <2>2. 1 \in DOMAIN fifo
    BY <1>2
  <2>3. QED
    BY <2>1, <2>2
<1>3. QED
  BY <1>1, <1>2

\* A read adds the head of the FIFO, or nothing, behind all that was read.
LEMMA GetLinkDataOrder ==
  ASSUME OrderInv, GetLinkData
  PROVE  QueueOrder' /\ ReadOrder' /\ InOrder'
<1> DEFINE last == Len(delivered) + 1
           sub  == [index |-> Len(buf), soi |-> Len(buf) = soi, data |-> LinkData]
<1>1. /\ TypeOK /\ TypeOK' /\ l1a \in Nat
      /\ pc = "read" /\ pc' = "advance" /\ buf' = Append(buf, sub)
      /\ UNCHANGED <<fifo, frontend, l1a, delivered>>
      /\ buf \in Seq(Subpacket)
  <2>1. TypeOK /\ [Next]_vars
    BY DEF OrderInv, Next, Program
  <2>2. QED
    BY <2>1, TypeStep DEF GetLinkData, hwVars, histVars, TypeOK
<1>2. /\ Len(buf) \in Nat /\ last \in Nat
      /\ DOMAIN buf = 1..Len(buf) /\ DOMAIN buf' = 1..(Len(buf) + 1) /\ Len(buf') = Len(buf) + 1
      /\ \A k \in DOMAIN buf : buf'[k] = buf[k]
      /\ buf'[Len(buf) + 1] = sub
  <2>1. delivered \in Seq(Event)
    BY <1>1 DEF TypeOK
  <2>2. QED
    BY <1>1, <2>1
<1>3. sub.data = LinkData
  OBVIOUS
<1> HIDE DEF sub
<1>4. /\ DOMAIN Batches = 1..last /\ DOMAIN Batches' = 1..last
      /\ Batches[last] = buf /\ Batches'[last] = buf'
      /\ \A i \in 1..last : i # last => Batches'[i] = Batches[i]
  <2>1. DOMAIN delivered = 1..Len(delivered) /\ delivered' = delivered
    <3>1. delivered \in Seq(Event)
      BY <1>1 DEF TypeOK
    <3>2. DOMAIN delivered = 1..Len(delivered)
      BY <3>1
    <3>3. QED
      BY <1>1, <3>2
  <2>2. /\ DOMAIN Batches = 1..last /\ Batches[last] = buf
        /\ \A i \in DOMAIN delivered : Batches[i] = delivered[i].subpackets
    BY <1>1, BatchesShape DEF BatchesAreEvents
  <2>3. /\ DOMAIN Batches' = 1..last /\ Batches'[last] = buf'
        /\ \A i \in DOMAIN delivered : Batches'[i] = delivered[i].subpackets
    <3>1. TypeOK' => BatchesAreEvents'
      BY BatchesShape, PTL
    <3>2. QED
      BY <1>1, <2>1, <3>1 DEF BatchesAreEvents
  <2>4. QED
    BY <1>2, <2>1, <2>2, <2>3
<1>5. \/ LinkData.id = 0 /\ DOMAIN fifo = {}
      \/ 1 \in DOMAIN fifo /\ LinkData.id = fifo[1].id
  <2>1. fifo \in Seq(Sample)
    BY <1>1 DEF TypeOK
  <2>2. QED
    BY <2>1, LinkDataCases
<1>6. QueueOrder'
  BY <1>1 DEF OrderInv, QueueOrder, Increasing
<1>7. \A i \in DOMAIN Batches : \A k \in DOMAIN Batches[i] :
         /\ Batches[i][k].data.id <= l1a
         /\ \A j \in DOMAIN frontend : Batches[i][k].data.id < frontend[j].id
         /\ \A j \in DOMAIN fifo : Batches[i][k].data.id < fifo[j].id
  BY <1>1 DEF OrderInv, ReadOrder, IsPeeked
<1>8. \A i \in DOMAIN Batches' : \A k \in DOMAIN Batches'[i] :
         \/ /\ i = last /\ k = Len(buf) + 1 /\ Batches'[i][k] = sub
         \/ /\ i \in DOMAIN Batches /\ k \in DOMAIN Batches[i]
            /\ Batches'[i][k] = Batches[i][k]
  BY <1>2, <1>4
<1>9. ReadOrder'
  <2> SUFFICES ASSUME NEW i \in DOMAIN Batches', NEW k \in DOMAIN Batches'[i]
               PROVE  /\ Batches'[i][k].data.id <= l1a
                      /\ \A j \in DOMAIN frontend : Batches'[i][k].data.id < frontend[j].id
                      /\ \A j \in DOMAIN fifo :
                            \/ Batches'[i][k].data.id < fifo[j].id
                            \/ /\ i = last /\ k = Len(buf') /\ j = 1
                               /\ Batches'[i][k].data.id = fifo[1].id
    BY <1>1 DEF ReadOrder, IsPeeked
  <2>1. CASE i \in DOMAIN Batches /\ k \in DOMAIN Batches[i] /\ Batches'[i][k] = Batches[i][k]
    BY <1>7, <2>1
  <2>2. CASE i = last /\ k = Len(buf) + 1 /\ Batches'[i][k] = sub
    <3>1. Batches'[i][k].data.id = LinkData.id
      BY <1>3, <2>2
    <3>2. CASE LinkData.id = 0 /\ DOMAIN fifo = {}
      <4>1. /\ l1a \in Nat /\ frontend \in Seq(Sample)
            /\ Batches'[i][k].data.id = 0 /\ DOMAIN fifo = {}
        BY <1>1, <3>1, <3>2 DEF TypeOK
      <4>2. \A j \in DOMAIN frontend : 0 < frontend[j].id
        <5>1. \A j \in DOMAIN frontend : frontend[j].id \in Nat \ {0}
          BY QueuedId DEF OrderInv
        <5>2. QED
          BY <5>1
      <4>3. QED
        BY <4>1, <4>2
    <3>3. CASE 1 \in DOMAIN fifo /\ LinkData.id = fifo[1].id
      <4>1. /\ fifo[1].id <= l1a
            /\ \A j \in DOMAIN frontend : fifo[1].id < frontend[j].id
            /\ \A j \in DOMAIN fifo : 1 < j => fifo[1].id < fifo[j].id
        <5>1. QueueOrder
          BY DEF OrderInv
        <5>2. /\ Increasing(fifo)
              /\ \A a \in DOMAIN fifo, b \in DOMAIN frontend : fifo[a].id < frontend[b].id
              /\ \A a \in DOMAIN fifo : fifo[a].id <= l1a
          BY <5>1 DEF QueueOrder
        <5>3. \A j \in DOMAIN fifo : 1 < j => fifo[1].id < fifo[j].id
          BY <3>3, <5>2 DEF Increasing
        <5>4. QED
          BY <3>3, <5>2, <5>3
      <4>2. fifo \in Seq(Sample)
        BY DEF OrderInv, TypeOK
      <4>3. \A j \in DOMAIN fifo : j = 1 \/ 1 < j
        BY <4>2
      <4>4. k = Len(buf')
        BY <1>2, <2>2
      <4>5. Batches'[i][k].data.id = fifo[1].id
        BY <3>1, <3>3
      <4>6. QED
        BY <2>2, <4>1, <4>3, <4>4, <4>5
    <3>4. QED
      BY <1>5, <3>2, <3>3
  <2>3. QED
    BY <1>8, <2>1, <2>2
<1>10. InOrder'
  <2> SUFFICES ASSUME NEW i \in DOMAIN Batches', NEW j \in DOMAIN Batches',
                      NEW k \in DOMAIN Batches'[i], NEW m \in DOMAIN Batches'[j],
                      i < j \/ (i = j /\ k < m),
                      Batches'[i][k].data.id # 0, Batches'[j][m].data.id # 0
               PROVE  Batches'[i][k].data.id < Batches'[j][m].data.id
    BY DEF InOrder
  <2>1. /\ i \in DOMAIN Batches /\ k \in DOMAIN Batches[i]
        /\ Batches'[i][k] = Batches[i][k]
    BY <1>2, <1>4, <1>8
  <2>2. CASE j \in DOMAIN Batches /\ m \in DOMAIN Batches[j] /\ Batches'[j][m] = Batches[j][m]
    BY <2>1, <2>2 DEF OrderInv, InOrder
  <2>3. CASE Batches'[j][m] = sub
    BY <1>3, <1>5, <1>7, <2>1, <2>3
  <2>4. QED
    BY <1>8, <2>2, <2>3
<1>11. QED
  BY <1>6, <1>9, <1>10

\* Advancing drops the head of the FIFO, the only sample that may also be read.
LEMMA AdvanceOrder ==
  ASSUME OrderInv, AdvanceLinkReadPtr
  PROVE  QueueOrder' /\ ReadOrder' /\ InOrder'
<1>1. /\ TypeOK /\ pc' = "read"
      /\ UNCHANGED <<buf, frontend, l1a, delivered>>
      /\ fifo \in Seq(Sample)
      /\ fifo' = IF fifo = <<>> THEN fifo ELSE Tail(fifo)
  BY DEF OrderInv, TypeOK, AdvanceLinkReadPtr
<1>2. Batches' = Batches
  BY <1>1, SameBatches
<1>3. \A j \in DOMAIN fifo' : /\ j \in Nat \ {0} /\ j + 1 \in DOMAIN fifo
                              /\ fifo'[j] = fifo[j + 1]
  BY <1>1
<1>4. QueueOrder'
  BY <1>1, <1>3 DEF OrderInv, QueueOrder, Increasing
<1>5. ReadOrder'
  <2> SUFFICES ASSUME NEW i \in DOMAIN Batches, NEW k \in DOMAIN Batches[i]
               PROVE  /\ Batches[i][k].data.id <= l1a
                      /\ \A j \in DOMAIN frontend : Batches[i][k].data.id < frontend[j].id
                      /\ \A j \in DOMAIN fifo' : Batches[i][k].data.id < fifo'[j].id
    BY <1>1, <1>2 DEF ReadOrder
  <2>1. /\ Batches[i][k].data.id <= l1a
        /\ \A j \in DOMAIN frontend : Batches[i][k].data.id < frontend[j].id
        /\ \A j \in DOMAIN fifo : j # 1 => Batches[i][k].data.id < fifo[j].id
    BY DEF OrderInv, ReadOrder
  <2>2. QED
    BY <1>3, <2>1
<1>6. InOrder'
  BY <1>2 DEF OrderInv, InOrder
<1>7. QED
  BY <1>4, <1>5, <1>6

\* Starting to read forgets at most the event under construction.
LEMMA StartReadBatches ==
  ASSUME TypeOK, StartRead
  PROVE  \A i \in DOMAIN Batches' : \A k \in DOMAIN Batches'[i] :
             /\ i \in DOMAIN Batches /\ k \in DOMAIN Batches[i]
             /\ Batches'[i][k] = Batches[i][k]
<1>1. TypeOK' /\ buf' = <<>> /\ delivered' = delivered
  BY TypeStep DEF StartRead, Next, Program, histVars
<1>2. BatchesAreEvents /\ BatchesAreEvents'
  <2>1. TypeOK' => BatchesAreEvents'
    BY BatchesShape, PTL
  <2>2. QED
    BY <1>1, <2>1, BatchesShape
<1>3. DOMAIN delivered = 1..Len(delivered) /\ Len(delivered) \in Nat
  BY DEF TypeOK
<1>4. QED
  BY <1>1, <1>2, <1>3 DEF BatchesAreEvents

\* Consuming an event turns the batch under construction into a written one.
LEMMA ConsumeBatches ==
  ASSUME TypeOK, Consume
  PROVE  \A i \in DOMAIN Batches' : \A k \in DOMAIN Batches'[i] :
             /\ i \in DOMAIN Batches /\ k \in DOMAIN Batches[i]
             /\ Batches'[i][k] = Batches[i][k]
<1> DEFINE e == [scan |-> scan + 1, point |-> point, ievt |-> ievt, subpackets |-> buf]
<1>1. TypeOK' /\ buf' = <<>> /\ delivered' = Append(delivered, e)
  BY TypeStep DEF Consume, Next, Program
<1>2. BatchesAreEvents /\ BatchesAreEvents'
  <2>1. TypeOK' => BatchesAreEvents'
    BY BatchesShape, PTL
  <2>2. QED
    BY <1>1, <2>1, BatchesShape
<1>3. e \in Event /\ e.subpackets = buf
  BY DEF TypeOK, Event
<1> HIDE DEF e
<1>4. /\ Len(delivered) \in Nat /\ Len(delivered') = Len(delivered) + 1
      /\ DOMAIN delivered = 1..Len(delivered)
      /\ DOMAIN delivered' = 1..(Len(delivered) + 1)
      /\ \A i \in DOMAIN delivered : delivered'[i] = delivered[i]
      /\ delivered'[Len(delivered) + 1] = e
  <2>1. delivered \in Seq(Event)
    BY DEF TypeOK
  <2>2. QED
    BY <1>1, <1>3, <2>1
<1>5. /\ Batches'[Len(delivered) + 1] = buf
      /\ \A i \in DOMAIN delivered : Batches'[i] = Batches[i]
      /\ Batches'[Len(delivered) + 2] = <<>>
      /\ DOMAIN Batches' = 1..(Len(delivered) + 2)
  BY <1>1, <1>2, <1>3, <1>4 DEF BatchesAreEvents
<1>6. QED
  BY <1>2, <1>4, <1>5 DEF BatchesAreEvents

\* Every step of a session preserves the order.
LEMMA OrderStep == OrderInv /\ [Next]_vars => OrderInv'
<1> SUFFICES ASSUME OrderInv, [Next]_vars
             PROVE  QueueOrder' /\ ReadOrder' /\ InOrder'
  BY TypeStep DEF OrderInv
<1>a. TypeOK /\ TypeOK'
  BY TypeStep DEF OrderInv
<1>b. ASSUME UNCHANGED <<buf, delivered>>, pc # "advance", l1a' = l1a,
             fifo' = fifo \/ fifo' = <<>>, frontend' = frontend \/ frontend' = <<>>
      PROVE  QueueOrder' /\ ReadOrder' /\ InOrder'
  <2>1. Batches' = Batches
    BY <1>b, SameBatches
  <2>2. QED
    BY <1>b, <2>1, FewerOrder
<1>1. CASE Configure
  BY <1>1, <1>b DEF Configure, hwVars, histVars
<1>2. CASE DaqReset
  BY <1>2, <1>b DEF DaqReset
<1>3. CASE ClearRun
  BY <1>3, <1>b DEF ClearRun
<1>4. CASE ApplyPoint
  BY <1>4, <1>b DEF ApplyPoint, histVars
<1>5. CASE EndPoint
  BY <1>5, <1>b DEF EndPoint, histVars
<1>6. CASE EndScan
  BY <1>6, <1>b DEF EndScan, hwVars, histVars
<1>7. CASE SendL1A
  BY <1>7, L1AOrder DEF SendL1A, histVars
<1>8. CASE EndROR
  BY <1>8, <1>b DEF EndROR, hwVars, histVars
<1>9. CASE StartRead
  <2>1. pc # "advance" /\ UNCHANGED <<l1a, fifo, frontend>>
    BY <1>9 DEF StartRead, hwVars
  <2>2. QED
    BY <1>9, <1>a, <2>1, StartReadBatches, FewerOrder
<1>10. CASE SkipEvent
  BY <1>10, <1>b DEF SkipEvent, hwVars, histVars
<1>11. CASE GetLinkData
  BY <1>11, GetLinkDataOrder
<1>12. CASE AdvanceLinkReadPtr
  BY <1>12, AdvanceOrder
<1>13. CASE Consume
  <2>1. pc # "advance" /\ UNCHANGED <<l1a, fifo, frontend>>
    BY <1>13 DEF Consume, hwVars
  <2>2. QED
    BY <1>13, <1>a, <2>1, ConsumeBatches, FewerOrder
<1>14. CASE Arrive
  BY <1>14, ArriveOrder
<1>15. CASE ExternalTrigger
  BY <1>15, L1AOrder DEF ExternalTrigger, progVars, histVars
<1>16. CASE UNCHANGED vars
  <2>1. UNCHANGED <<pc, buf, delivered, fifo, frontend, l1a>>
    BY <1>16 DEF vars, progVars, hwVars, histVars
  <2>2. Batches' = Batches
    BY <2>1, SameBatches
  <2>3. QED
    BY <2>1, <2>2 DEF OrderInv, QueueOrder, Increasing, ReadOrder, IsPeeked, InOrder
<1>18. CASE MergeL1A
  BY <1>18, <1>b DEF MergeL1A, hwVars, histVars
<1>17. QED
  BY <1>1, <1>2, <1>3, <1>4, <1>5, <1>6, <1>7, <1>8, <1>9, <1>10, <1>11, <1>12,
     <1>13, <1>14, <1>15, <1>16, <1>18 DEF Next, Program, Terminated

\* InOrder for every board, size and timing: a session never writes a sample
\* twice nor after a younger one (DAQ::read_event_sw_headers with getLinkData and
\* advanceLinkReadPtr, under daq_run and setup_run).
THEOREM OrderCorrect == Spec => []InOrder
<1>1. Init => OrderInv
  <2> SUFFICES ASSUME Init PROVE OrderInv
    OBVIOUS
  <2>1. TypeOK
    BY DEF Init, TypeOK, Locations
  <2>2. \A i \in DOMAIN Batches : Batches[i] = <<>>
    BY <2>1, BatchesShape DEF BatchesAreEvents, Init
  <2>3. QED
    BY <2>1, <2>2 DEF Init, OrderInv, QueueOrder, Increasing, ReadOrder, InOrder
<1>2. OrderInv => InOrder
  BY DEF OrderInv
<1>3. QED
  BY <1>1, <1>2, OrderStep, PTL DEF Spec
-----------------------------------------------------------------------------
(***************************************************************************)
(* SettingHeld.  What carries it is where the scope of a point begins and  *)
(* ends: from ApplyPoint to EndPoint the chip has the setting of the point *)
(* the program is at, so that is what an L1A finds when it is sent; from   *)
(* then on a sample keeps its tag through the queues and into the events.  *)
(***************************************************************************)
Honest(d) == d.ror # External => d.tag = d.ror[2]

InScope == pc \in {"trigger", "pause", "read", "advance", "test_end"}

HonestQueues ==
    /\ \A j \in DOMAIN frontend : Honest(frontend[j])
    /\ \A j \in DOMAIN fifo : Honest(fifo[j])

HonestBuf == \A k \in DOMAIN buf : Honest(buf[k].data)

HonestEvents ==
    \A i \in DOMAIN delivered : \A k \in DOMAIN delivered[i].subpackets :
        Honest(delivered[i].subpackets[k].data)

SettingInv ==
    /\ TypeOK
    /\ InScope => roc = point
    /\ HonestQueues /\ HonestBuf /\ HonestEvents

\* An L1A the program sends inside the scope of its point, and one it does not
\* send, both find the setting their sample is to carry.
LEMMA L1ASetting ==
  ASSUME SettingInv, NEW ror, L1A(ror), ror = External \/ (pc = "trigger" /\ ror = Ror)
  PROVE  \A j \in DOMAIN frontend' : Honest(frontend'[j])
<1> DEFINE new == [id |-> l1a + 1, ror |-> ror, tag |-> roc]
<1>1. frontend \in Seq(Sample) /\ frontend' = Append(frontend, new)
  BY DEF SettingInv, TypeOK, L1A
<1>2. Honest(new)
  BY DEF SettingInv, InScope, Honest, Ror
<1> HIDE DEF new
<1>3. /\ DOMAIN frontend' = 1..(Len(frontend) + 1)
      /\ DOMAIN frontend = 1..Len(frontend) /\ Len(frontend) \in Nat
      /\ \A j \in DOMAIN frontend : frontend'[j] = frontend[j]
      /\ frontend'[Len(frontend) + 1] = new
  BY <1>1
<1>4. QED
  BY <1>2, <1>3 DEF SettingInv, HonestQueues

\* A step inside or outside a scope that only drops samples keeps all the rest.
LEMMA FewerSetting ==
  ASSUME SettingInv, UNCHANGED delivered,
         buf' = buf \/ buf' = <<>>,
         fifo' = fifo \/ fifo' = <<>>,
         frontend' = frontend \/ frontend' = <<>>
  PROVE  HonestQueues' /\ HonestBuf' /\ HonestEvents'
<1>1. HonestQueues'
  BY DEF SettingInv, HonestQueues
<1>2. HonestBuf'
  BY DEF SettingInv, HonestBuf
<1>3. HonestEvents'
  BY DEF SettingInv, HonestEvents
<1>4. QED
  BY <1>1, <1>2, <1>3

\* Every step keeps the samples true to the setting they were taken under.
LEMMA SettingStep == SettingInv /\ [Next]_vars => SettingInv'
<1> SUFFICES ASSUME SettingInv, [Next]_vars
             PROVE  /\ InScope' => roc' = point'
                    /\ HonestQueues' /\ HonestBuf' /\ HonestEvents'
  BY TypeStep DEF SettingInv
<1>a. TypeOK /\ (InScope => roc = point)
  BY DEF SettingInv
<1>1. CASE Configure
  BY <1>1, <1>a, FewerSetting DEF Configure, InScope, hwVars, histVars
<1>2. CASE DaqReset
  BY <1>2, FewerSetting DEF DaqReset, InScope
<1>3. CASE ClearRun
  BY <1>3, FewerSetting DEF ClearRun, InScope
<1>4. CASE ApplyPoint
  BY <1>4, FewerSetting DEF ApplyPoint, InScope, histVars
<1>5. CASE EndPoint
  BY <1>5, FewerSetting DEF EndPoint, InScope, histVars
<1>6. CASE EndScan
  BY <1>6, FewerSetting DEF EndScan, InScope, hwVars, histVars
<1>7. CASE SendL1A
  <2>1. \A j \in DOMAIN frontend' : Honest(frontend'[j])
    BY <1>7, L1ASetting DEF SendL1A
  <2>2. HonestQueues' /\ HonestBuf' /\ HonestEvents'
    BY <1>7, <2>1 DEF SendL1A, SettingInv, HonestQueues, HonestBuf, HonestEvents, histVars
  <2>3. QED
    BY <1>7, <1>a, <2>2 DEF SendL1A, InScope
<1>8. CASE EndROR
  BY <1>8, <1>a, FewerSetting DEF EndROR, InScope, hwVars, histVars
<1>9. CASE StartRead
  BY <1>9, <1>a, FewerSetting DEF StartRead, InScope, hwVars, histVars
<1>10. CASE SkipEvent
  BY <1>10, <1>a, FewerSetting DEF SkipEvent, NextEvent, InScope, hwVars, histVars
<1>11. CASE GetLinkData
  <2> DEFINE sub == [index |-> Len(buf), soi |-> Len(buf) = soi, data |-> LinkData]
  <2>1. Honest(sub.data)
    BY DEF SettingInv, HonestQueues, TypeOK, LinkData, NoSample, Honest
  <2>2. buf \in Seq(Subpacket) /\ buf' = Append(buf, sub) /\ sub \in Subpacket
    BY <1>11, <1>a, LinkDataType DEF GetLinkData, TypeOK, Subpacket
  <2> HIDE DEF sub
  <2>3. /\ DOMAIN buf' = 1..(Len(buf) + 1)
        /\ DOMAIN buf = 1..Len(buf) /\ Len(buf) \in Nat
        /\ \A k \in DOMAIN buf : buf'[k] = buf[k]
        /\ buf'[Len(buf) + 1] = sub
    BY <2>2
  <2>4. HonestBuf'
    BY <2>1, <2>3 DEF SettingInv, HonestBuf
  <2>5. HonestQueues' /\ HonestEvents'
    BY <1>11 DEF GetLinkData, SettingInv, HonestQueues, HonestEvents, hwVars, histVars
  <2>6. QED
    BY <1>11, <1>a, <2>4, <2>5 DEF GetLinkData, InScope, hwVars
<1>12. CASE AdvanceLinkReadPtr
  <2>1. \A j \in DOMAIN fifo' : Honest(fifo'[j])
    BY <1>12, <1>a DEF AdvanceLinkReadPtr, SettingInv, HonestQueues, TypeOK
  <2>2. HonestQueues' /\ HonestBuf' /\ HonestEvents'
    BY <1>12, <2>1 DEF AdvanceLinkReadPtr, SettingInv, HonestQueues, HonestBuf, HonestEvents
  <2>3. QED
    BY <1>12, <1>a, <2>2 DEF AdvanceLinkReadPtr, InScope
<1>13. CASE Consume
  <2> DEFINE e == [scan |-> scan + 1, point |-> point, ievt |-> ievt, subpackets |-> buf]
  <2>1. e \in Event /\ e.subpackets = buf
    BY <1>a DEF TypeOK, Event
  <2>2. delivered \in Seq(Event) /\ delivered' = Append(delivered, e)
    BY <1>13, <1>a DEF Consume, TypeOK
  <2> HIDE DEF e
  <2>3. /\ DOMAIN delivered' = 1..(Len(delivered) + 1)
        /\ DOMAIN delivered = 1..Len(delivered) /\ Len(delivered) \in Nat
        /\ \A i \in DOMAIN delivered : delivered'[i] = delivered[i]
        /\ delivered'[Len(delivered) + 1] = e
    BY <2>1, <2>2
  <2>4. HonestEvents'
    BY <2>1, <2>3 DEF SettingInv, HonestBuf, HonestEvents
  <2>5. HonestQueues' /\ HonestBuf'
    BY <1>13 DEF Consume, SettingInv, HonestQueues, HonestBuf, hwVars
  <2>6. QED
    BY <1>13, <1>a, <2>4, <2>5 DEF Consume, NextEvent, InScope, hwVars
<1>14. CASE Arrive
  <2>1. /\ frontend \in Seq(Sample) /\ frontend # <<>> /\ fifo \in Seq(Sample)
        /\ fifo' = Append(fifo, Head(frontend)) /\ frontend' = Tail(frontend)
    BY <1>14, <1>a DEF Arrive, TypeOK
  <2>2. Head(frontend) \in Sample /\ Honest(Head(frontend))
    BY <2>1 DEF SettingInv, HonestQueues
  <2>3. \A j \in DOMAIN fifo' : Honest(fifo'[j])
    <3> DEFINE h == Head(frontend)
    <3>1. h \in Sample /\ Honest(h) /\ fifo' = Append(fifo, h)
      BY <2>1, <2>2
    <3> HIDE DEF h
    <3>2. \A j \in DOMAIN fifo' : fifo'[j] = h \/ (j \in DOMAIN fifo /\ fifo'[j] = fifo[j])
      BY <2>1, <3>1
    <3>3. QED
      BY <3>1, <3>2 DEF SettingInv, HonestQueues
  <2>4. \A j \in DOMAIN frontend' : Honest(frontend'[j])
    BY <2>1 DEF SettingInv, HonestQueues
  <2>5. HonestQueues' /\ HonestBuf' /\ HonestEvents'
    BY <1>14, <2>3, <2>4
    DEF Arrive, SettingInv, HonestQueues, HonestBuf, HonestEvents, progVars, histVars
  <2>6. QED
    BY <1>14, <1>a, <2>5 DEF Arrive, InScope, progVars
<1>15. CASE ExternalTrigger
  <2>1. \A j \in DOMAIN frontend' : Honest(frontend'[j])
    BY <1>15, L1ASetting DEF ExternalTrigger
  <2>2. HonestQueues' /\ HonestBuf' /\ HonestEvents'
    BY <1>15, <2>1
    DEF ExternalTrigger, SettingInv, HonestQueues, HonestBuf, HonestEvents, progVars, histVars
  <2>3. QED
    BY <1>15, <1>a, <2>2 DEF ExternalTrigger, InScope, progVars
<1>16. CASE UNCHANGED vars
  BY <1>16, <1>a, FewerSetting DEF vars, progVars, hwVars, histVars, InScope
<1>18. CASE MergeL1A
  BY <1>18, <1>a, FewerSetting DEF MergeL1A, InScope, hwVars, histVars
<1>17. QED
  BY <1>1, <1>2, <1>3, <1>4, <1>5, <1>6, <1>7, <1>8, <1>9, <1>10, <1>11, <1>12,
     <1>13, <1>14, <1>15, <1>16, <1>18 DEF Next, Program, Terminated

\* SettingHeld for every board, size and timing: whatever is read when and filed
\* where, a sample was taken under the point its trigger was sent for
\* (testParameters around daq_run in the tasks, FastControl::sendROR).
THEOREM SettingCorrect == Spec => []SettingHeld
<1>1. Init => SettingInv
  <2> SUFFICES ASSUME Init PROVE SettingInv
    OBVIOUS
  <2>1. TypeOK
    BY DEF Init, TypeOK, Locations
  <2>2. QED
    BY <2>1 DEF Init, SettingInv, InScope, HonestQueues, HonestBuf, HonestEvents
<1>2. SettingInv => SettingHeld
  <2> SUFFICES ASSUME SettingInv PROVE SettingHeld
    OBVIOUS
  <2>1. BatchesAreEvents
    BY BatchesShape DEF SettingInv
  <2>2. \A i \in DOMAIN Batches : \A k \in DOMAIN Batches[i] : Honest(Batches[i][k].data)
    <3> SUFFICES ASSUME NEW i \in DOMAIN Batches, NEW k \in DOMAIN Batches[i]
                 PROVE  Honest(Batches[i][k].data)
      OBVIOUS
    <3>1. CASE i \in DOMAIN delivered
      BY <2>1, <3>1 DEF BatchesAreEvents, SettingInv, HonestEvents
    <3>2. CASE i = Len(delivered) + 1
      BY <2>1, <3>2 DEF BatchesAreEvents, SettingInv, HonestBuf
    <3>3. DOMAIN delivered = 1..Len(delivered) /\ Len(delivered) \in Nat
      BY DEF SettingInv, TypeOK
    <3>4. QED
      BY <2>1, <3>1, <3>2, <3>3 DEF BatchesAreEvents
  <2>3. QED
    BY <2>2 DEF SettingInv, HonestQueues, SettingHeld, Honest
<1>3. QED
  BY <1>1, <1>2, SettingStep, PTL DEF Spec
-----------------------------------------------------------------------------
(***************************************************************************)
(* OneSoi.  The event under construction marks the subpacket after soi     *)
(* others; that this one exists when the event is complete rests on        *)
(* DAQ::setup, and that the choice does not change under way on the buffer *)
(* being empty outside read_event.                                         *)
(***************************************************************************)
\* Exactly one subpacket of an event that has any is marked.
OneMark(s) == s # <<>> => \E k \in DOMAIN s : \A m \in DOMAIN s : s[m].soi = (m = k)

MarkInv ==
    /\ TypeOK
    /\ soi = 0 \/ soi < samples
    /\ pc \in {"read", "advance"} \/ buf = <<>>
    /\ Len(buf) <= samples
    /\ \A m \in DOMAIN buf : buf[m].soi = (m = soi + 1)
    /\ \A i \in DOMAIN delivered : OneMark(delivered[i].subpackets)

\* DAQ::setup keeps the sample of interest inside the event.
LEMMA SoiInside ==
  ASSUME NEW n \in Nat, NEW s \in Int
  PROVE  SanitizedSoi(n, s) = 0 \/ SanitizedSoi(n, s) < n
  BY DEF SanitizedSoi

\* A buffer without subpackets has not too many and no wrong mark.
LEMMA NothingRead ==
  ASSUME NEW n \in Nat
  PROVE  Len(<<>>) <= n /\ DOMAIN <<>> = {}
  OBVIOUS

\* Every step keeps the marks.
LEMMA MarkStep == MarkInv /\ [Next]_vars => MarkInv'
<1> SUFFICES ASSUME MarkInv, [Next]_vars
             PROVE  MarkInv'
  OBVIOUS
<1>a. TypeOK /\ TypeOK'
  BY TypeStep DEF MarkInv
<1>b. ASSUME UNCHANGED <<samples, soi, delivered>>,
             \/ buf' = <<>>
             \/ buf' = buf /\ (pc' = pc \/ pc' = "read" \/ pc \notin {"read", "advance"})
      PROVE  MarkInv'
  <2>1. pc' \in {"read", "advance"} \/ buf' = <<>>
    BY <1>b DEF MarkInv
  <2>2. CASE buf' = <<>>
    <3>1. samples' \in Nat
      BY <1>a DEF TypeOK
    <3>2. QED
      BY <1>a, <1>b, <2>1, <2>2, <3>1, NothingRead DEF MarkInv
  <2>3. CASE buf' = buf
    BY <1>a, <1>b, <2>1, <2>3 DEF MarkInv
  <2>4. QED
    BY <1>b, <2>2, <2>3
<1>1. CASE Configure
  <2>1. PICK n \in SampleChoices : \E s \in SoiChoices[board, n] :
              samples' = n /\ soi' = SanitizedSoi(n, s)
    BY <1>1 DEF Configure
  <2>2. PICK s \in SoiChoices[board, n] : samples' = n /\ soi' = SanitizedSoi(n, s)
    BY <2>1
  <2>3. n \in Nat /\ s \in Int
    BY <1>a, SizeAssumption DEF TypeOK
  <2>4. soi' = 0 \/ soi' < samples'
    BY <2>2, <2>3, SoiInside
  <2>5. buf' = <<>> /\ delivered' = delivered
    BY <1>1 DEF Configure, MarkInv, histVars
  <2>6. samples' \in Nat
    BY <2>2, <2>3
  <2>7. QED
    BY <1>a, <2>4, <2>5, <2>6, NothingRead DEF MarkInv
<1>2. CASE DaqReset
  BY <1>2, <1>b DEF DaqReset
<1>3. CASE ClearRun
  BY <1>3, <1>b DEF ClearRun
<1>4. CASE ApplyPoint
  BY <1>4, <1>b DEF ApplyPoint, histVars
<1>5. CASE EndPoint
  BY <1>5, <1>b DEF EndPoint, histVars
<1>6. CASE EndScan
  BY <1>6, <1>b DEF EndScan, histVars
<1>7. CASE SendL1A
  BY <1>7, <1>b DEF SendL1A, histVars
<1>8. CASE EndROR
  BY <1>8, <1>b DEF EndROR, histVars
<1>9. CASE StartRead
  BY <1>9, <1>b DEF StartRead, histVars
<1>10. CASE SkipEvent
  BY <1>10, <1>b DEF SkipEvent, histVars
<1>11. CASE GetLinkData
  <2> DEFINE sub == [index |-> Len(buf), soi |-> Len(buf) = soi, data |-> LinkData]
  <2>1. buf \in Seq(Subpacket) /\ buf' = Append(buf, sub) /\ sub \in Subpacket
    BY <1>11, <1>a, LinkDataType DEF GetLinkData, TypeOK, Subpacket
  <2>2. sub.soi = (Len(buf) = soi)
    OBVIOUS
  <2> HIDE DEF sub
  <2>3. /\ DOMAIN buf' = 1..(Len(buf) + 1) /\ Len(buf') = Len(buf) + 1
        /\ DOMAIN buf = 1..Len(buf) /\ Len(buf) \in Nat
        /\ \A m \in DOMAIN buf : buf'[m] = buf[m]
        /\ buf'[Len(buf) + 1] = sub
    BY <2>1
  <2>4. soi' = soi /\ samples' = samples /\ delivered' = delivered /\ pc' = "advance"
    BY <1>11 DEF GetLinkData, histVars
  <2>5. soi \in Nat /\ samples \in Nat
    BY <1>a DEF TypeOK
  <2>6. \A m \in DOMAIN buf' : buf'[m].soi = (m = soi' + 1)
    <3> SUFFICES ASSUME NEW m \in DOMAIN buf'
                 PROVE  buf'[m].soi = (m = soi + 1)
      BY <2>4
    <3>1. CASE m = Len(buf) + 1
      <4>1. buf'[m].soi = (Len(buf) = soi)
        BY <2>2, <2>3, <3>1
      <4>2. Len(buf) \in Nat
        BY <2>3
      <4>3. Len(buf) = soi <=> Len(buf) + 1 = soi + 1
        BY <2>5, <4>2
      <4>4. Len(buf) = soi <=> m = soi + 1
        BY <3>1, <4>3, Zenon
      <4>5. QED
        BY <4>1, <4>4, Zenon
    <3>2. CASE m \in DOMAIN buf
      <4>1. buf'[m] = buf[m]
        BY <2>3, <3>2
      <4>2. QED
        BY <3>2, <4>1 DEF MarkInv
    <3>3. QED
      BY <2>3, <3>1, <3>2
  <2>7. Len(buf') <= samples'
    <3>1. Len(buf) < samples
      BY <1>11 DEF GetLinkData
    <3>2. QED
      BY <2>3, <2>4, <2>5, <3>1
  <2>8. QED
    BY <1>a, <2>4, <2>6, <2>7 DEF MarkInv
<1>12. CASE AdvanceLinkReadPtr
  BY <1>12, <1>b DEF AdvanceLinkReadPtr
<1>13. CASE Consume
  <2> DEFINE e == [scan |-> scan + 1, point |-> point, ievt |-> ievt, subpackets |-> buf]
  <2>1. e \in Event /\ e.subpackets = buf
    BY <1>a DEF TypeOK, Event
  <2>2. delivered \in Seq(Event) /\ delivered' = Append(delivered, e)
    BY <1>13, <1>a DEF Consume, TypeOK
  <2> HIDE DEF e
  <2>3. /\ DOMAIN delivered' = 1..(Len(delivered) + 1)
        /\ DOMAIN delivered = 1..Len(delivered) /\ Len(delivered) \in Nat
        /\ \A i \in DOMAIN delivered : delivered'[i] = delivered[i]
        /\ delivered'[Len(delivered) + 1] = e
    BY <2>1, <2>2
  <2>4. OneMark(buf)
    <3> SUFFICES ASSUME buf # <<>>
                 PROVE  \E k \in DOMAIN buf : \A m \in DOMAIN buf : buf[m].soi = (m = k)
      BY DEF OneMark
    <3>1. buf \in Seq(Subpacket) /\ soi \in Nat
      BY <1>a DEF TypeOK
    <3>2. Len(buf) # 0
      BY <3>1, EmptySeq
    <3>3. Len(buf) \in Nat /\ DOMAIN buf = 1..Len(buf)
      BY <3>1
    <3>4. Len(buf) = samples /\ (soi = 0 \/ soi < samples)
      BY <1>13 DEF Consume, MarkInv
    <3>5. soi + 1 \in DOMAIN buf
      BY <3>1, <3>2, <3>3, <3>4
    <3>6. QED
      BY <3>5 DEF MarkInv
  <2>5. \A i \in DOMAIN delivered' : OneMark(delivered'[i].subpackets)
    BY <2>1, <2>3, <2>4 DEF MarkInv
  <2>6. buf' = <<>> /\ soi' = soi /\ samples' = samples
    BY <1>13 DEF Consume
  <2>7. Len(buf') <= samples'
    BY <1>a, <2>6 DEF TypeOK
  <2>8. QED
    BY <1>a, <2>5, <2>6, <2>7 DEF MarkInv
<1>14. CASE Arrive
  BY <1>14, <1>b DEF Arrive, progVars, histVars
<1>15. CASE ExternalTrigger
  BY <1>15, <1>b DEF ExternalTrigger, progVars, histVars
<1>16. CASE UNCHANGED vars
  BY <1>16, <1>b DEF vars, progVars, histVars
<1>18. CASE MergeL1A
  BY <1>18, <1>b DEF MergeL1A, histVars
<1>17. QED
  BY <1>1, <1>2, <1>3, <1>4, <1>5, <1>6, <1>7, <1>8, <1>9, <1>10, <1>11, <1>12,
     <1>13, <1>14, <1>15, <1>16, <1>18 DEF Next, Program, Terminated

\* OneSoi for every board, size and answer of the user: DAQ::setup and
\* DAQ::read_event_sw_headers mark one sample of every event that has any.
THEOREM SoiCorrect == Spec => []OneSoi
<1>1. Init => MarkInv
  <2> SUFFICES ASSUME Init PROVE MarkInv
    OBVIOUS
  <2>1. TypeOK
    BY DEF Init, TypeOK, Locations
  <2>2. QED
    BY <2>1 DEF Init, MarkInv
<1>2. MarkInv => OneSoi
  <2> SUFFICES ASSUME MarkInv, NEW i \in DOMAIN delivered,
                      delivered[i].subpackets # <<>>
               PROVE  LET s == delivered[i].subpackets
                      IN  Cardinality({k \in DOMAIN s : s[k].soi}) = 1
    BY DEF OneSoi
  <2> DEFINE s == delivered[i].subpackets
  <2>1. PICK k \in DOMAIN s : \A m \in DOMAIN s : s[m].soi = (m = k)
    BY DEF MarkInv, OneMark
  <2>2. {m \in DOMAIN s : s[m].soi} = {k}
    BY <2>1
  <2>3. QED
    BY <2>2, FS_Singleton
<1>3. QED
  BY <1>1, <1>2, MarkStep, PTL DEF Spec
-----------------------------------------------------------------------------
(***************************************************************************)
(* Accounting.  Between getLinkData and advanceLinkReadPtr the head of the *)
(* FIFO is in two places, the FIFO and the event; PeekInv says that it is  *)
(* still the head when the pointer advances, unless the read found none,   *)
(* in which case whatever arrived meanwhile is thrown away.  Apart from    *)
(* that a step moves samples from one place to another, and the order of   *)
(* the queues (OrderInv) says that no two of them are the same.            *)
(***************************************************************************)
PeekInv ==
    /\ pc \in {"read", "advance"} \/ buf = <<>>
    /\ pc = "advance" =>
           /\ buf # <<>>
           /\ buf[Len(buf)].data.id # 0 =>
                  fifo # <<>> /\ fifo[1].id = buf[Len(buf)].data.id

\* Five sets without a common element make up 1..n.
Partition(F, Q, R, C, L, n) ==
    /\ F \cup Q \cup R \cup C \cup L = 1..n
    /\ F \cap Q = {} /\ F \cap R = {} /\ F \cap C = {} /\ F \cap L = {}
    /\ Q \cap R = {} /\ Q \cap C = {} /\ Q \cap L = {}
    /\ R \cap C = {} /\ R \cap L = {} /\ C \cap L = {}

Parted == Partition(Ids(frontend), Ids(fifo) \ Peeked, ReadIds, cleared, lost, l1a)

AccountInv == OrderInv /\ PeekInv /\ Parted

\* Accounting speaks of just these five sets.
LEMMA PartedIsAccounting == Parted <=> Accounting
<1>1. \A F, Q, R, C, L, n :
         LET places == <<F, Q, R, C, L>>
         IN  Partition(F, Q, R, C, L, n) <=>
                /\ UNION {places[i] : i \in DOMAIN places} = 1..n
                /\ \A i, j \in DOMAIN places : i # j => places[i] \cap places[j] = {}
  <2> SUFFICES ASSUME NEW F, NEW Q, NEW R, NEW C, NEW L, NEW n
               PROVE  LET places == <<F, Q, R, C, L>>
                      IN  Partition(F, Q, R, C, L, n) <=>
                            /\ UNION {places[i] : i \in DOMAIN places} = 1..n
                            /\ \A i, j \in DOMAIN places :
                                  i # j => places[i] \cap places[j] = {}
    OBVIOUS
  <2> DEFINE places == <<F, Q, R, C, L>>
  <2>1. /\ DOMAIN places = {1, 2, 3, 4, 5}
        /\ places[1] = F /\ places[2] = Q /\ places[3] = R
        /\ places[4] = C /\ places[5] = L
    OBVIOUS
  <2> HIDE DEF places
  <2>2. UNION {places[i] : i \in DOMAIN places} = F \cup Q \cup R \cup C \cup L
    BY <2>1
  <2>3. (\A i, j \in DOMAIN places : i # j => places[i] \cap places[j] = {})
        <=> /\ F \cap Q = {} /\ F \cap R = {} /\ F \cap C = {} /\ F \cap L = {}
            /\ Q \cap R = {} /\ Q \cap C = {} /\ Q \cap L = {}
            /\ R \cap C = {} /\ R \cap L = {} /\ C \cap L = {}
    BY <2>1
  <2> QED
    BY <2>2, <2>3 DEF Partition, places
<1>2. QED
  BY <1>1 DEF Parted, Accounting

\* What a sequence of samples names when one is appended or the first taken away.
LEMMA IdsOfAppend ==
  ASSUME NEW s \in Seq(Sample), NEW x \in Sample
  PROVE  Ids(Append(s, x)) = Ids(s) \cup {x.id}
<1> DEFINE t == Append(s, x)
<1>1. /\ DOMAIN t = 1..(Len(s) + 1) /\ DOMAIN s = 1..Len(s) /\ Len(s) \in Nat
      /\ \A i \in DOMAIN s : t[i] = s[i]
      /\ t[Len(s) + 1] = x
  OBVIOUS
<1> HIDE DEF t
<1>2. \A i \in DOMAIN t : i \in DOMAIN s \/ i = Len(s) + 1
  BY <1>1
<1>3. \A i \in DOMAIN s : i \in DOMAIN t
  BY <1>1
<1>4. Len(s) + 1 \in DOMAIN t
  BY <1>1
<1>5. Ids(t) = Ids(s) \cup {x.id}
  BY <1>1, <1>2, <1>3, <1>4 DEF Ids
<1>6. QED
  BY <1>5 DEF t

LEMMA IdsOfTail ==
  ASSUME NEW s \in Seq(Sample), s # <<>>, Increasing(s)
  PROVE  Ids(Tail(s)) = Ids(s) \ {s[1].id} /\ s[1].id \in Ids(s) /\ s[1] = Head(s)
<1> DEFINE t == Tail(s)
<1>1. /\ DOMAIN s = 1..Len(s) /\ Len(s) \in Nat /\ 1 \in DOMAIN s
      /\ DOMAIN t = 1..(Len(s) - 1)
      /\ \A i \in DOMAIN t : t[i] = s[i + 1] /\ i + 1 \in DOMAIN s
      /\ s[1] = Head(s)
  OBVIOUS
<1>2. \A i \in DOMAIN s : i = 1 \/ (i - 1 \in DOMAIN t /\ s[i] = t[i - 1])
  BY <1>1
<1>3. \A i \in DOMAIN s : i # 1 => s[i].id # s[1].id
  <2> SUFFICES ASSUME NEW i \in DOMAIN s, i # 1
               PROVE  s[i].id # s[1].id
    OBVIOUS
  <2>1. s[1].id < s[i].id
    BY <1>1 DEF Increasing
  <2>2. s[1] \in Sample /\ s[i] \in Sample
    BY <1>1
  <2>3. s[1].id \in Nat /\ s[i].id \in Nat
    BY <2>2 DEF Sample
  <2>4. QED
    BY <2>1, <2>3
<1>4. \A i \in DOMAIN t : i + 1 # 1
  BY <1>1
<1> HIDE DEF t
<1>5. Ids(t) = Ids(s) \ {s[1].id}
  BY <1>1, <1>2, <1>3, <1>4 DEF Ids
<1>6. QED
  BY <1>1, <1>5 DEF Ids, t

\* What has been read is in the event under construction or in a written one.
BufIds == {buf[k].data.id : k \in DOMAIN buf}
WrittenIds ==
    UNION {{delivered[i].subpackets[k].data.id : k \in DOMAIN delivered[i].subpackets}
           : i \in DOMAIN delivered}

ReadIdsShape == ReadIds = (WrittenIds \cup BufIds) \ {0}

LEMMA ReadIdsAre == TypeOK => ReadIdsShape
<1> SUFFICES ASSUME TypeOK
             PROVE  ReadIds = (WrittenIds \cup BufIds) \ {0}
  BY DEF ReadIdsShape
<1>1. BatchesAreEvents /\ DOMAIN delivered = 1..Len(delivered) /\ Len(delivered) \in Nat
  BY BatchesShape DEF TypeOK
<1>2. \A i : i \in DOMAIN Batches <=> i \in DOMAIN delivered \/ i = Len(delivered) + 1
  BY <1>1 DEF BatchesAreEvents
<1>3. \A x : (\E i \in DOMAIN Batches : \E k \in DOMAIN Batches[i] : x = Batches[i][k].data.id)
             <=> \/ \E i \in DOMAIN delivered : \E k \in DOMAIN delivered[i].subpackets :
                        x = delivered[i].subpackets[k].data.id
                 \/ \E k \in DOMAIN buf : x = buf[k].data.id
  BY <1>1, <1>2 DEF BatchesAreEvents
<1>4. \A x : x \in ReadIds <=>
                x # 0 /\ \E i \in DOMAIN Batches : \E k \in DOMAIN Batches[i] :
                             x = Batches[i][k].data.id
  <2> DEFINE B == Batches
  <2>a. ReadIds =
            (UNION {{b[k].data.id : k \in DOMAIN b} : b \in {B[i] : i \in DOMAIN B}}) \ {0}
    BY DEF ReadIds
  <2>b. B = Batches
    OBVIOUS
  <2> HIDE DEF B
  <2>1. \A x : x \in UNION {{b[k].data.id : k \in DOMAIN b} : b \in {B[i] : i \in DOMAIN B}}
                <=> \E i \in DOMAIN B : \E k \in DOMAIN B[i] : x = B[i][k].data.id
    OBVIOUS
  <2>2. QED
    BY <2>a, <2>b, <2>1
<1>5. \A x : x \in (WrittenIds \cup BufIds) \ {0} <=>
                /\ x # 0
                /\ \/ \E i \in DOMAIN delivered : \E k \in DOMAIN delivered[i].subpackets :
                         x = delivered[i].subpackets[k].data.id
                   \/ \E k \in DOMAIN buf : x = buf[k].data.id
  BY DEF WrittenIds, BufIds
<1>6. QED
  BY <1>3, <1>4, <1>5

\* What is in one of the places is the number of an L1A.
LEMMA PartsInRange ==
  ASSUME Parted
  PROVE  /\ Ids(frontend) \subseteq 1..l1a /\ Ids(fifo) \ Peeked \subseteq 1..l1a
         /\ ReadIds \subseteq 1..l1a /\ cleared \subseteq 1..l1a /\ lost \subseteq 1..l1a
  BY DEF Parted, Partition

\* One more element in one of the parts, the next number.
LEMMA PartitionGrows ==
  ASSUME NEW n \in Nat, NEW F, NEW Q, NEW R, NEW C, NEW L, Partition(F, Q, R, C, L, n)
  PROVE  Partition(F \cup {n + 1}, Q, R, C, L, n + 1)
<1>1. n + 1 \notin 1..n /\ 1..(n + 1) = (1..n) \cup {n + 1}
  OBVIOUS
<1>2. QED
  BY <1>1 DEF Partition

\* Parts that change hands whole.
LEMMA PartitionMoves ==
  ASSUME NEW n, NEW F, NEW Q, NEW R, NEW C, NEW L, Partition(F, Q, R, C, L, n)
  PROVE  /\ Partition({}, Q, R, C \cup F, L, n)
         /\ Partition(F, {}, R, C \cup Q, L, n)
<1>1. Partition({}, Q, R, C \cup F, L, n)
  BY DEF Partition
<1>2. Partition(F, {}, R, C \cup Q, L, n)
  BY DEF Partition
<1>3. QED
  BY <1>1, <1>2

\* One element of the FIFO is read, or thrown away.
LEMMA PartitionTakes ==
  ASSUME NEW n, NEW F, NEW Q, NEW R, NEW C, NEW L, Partition(F, Q, R, C, L, n),
         NEW h \in Q
  PROVE  /\ Partition(F, Q \ {h}, R \cup {h}, C, L, n)
         /\ Partition(F, Q \ {h}, R, C, L \cup {h}, n)
<1>1. h \notin F /\ h \notin R /\ h \notin C /\ h \notin L
  BY DEF Partition
<1>2. (Q \ {h}) \cup {h} = Q
  OBVIOUS
<1>3. Partition(F, Q \ {h}, R \cup {h}, C, L, n)
  BY <1>1, <1>2 DEF Partition
<1>4. Partition(F, Q \ {h}, R, C, L \cup {h}, n)
  BY <1>1, <1>2 DEF Partition
<1>5. QED
  BY <1>3, <1>4

\* An L1A adds the next number to the samples on their way.
LEMMA L1AParted ==
  ASSUME AccountInv, NEW ror \in Nat \X Nat \X Nat, L1A(ror),
         UNCHANGED <<fifo, delivered, buf, cleared, lost, pc>>
  PROVE  Parted'
<1>1. /\ frontend \in Seq(Sample) /\ l1a \in Nat /\ l1a' = l1a + 1 /\ roc \in Nat
      /\ frontend' = Append(frontend, [id |-> l1a + 1, ror |-> ror, tag |-> roc])
  BY DEF AccountInv, OrderInv, TypeOK, L1A
<1>2. [id |-> l1a + 1, ror |-> ror, tag |-> roc] \in Sample
  BY <1>1 DEF Sample
<1>3. Ids(frontend') = Ids(frontend) \cup {l1a + 1}
  BY <1>1, <1>2, IdsOfAppend
<1>4. ReadIds' = ReadIds /\ Ids(fifo') = Ids(fifo) /\ Peeked' = Peeked
  BY SameBatches DEF ReadIds, Ids, Peeked
<1>5. QED
  BY <1>1, <1>3, <1>4, PartitionGrows DEF AccountInv, Parted

\* Arrive moves a sample from the front-end to the FIFO.
LEMMA ArriveParted ==
  ASSUME AccountInv, Arrive
  PROVE  Parted'
<1>1. /\ frontend \in Seq(Sample) /\ fifo \in Seq(Sample) /\ frontend # <<>>
      /\ Increasing(frontend)
      /\ fifo' = Append(fifo, Head(frontend)) /\ frontend' = Tail(frontend)
      /\ UNCHANGED <<pc, buf, delivered, cleared, lost, l1a>>
  BY DEF AccountInv, OrderInv, QueueOrder, TypeOK, Arrive, progVars, histVars
<1>2. /\ Ids(frontend') = Ids(frontend) \ {frontend[1].id}
      /\ frontend[1].id \in Ids(frontend) /\ frontend[1] = Head(frontend)
  BY <1>1, IdsOfTail
<1>3. Head(frontend) \in Sample
  BY <1>1
<1>4. Ids(fifo') = Ids(fifo) \cup {frontend[1].id}
  BY <1>1, <1>2, <1>3, IdsOfAppend
<1>5. ReadIds' = ReadIds /\ Peeked' = Peeked
  BY <1>1, SameBatches DEF ReadIds, Peeked
<1>6. frontend[1].id \notin Peeked
  <2>1. CASE pc = "advance" /\ buf[Len(buf)].data.id # 0
    <3>1. fifo # <<>> /\ fifo[1].id = buf[Len(buf)].data.id
      BY <2>1 DEF AccountInv, PeekInv
    <3>2. fifo[1].id < frontend[1].id
      BY <1>1, <3>1 DEF AccountInv, OrderInv, QueueOrder
    <3>3. fifo[1].id \in Nat /\ frontend[1].id \in Nat
      BY <1>1, <3>1, QueuedId DEF AccountInv, OrderInv
    <3>4. fifo[1].id # frontend[1].id
      BY <3>2, <3>3
    <3>5. QED
      BY <3>1, <3>4 DEF Peeked
  <2>2. CASE ~(pc = "advance" /\ buf[Len(buf)].data.id # 0)
    BY <2>2 DEF Peeked
  <2>3. QED
    BY <2>1, <2>2
<1>7. Parted
  BY DEF AccountInv
<1>8. QED
  BY <1>1, <1>2, <1>4, <1>5, <1>6, <1>7 DEF Parted, Partition

\* The resets of setup_run move what a queue holds to what was dropped.
LEMMA ResetParted ==
  ASSUME AccountInv, DaqReset \/ ClearRun
  PROVE  Parted'
<1>1. UNCHANGED <<delivered, buf, lost, l1a>> /\ Peeked = {} /\ Peeked' = {}
  BY DEF DaqReset, ClearRun, Peeked
<1>2. ReadIds' = ReadIds
  BY <1>1, SameBatches DEF ReadIds
<1>3. Ids(<<>>) = {}
  BY DEF Ids
<1>4. Partition(Ids(frontend), Ids(fifo), ReadIds, cleared, lost, l1a)
  BY <1>1 DEF AccountInv, Parted
<1>5. CASE DaqReset
  <2>1. /\ Ids(fifo') = {} /\ Ids(frontend') = Ids(frontend)
        /\ cleared' = cleared \cup Ids(fifo)
    BY <1>3, <1>5 DEF DaqReset
  <2>2. Partition(Ids(frontend), {}, ReadIds, cleared \cup Ids(fifo), lost, l1a)
    BY <1>4, PartitionMoves
  <2>3. Ids(fifo') \ Peeked' = {}
    BY <2>1
  <2>4. QED
    BY <1>1, <1>2, <2>1, <2>2, <2>3 DEF Parted
<1>6. CASE ClearRun
  <2>1. /\ Ids(frontend') = {} /\ Ids(fifo') = Ids(fifo)
        /\ cleared' = cleared \cup Ids(frontend)
    BY <1>3, <1>6 DEF ClearRun
  <2>2. Partition({}, Ids(fifo), ReadIds, cleared \cup Ids(frontend), lost, l1a)
    BY <1>4, PartitionMoves
  <2>3. Ids(fifo') \ Peeked' = Ids(fifo)
    BY <1>1, <2>1
  <2>4. QED
    BY <1>1, <1>2, <2>1, <2>2, <2>3 DEF Parted
<1>7. QED
  BY <1>5, <1>6

\* getLinkData takes the head of the FIFO, which is now peeked, into the event.
LEMMA GetLinkDataParted ==
  ASSUME AccountInv, GetLinkData
  PROVE  Parted' /\ PeekInv'
<1> DEFINE sub == [index |-> Len(buf), soi |-> Len(buf) = soi, data |-> LinkData]
<1>1. /\ TypeOK /\ TypeOK' /\ fifo \in Seq(Sample)
      /\ pc = "read" /\ pc' = "advance"
      /\ UNCHANGED <<fifo, frontend, delivered, cleared, lost, l1a>>
  <2>1. TypeOK /\ [Next]_vars
    BY DEF AccountInv, OrderInv, Next, Program
  <2>2. QED
    BY <2>1, TypeStep DEF GetLinkData, hwVars, histVars, TypeOK
<1>2. buf \in Seq(Subpacket) /\ buf' = Append(buf, sub) /\ sub \in Subpacket
  BY <1>1, LinkDataType DEF GetLinkData, TypeOK, Subpacket
<1>3. sub.data = LinkData
  OBVIOUS
<1> HIDE DEF sub
<1>4. /\ Len(buf') = Len(buf) + 1 /\ Len(buf) \in Nat
      /\ DOMAIN buf' = 1..(Len(buf) + 1) /\ DOMAIN buf = 1..Len(buf)
      /\ \A k \in DOMAIN buf : buf'[k] = buf[k]
      /\ buf'[Len(buf) + 1] = sub
      /\ buf' # <<>>
  BY <1>2
<1>5. BufIds' = BufIds \cup {LinkData.id}
  <2>1. \A k \in DOMAIN buf' : k \in DOMAIN buf \/ k = Len(buf) + 1
    BY <1>4
  <2>2. \A k \in DOMAIN buf : k \in DOMAIN buf'
    BY <1>4
  <2>3. Len(buf) + 1 \in DOMAIN buf'
    BY <1>4
  <2>4. QED
    BY <1>3, <1>4, <2>1, <2>2, <2>3 DEF BufIds
<1>6. ReadIds' = ReadIds \cup ({LinkData.id} \ {0})
  <2>1. WrittenIds' = WrittenIds
    BY <1>1 DEF WrittenIds
  <2>2. TypeOK' => ReadIdsShape'
    BY ReadIdsAre, PTL
  <2>3. ReadIdsShape
    BY <1>1, ReadIdsAre
  <2>4. QED
    BY <1>1, <1>5, <2>1, <2>2, <2>3 DEF ReadIdsShape
<1>7. Peeked = {} /\ Peeked' = {LinkData.id} \ {0}
  BY <1>1, <1>3, <1>4 DEF Peeked
<1>8. Ids(fifo') = Ids(fifo) /\ Ids(frontend') = Ids(frontend)
  BY <1>1 DEF Ids
<1>9. Parted
  BY DEF AccountInv
<1>10. CASE fifo = <<>>
  <2>1. LinkData.id = 0
    BY <1>10 DEF LinkData, NoSample
  <2>2. ReadIds' = ReadIds /\ Peeked' = {}
    BY <1>6, <1>7, <2>1
  <2>3. Parted'
    BY <1>1, <1>7, <1>8, <1>9, <2>2 DEF Parted
  <2>4. PeekInv'
    BY <1>1, <1>3, <1>4, <2>1 DEF PeekInv
  <2>5. QED
    BY <2>3, <2>4
<1>11. CASE fifo # <<>>
  <2>1. LinkData = fifo[1] /\ 1 \in DOMAIN fifo
    BY <1>1, <1>11 DEF LinkData
  <2>2. fifo[1].id # 0 /\ fifo[1].id \in Ids(fifo)
    BY <1>1, <2>1, QueuedId DEF Ids
  <2>3. ReadIds' = ReadIds \cup {fifo[1].id} /\ Peeked' = {fifo[1].id}
    BY <1>6, <1>7, <2>1, <2>2
  <2>a. Partition(Ids(frontend), Ids(fifo), ReadIds, cleared, lost, l1a)
    BY <1>7, <1>9 DEF Parted
  <2>b. Partition(Ids(frontend), Ids(fifo) \ {fifo[1].id}, ReadIds \cup {fifo[1].id},
                  cleared, lost, l1a)
    BY <2>2, <2>a, PartitionTakes
  <2>4. Parted'
    BY <1>1, <1>8, <2>3, <2>b DEF Parted
  <2>5. PeekInv'
    BY <1>1, <1>3, <1>4, <1>11, <2>1 DEF PeekInv
  <2>6. QED
    BY <2>4, <2>5
<1>12. QED
  BY <1>10, <1>11

\* advanceLinkReadPtr ends the peek, or moves a sample to what was thrown away.
LEMMA AdvanceParted ==
  ASSUME AccountInv, AdvanceLinkReadPtr
  PROVE  Parted'
<1> DEFINE b == buf[Len(buf)].data.id
<1>1. /\ fifo \in Seq(Sample) /\ Increasing(fifo) /\ pc = "advance" /\ pc' = "read"
      /\ fifo' = IF fifo = <<>> THEN fifo ELSE Tail(fifo)
      /\ lost' = lost \cup {i \in {LinkData.id} \ {0} : i # b}
      /\ UNCHANGED <<buf, frontend, l1a, delivered, cleared>>
      /\ TypeOK
  BY DEF AccountInv, OrderInv, QueueOrder, TypeOK, AdvanceLinkReadPtr
<1>2. ReadIds' = ReadIds /\ Peeked = {b} \ {0} /\ Peeked' = {}
  BY <1>1, SameBatches DEF ReadIds, Peeked
<1>3. b # 0 => fifo # <<>> /\ fifo[1].id = b
  BY <1>1 DEF AccountInv, PeekInv
<1>4. Ids(frontend') = Ids(frontend)
  BY <1>1 DEF Ids
<1> HIDE DEF b
<1>5. Parted
  BY DEF AccountInv
<1>6. CASE fifo = <<>>
  <2>1. LinkData.id = 0
    BY <1>6 DEF LinkData, NoSample
  <2>2. lost' = lost /\ Peeked = {} /\ Ids(fifo') = Ids(fifo)
    BY <1>1, <1>2, <1>3, <1>6, <2>1 DEF Ids
  <2>3. QED
    BY <1>1, <1>2, <1>4, <1>5, <2>2 DEF Parted
<1>7. CASE fifo # <<>>
  <2>1. /\ Ids(fifo') = Ids(fifo) \ {fifo[1].id} /\ fifo[1].id \in Ids(fifo)
        /\ LinkData.id = fifo[1].id
    BY <1>1, <1>7, IdsOfTail DEF LinkData
  <2>2. fifo[1].id # 0
    BY <1>1, <1>7, QueuedId
  <2>3. CASE b = 0
    <3>1. lost' = lost \cup {fifo[1].id} /\ Peeked = {}
      BY <1>1, <1>2, <2>1, <2>2, <2>3
    <3>2. Partition(Ids(frontend), Ids(fifo), ReadIds, cleared, lost, l1a)
      BY <1>5, <3>1 DEF Parted
    <3>3. Partition(Ids(frontend), Ids(fifo) \ {fifo[1].id}, ReadIds, cleared,
                    lost \cup {fifo[1].id}, l1a)
      BY <2>1, <3>2, PartitionTakes
    <3>4. Ids(fifo') \ Peeked' = Ids(fifo) \ {fifo[1].id}
      BY <1>2, <2>1
    <3>5. QED
      BY <1>1, <1>2, <1>4, <3>1, <3>3, <3>4 DEF Parted
  <2>4. CASE b # 0
    <3>1. lost' = lost /\ Peeked = {fifo[1].id}
      BY <1>1, <1>2, <1>3, <2>1, <2>4
    <3>2. QED
      BY <1>1, <1>2, <1>4, <1>5, <2>1, <3>1 DEF Parted
  <2>5. QED
    BY <2>3, <2>4
<1>8. QED
  BY <1>6, <1>7

\* consume moves what the event holds from the buffer to the written events.
LEMMA ConsumeParted ==
  ASSUME AccountInv, Consume
  PROVE  Parted'
<1> DEFINE e == [scan |-> scan + 1, point |-> point, ievt |-> ievt, subpackets |-> buf]
<1>1. /\ TypeOK /\ TypeOK' /\ buf' = <<>> /\ delivered' = Append(delivered, e)
      /\ UNCHANGED <<fifo, frontend, cleared, lost, l1a>>
      /\ pc = "read" /\ pc' # "advance"
      /\ delivered \in Seq(Event)
  <2>1. TypeOK /\ [Next]_vars
    BY DEF AccountInv, OrderInv, Next, Program
  <2>2. QED
    BY <2>1, TypeStep DEF Consume, NextEvent, hwVars, TypeOK
<1>2. e \in Event /\ e.subpackets = buf
  BY <1>1 DEF TypeOK, Event
<1> HIDE DEF e
<1>3. /\ DOMAIN delivered' = 1..(Len(delivered) + 1)
      /\ DOMAIN delivered = 1..Len(delivered) /\ Len(delivered) \in Nat
      /\ \A i \in DOMAIN delivered : delivered'[i] = delivered[i] /\ i \in DOMAIN delivered'
      /\ delivered'[Len(delivered) + 1] = e /\ Len(delivered) + 1 \in DOMAIN delivered'
      /\ \A i \in DOMAIN delivered' : i \in DOMAIN delivered \/ i = Len(delivered) + 1
  BY <1>1, <1>2
<1>4. WrittenIds' = WrittenIds \cup BufIds
  BY <1>2, <1>3 DEF WrittenIds, BufIds
<1>5. BufIds' = {}
  BY <1>1 DEF BufIds
<1>6. ReadIds' = ReadIds
  <2>1. TypeOK' => ReadIdsShape'
    BY ReadIdsAre, PTL
  <2>2. ReadIdsShape
    BY <1>1, ReadIdsAre
  <2>3. QED
    BY <1>1, <1>4, <1>5, <2>1, <2>2 DEF ReadIdsShape
<1>7. Peeked = {} /\ Peeked' = {}
  BY <1>1 DEF Peeked
<1>8. QED
  BY <1>1, <1>6, <1>7 DEF AccountInv, Parted, Ids

\* Every step keeps every sample in one place.
LEMMA AccountStep == AccountInv /\ [Next]_vars => AccountInv'
<1> SUFFICES ASSUME AccountInv, [Next]_vars
             PROVE  PeekInv' /\ Parted'
  BY OrderStep DEF AccountInv
<1>a. TypeOK /\ PeekInv /\ Parted
  BY DEF AccountInv, OrderInv
<1>b. ASSUME UNCHANGED <<frontend, fifo, delivered, buf, cleared, lost, l1a>>,
             pc = "advance" <=> pc' = "advance"
      PROVE  Parted'
  <2>1. ReadIds' = ReadIds /\ Peeked' = Peeked
    BY <1>b, SameBatches DEF ReadIds, Peeked
  <2>2. QED
    BY <1>a, <1>b, <2>1 DEF Parted, Ids
<1>1. CASE Configure
  BY <1>1, <1>a, <1>b DEF Configure, PeekInv, hwVars, histVars
<1>2. CASE DaqReset
  BY <1>2, <1>a, ResetParted DEF DaqReset, PeekInv
<1>3. CASE ClearRun
  BY <1>3, <1>a, ResetParted DEF ClearRun, PeekInv
<1>4. CASE ApplyPoint
  BY <1>4, <1>a, <1>b DEF ApplyPoint, PeekInv, histVars
<1>5. CASE EndPoint
  BY <1>5, <1>a, <1>b DEF EndPoint, PeekInv, histVars
<1>6. CASE EndScan
  BY <1>6, <1>a, <1>b DEF EndScan, PeekInv, hwVars, histVars
<1>7. CASE SendL1A
  <2>1. Parted'
    BY <1>7, <1>a, RorType, L1AParted DEF SendL1A, histVars
  <2>2. QED
    BY <1>7, <1>a, <2>1 DEF SendL1A, PeekInv
<1>8. CASE EndROR
  BY <1>8, <1>a, <1>b DEF EndROR, PeekInv, hwVars, histVars
<1>9. CASE StartRead
  BY <1>9, <1>a, <1>b DEF StartRead, PeekInv, hwVars, histVars
<1>10. CASE SkipEvent
  BY <1>10, <1>a, <1>b DEF SkipEvent, NextEvent, PeekInv, hwVars, histVars
<1>11. CASE GetLinkData
  BY <1>11, GetLinkDataParted
<1>12. CASE AdvanceLinkReadPtr
  BY <1>12, AdvanceParted DEF AdvanceLinkReadPtr, PeekInv
<1>13. CASE Consume
  BY <1>13, ConsumeParted DEF Consume, NextEvent, PeekInv
<1>14. CASE Arrive
  <2>1. UNCHANGED <<pc, buf>> /\ fifo \in Seq(Sample) /\ frontend # <<>>
        /\ frontend \in Seq(Sample) /\ fifo' = Append(fifo, Head(frontend))
    BY <1>14, <1>a DEF Arrive, TypeOK, progVars
  <2>2. fifo # <<>> => fifo' # <<>> /\ fifo'[1] = fifo[1]
    BY <2>1
  <2>3. QED
    BY <1>14, <1>a, <2>1, <2>2, ArriveParted DEF PeekInv
<1>15. CASE ExternalTrigger
  <2>1. External \in Nat \X Nat \X Nat
    BY DEF External
  <2>2. Parted'
    BY <1>15, <2>1, L1AParted DEF ExternalTrigger, progVars, histVars
  <2>3. QED
    BY <1>15, <1>a, <2>2 DEF ExternalTrigger, PeekInv, progVars
<1>16. CASE UNCHANGED vars
  BY <1>16, <1>a, <1>b DEF vars, progVars, hwVars, histVars, PeekInv
<1>18. CASE MergeL1A
  BY <1>18, <1>a, <1>b DEF MergeL1A, PeekInv, hwVars, histVars
<1>17. QED
  BY <1>1, <1>2, <1>3, <1>4, <1>5, <1>6, <1>7, <1>8, <1>9, <1>10, <1>11, <1>12,
     <1>13, <1>14, <1>15, <1>16, <1>18 DEF Next, Program, Terminated

\* Nothing has been captured when a session starts.
LEMMA AccountInit == Init => AccountInv
<1> SUFFICES ASSUME Init PROVE AccountInv
  OBVIOUS
<1>1. TypeOK
  BY DEF Init, TypeOK, Locations
<1>2. \A i \in DOMAIN Batches : Batches[i] = <<>>
  BY <1>1, BatchesShape DEF BatchesAreEvents, Init
<1>3. OrderInv
  BY <1>1, <1>2 DEF Init, OrderInv, QueueOrder, Increasing, ReadOrder, InOrder
<1>4. ReadIds = {}
  <2>1. WrittenIds = {} /\ BufIds = {}
    BY DEF Init, WrittenIds, BufIds
  <2>2. QED
    BY <1>1, <2>1, ReadIdsAre DEF ReadIdsShape
<1>5. Ids(<<>>) = {}
  BY DEF Ids
<1>6. Parted /\ PeekInv
  BY <1>4, <1>5 DEF Init, Parted, Partition, PeekInv
<1>7. QED
  BY <1>3, <1>6 DEF AccountInv

\* Accounting for every board, size and timing: no sample is ever in two places and
\* none gets lost without being counted (setup_run, getLinkData, advanceLinkReadPtr).
THEOREM AccountingCorrect == Spec => []Accounting
<1>1. AccountInv => Accounting
  BY PartedIsAccounting DEF AccountInv
<1>2. QED
  BY <1>1, AccountInit, AccountStep, PTL DEF Spec
-----------------------------------------------------------------------------
(***************************************************************************)
(* LossBound.  A sample can only be thrown away by the advance that        *)
(* follows an empty read, and until that advance the empty subpacket is    *)
(* counted and the loss is not.                                            *)
(***************************************************************************)
Owed == IF pc = "advance" /\ buf[Len(buf)].data.id = 0 THEN 1 ELSE 0

LossInv ==
    /\ AccountInv
    /\ IsFiniteSet(lost) /\ IsFiniteSet(EmptySubpackets)
    /\ Cardinality(lost) + Owed <= Cardinality(EmptySubpackets)

\* Where an empty subpacket is: in a written event or in the one under construction.
EmptyShape ==
    \A x : x \in EmptySubpackets <=>
              \/ \E i \in DOMAIN delivered : \E k \in DOMAIN delivered[i].subpackets :
                    delivered[i].subpackets[k].data.id = 0 /\ x = <<i, k>>
              \/ \E k \in DOMAIN buf : buf[k].data.id = 0 /\ x = <<Len(delivered) + 1, k>>

LEMMA EmptyAre == TypeOK => EmptyShape
<1> SUFFICES ASSUME TypeOK PROVE EmptyShape
  OBVIOUS
<1> DEFINE B == Batches
<1>1. BatchesAreEvents /\ DOMAIN delivered = 1..Len(delivered) /\ Len(delivered) \in Nat
  BY BatchesShape DEF TypeOK
<1>2. \A i : i \in DOMAIN B <=> i \in DOMAIN delivered \/ i = Len(delivered) + 1
  BY <1>1 DEF BatchesAreEvents
<1>3. EmptySubpackets =
        UNION {{<<i, k>> : k \in {k \in DOMAIN B[i] : B[i][k].data.id = 0}} : i \in DOMAIN B}
  BY DEF EmptySubpackets
<1>4. /\ \A i \in DOMAIN delivered : B[i] = delivered[i].subpackets
      /\ B[Len(delivered) + 1] = buf
  BY <1>1 DEF BatchesAreEvents
<1> HIDE DEF B
<1>5. \A x : x \in EmptySubpackets <=>
               \E i \in DOMAIN B : \E k \in DOMAIN B[i] : B[i][k].data.id = 0 /\ x = <<i, k>>
  BY <1>3
<1>6. QED
  BY <1>2, <1>4, <1>5 DEF EmptyShape

\* A read of an empty FIFO adds one empty subpacket, any other read none.
LEMMA GetLinkDataEmpty ==
  ASSUME LossInv, GetLinkData
  PROVE  LossInv'
<1> DEFINE sub == [index |-> Len(buf), soi |-> Len(buf) = soi, data |-> LinkData]
           new == <<Len(delivered) + 1, Len(buf) + 1>>
<1>1. /\ TypeOK /\ AccountInv /\ AccountInv' /\ TypeOK'
      /\ pc = "read" /\ pc' = "advance"
      /\ UNCHANGED <<delivered, lost>>
  <2>1. AccountInv /\ [Next]_vars
    BY DEF LossInv, Next, Program
  <2>2. QED
    BY <2>1, AccountStep DEF AccountInv, OrderInv, GetLinkData, histVars
<1>2. buf \in Seq(Subpacket) /\ buf' = Append(buf, sub) /\ sub \in Subpacket
  BY <1>1, LinkDataType DEF GetLinkData, TypeOK, Subpacket
<1>3. sub.data = LinkData
  OBVIOUS
<1> HIDE DEF sub
<1>4. /\ Len(buf') = Len(buf) + 1 /\ Len(buf) \in Nat
      /\ DOMAIN buf' = 1..(Len(buf) + 1) /\ DOMAIN buf = 1..Len(buf)
      /\ \A k \in DOMAIN buf : buf'[k] = buf[k] /\ k \in DOMAIN buf'
      /\ \A k \in DOMAIN buf' : k \in DOMAIN buf \/ k = Len(buf) + 1
      /\ buf'[Len(buf) + 1] = sub /\ Len(buf) + 1 \in DOMAIN buf'
      /\ Len(buf) + 1 \notin DOMAIN buf
  BY <1>2
<1>5. EmptyShape /\ EmptyShape'
  <2>1. TypeOK' => EmptyShape'
    BY EmptyAre, PTL
  <2>2. QED
    BY <1>1, <2>1, EmptyAre
<1>6. EmptySubpackets' = EmptySubpackets \cup (IF LinkData.id = 0 THEN {new} ELSE {})
  <2>1. \A x : (\E k \in DOMAIN buf' : buf'[k].data.id = 0 /\ x = <<Len(delivered) + 1, k>>)
               <=> \/ \E k \in DOMAIN buf : buf[k].data.id = 0 /\ x = <<Len(delivered) + 1, k>>
                   \/ LinkData.id = 0 /\ x = new
    BY <1>3, <1>4
  <2>2. \A x : x \in EmptySubpackets' <=>
                 x \in EmptySubpackets \/ (LinkData.id = 0 /\ x = new)
    BY <1>1, <1>5, <2>1 DEF EmptyShape
  <2>3. QED
    BY <2>2
<1>7. new \notin EmptySubpackets
  <2>b. delivered \in Seq(Event)
    BY <1>1 DEF TypeOK
  <2>a. DOMAIN delivered = 1..Len(delivered) /\ Len(delivered) \in Nat
    BY <2>b
  <2>1. Len(delivered) + 1 \notin DOMAIN delivered
    BY <2>a
  <2>2. QED
    BY <1>4, <1>5, <2>1 DEF EmptyShape
<1>8. /\ IsFiniteSet(EmptySubpackets) /\ IsFiniteSet(lost)
      /\ Cardinality(lost) <= Cardinality(EmptySubpackets)
      /\ Cardinality(lost) \in Nat /\ Cardinality(EmptySubpackets) \in Nat
  <2>1. IsFiniteSet(EmptySubpackets) /\ IsFiniteSet(lost)
    BY DEF LossInv
  <2>2. Cardinality(lost) \in Nat /\ Cardinality(EmptySubpackets) \in Nat
    BY <2>1, FS_CardinalityType
  <2>3. Owed = 0
    BY <1>1 DEF Owed
  <2>4. QED
    BY <2>1, <2>2, <2>3 DEF LossInv
<1>9. /\ IsFiniteSet(EmptySubpackets')
      /\ Cardinality(EmptySubpackets') =
            Cardinality(EmptySubpackets) + (IF LinkData.id = 0 THEN 1 ELSE 0)
  <2>1. CASE LinkData.id = 0
    BY <1>6, <1>7, <1>8, <2>1, FS_AddElement
  <2>2. CASE LinkData.id # 0
    BY <1>6, <1>8, <2>2
  <2>3. QED
    BY <2>1, <2>2
<1>10. Owed' = IF LinkData.id = 0 THEN 1 ELSE 0
  BY <1>1, <1>3, <1>4 DEF Owed
<1>11. Cardinality(lost') + Owed' <= Cardinality(EmptySubpackets')
  BY <1>1, <1>8, <1>9, <1>10
<1>12. QED
  BY <1>1, <1>8, <1>9, <1>11 DEF LossInv

\* consume moves the empty subpackets of the event with it: they keep their place.
LEMMA ConsumeEmpty ==
  ASSUME LossInv, Consume
  PROVE  EmptySubpackets' = EmptySubpackets
<1> DEFINE e == [scan |-> scan + 1, point |-> point, ievt |-> ievt, subpackets |-> buf]
<1>1. /\ TypeOK /\ TypeOK' /\ buf' = <<>> /\ delivered' = Append(delivered, e)
      /\ delivered \in Seq(Event)
  <2>1. TypeOK /\ [Next]_vars
    BY DEF LossInv, AccountInv, OrderInv, Next, Program
  <2>2. QED
    BY <2>1, TypeStep DEF Consume, TypeOK
<1>2. e \in Event /\ e.subpackets = buf
  BY <1>1 DEF TypeOK, Event
<1> HIDE DEF e
<1>3. /\ \A i \in DOMAIN delivered : delivered'[i] = delivered[i] /\ i \in DOMAIN delivered'
      /\ delivered'[Len(delivered) + 1] = e /\ Len(delivered) + 1 \in DOMAIN delivered'
      /\ \A i \in DOMAIN delivered' : i \in DOMAIN delivered \/ i = Len(delivered) + 1
  BY <1>1, <1>2
<1>4. EmptyShape /\ EmptyShape'
  <2>1. TypeOK' => EmptyShape'
    BY EmptyAre, PTL
  <2>2. QED
    BY <1>1, <2>1, EmptyAre
<1>5. DOMAIN buf' = {}
  BY <1>1
<1>6. \A x : x \in EmptySubpackets' <=> x \in EmptySubpackets
  BY <1>2, <1>3, <1>4, <1>5 DEF EmptyShape
<1>7. QED
  BY <1>6

\* Only the advance after an empty read can throw a sample away, and then just one.
LEMMA AdvanceLoss ==
  ASSUME LossInv, AdvanceLinkReadPtr
  PROVE  IsFiniteSet(lost') /\ Cardinality(lost') <= Cardinality(EmptySubpackets)
<1> DEFINE b == buf[Len(buf)].data.id
<1>1. /\ fifo \in Seq(Sample) /\ pc = "advance"
      /\ lost' = lost \cup {i \in {LinkData.id} \ {0} : i # b}
      /\ PeekInv /\ IsFiniteSet(lost) /\ IsFiniteSet(EmptySubpackets)
      /\ Cardinality(lost) + Owed <= Cardinality(EmptySubpackets)
  BY DEF LossInv, AccountInv, OrderInv, TypeOK, AdvanceLinkReadPtr
<1>2. Cardinality(lost) \in Nat /\ Cardinality(EmptySubpackets) \in Nat
  BY <1>1, FS_CardinalityType
<1>3. CASE b = 0
  <2>1. Owed = 1
    BY <1>1, <1>3 DEF Owed
  <2>2. lost' = lost \/ lost' = lost \cup {LinkData.id}
    BY <1>1
  <2>a. /\ IsFiniteSet(lost \cup {LinkData.id})
        /\ \/ Cardinality(lost \cup {LinkData.id}) = Cardinality(lost)
           \/ Cardinality(lost \cup {LinkData.id}) = Cardinality(lost) + 1
    BY <1>1, FS_AddElement
  <2>3. IsFiniteSet(lost') /\ Cardinality(lost') <= Cardinality(lost) + 1
    <3>1. CASE lost' = lost
      <4>1. IsFiniteSet(lost) /\ Cardinality(lost) <= Cardinality(lost) + 1
        BY <1>1, <1>2
      <4>2. QED
        BY <3>1, <4>1
    <3>2. CASE lost' = lost \cup {LinkData.id}
      BY <1>2, <2>a, <3>2
    <3>3. QED
      BY <2>2, <3>1, <3>2
  <2>4. Cardinality(lost') \in Nat
    BY <2>3, FS_CardinalityType
  <2>5. QED
    BY <1>1, <1>2, <2>1, <2>3, <2>4
<1>4. CASE b # 0
  <2>1. fifo # <<>> /\ fifo[1].id = b
    BY <1>1, <1>4 DEF PeekInv
  <2>2. LinkData = fifo[1]
    BY <1>1, <2>1 DEF LinkData
  <2>3. lost' = lost
    BY <1>1, <2>1, <2>2
  <2>4. Owed = 0
    BY <1>4 DEF Owed
  <2>5. Cardinality(lost) <= Cardinality(EmptySubpackets)
    BY <1>1, <1>2, <2>4
  <2>6. QED
    BY <1>1, <2>3, <2>5
<1>5. QED
  BY <1>3, <1>4

\* Every step keeps the bound.
LEMMA LossStep == LossInv /\ [Next]_vars => LossInv'
<1> SUFFICES ASSUME LossInv, [Next]_vars
             PROVE  LossInv'
  OBVIOUS
<1>a. AccountInv /\ AccountInv' /\ PeekInv
  BY AccountStep DEF LossInv, AccountInv
<1>b. ASSUME UNCHANGED <<delivered, buf, lost>>, pc # "advance", pc' # "advance"
      PROVE  LossInv'
  <2>1. Batches' = Batches
    BY <1>b, SameBatches
  <2>2. EmptySubpackets' = EmptySubpackets
    BY <2>1 DEF EmptySubpackets
  <2>3. Owed = 0 /\ Owed' = 0
    BY <1>b DEF Owed
  <2>4. QED
    BY <1>a, <1>b, <2>2, <2>3 DEF LossInv
<1>c. ASSUME UNCHANGED <<delivered, buf, lost, pc>>
      PROVE  LossInv'
  <2>1. Batches' = Batches
    BY <1>c, SameBatches
  <2>2. EmptySubpackets' = EmptySubpackets /\ Owed' = Owed
    BY <1>c, <2>1 DEF EmptySubpackets, Owed
  <2>3. QED
    BY <1>a, <1>c, <2>2 DEF LossInv
<1>1. CASE Configure
  BY <1>1, <1>c DEF Configure, histVars
<1>2. CASE DaqReset
  BY <1>2, <1>b DEF DaqReset
<1>3. CASE ClearRun
  BY <1>3, <1>b DEF ClearRun
<1>4. CASE ApplyPoint
  BY <1>4, <1>b DEF ApplyPoint, histVars
<1>5. CASE EndPoint
  BY <1>5, <1>b DEF EndPoint, histVars
<1>6. CASE EndScan
  BY <1>6, <1>b DEF EndScan, histVars
<1>7. CASE SendL1A
  BY <1>7, <1>c DEF SendL1A, histVars
<1>8. CASE EndROR
  BY <1>8, <1>b DEF EndROR, histVars
<1>9. CASE StartRead
  BY <1>9, <1>a, <1>b DEF StartRead, histVars, PeekInv
<1>10. CASE SkipEvent
  BY <1>10, <1>b DEF SkipEvent, NextEvent, histVars
<1>11. CASE GetLinkData
  BY <1>11, GetLinkDataEmpty
<1>12. CASE AdvanceLinkReadPtr
  <2>1. IsFiniteSet(lost') /\ Cardinality(lost') <= Cardinality(EmptySubpackets)
    BY <1>12, AdvanceLoss
  <2>2. Batches' = Batches
    BY <1>12, SameBatches DEF AdvanceLinkReadPtr
  <2>3. EmptySubpackets' = EmptySubpackets
    BY <2>2 DEF EmptySubpackets
  <2>4. Owed' = 0
    BY <1>12 DEF Owed, AdvanceLinkReadPtr
  <2>5. Cardinality(lost') \in Nat
    BY <2>1, FS_CardinalityType
  <2>6. QED
    BY <1>a, <2>1, <2>3, <2>4, <2>5 DEF LossInv
<1>13. CASE Consume
  <2>1. EmptySubpackets' = EmptySubpackets
    BY <1>13, ConsumeEmpty
  <2>2. Owed = 0 /\ Owed' = 0 /\ lost' = lost
    BY <1>13 DEF Owed, Consume, NextEvent
  <2>3. QED
    BY <1>a, <2>1, <2>2 DEF LossInv
<1>14. CASE Arrive
  BY <1>14, <1>c DEF Arrive, progVars, histVars
<1>15. CASE ExternalTrigger
  BY <1>15, <1>c DEF ExternalTrigger, progVars, histVars
<1>16. CASE UNCHANGED vars
  BY <1>16, <1>c DEF vars, progVars, histVars
<1>18. CASE MergeL1A
  BY <1>18, <1>c DEF MergeL1A, histVars
<1>17. QED
  BY <1>1, <1>2, <1>3, <1>4, <1>5, <1>6, <1>7, <1>8, <1>9, <1>10, <1>11, <1>12,
     <1>13, <1>14, <1>15, <1>16, <1>18 DEF Next, Program, Terminated

\* LossBound for every board, size and timing: the samples advanceLinkReadPtr throws
\* away are at most as many as the reads that found the FIFO empty.
THEOREM LossCorrect == Spec => []LossBound
<1>1. Init => LossInv
  <2> SUFFICES ASSUME Init PROVE LossInv
    OBVIOUS
  <2>1. AccountInv
    BY AccountInit
  <2>2. EmptyShape
    BY <2>1, EmptyAre DEF AccountInv, OrderInv
  <2>3. EmptySubpackets = {} /\ lost = {} /\ Owed = 0
    BY <2>2 DEF EmptyShape, Init, Owed
  <2>4. IsFiniteSet({}) /\ Cardinality({}) = 0
    BY FS_EmptySet
  <2>5. QED
    BY <2>1, <2>3, <2>4 DEF LossInv
<1>2. LossInv => LossBound
  <2> SUFFICES ASSUME LossInv PROVE LossBound
    OBVIOUS
  <2>1. Cardinality(lost) \in Nat /\ Cardinality(EmptySubpackets) \in Nat
    BY FS_CardinalityType DEF LossInv
  <2>2. Owed \in {0, 1} /\ Cardinality(lost) + Owed <= Cardinality(EmptySubpackets)
    BY DEF LossInv, Owed
  <2>3. QED
    BY <2>1, <2>2 DEF LossBound
<1>3. QED
  BY <1>1, <1>2, LossStep, PTL DEF Spec

-----------------------------------------------------------------------------
(***************************************************************************)
(* DaqRun implements ScanRecord, step by step: the log starts empty, and   *)
(* every step of the program or of the front-end leaves it alone or writes *)
(* the complete entry of the next trigger.  That all of them are written   *)
(* in the end (the fairness of ScanRecord) stays with TLC.                 *)
(***************************************************************************)

(***************************************************************************)
(* When the record can be what the user expects: the pause is long enough, *)
(* no trigger comes from outside, the Bittware register is wide enough for *)
(* every number of samples the user enters, on the others, where requests  *)
(* merge, he enters no more than one, the board that skips events without  *)
(* a sample is asked for at least one, and the session may start with the  *)
(* one sample per trigger the program starts with.  DaqRun_late runs what  *)
(* happens otherwise.                                                      *)
(***************************************************************************)
OneWhereMerging ==
    \A b \in Boards : \A n \in SampleChoices :
        b # "bittware" /\ SoiChoices[b, n] # {} => n <= 1

Undisturbed ==
    /\ Timely /\ MaxExternal = 0
    /\ 1 \in SampleChoices
    /\ "bittware" \in Boards => \A n \in SampleChoices : n < FieldSize
    /\ OneWhereMerging
    /\ "fiberless" \in Boards => 0 \notin SampleChoices

-----------------------------------------------------------------------------
(***************************************************************************)
(* Counting the triggers.                                                  *)
(***************************************************************************)
LEMMA TimesGrows ==
  ASSUME NEW a \in Int, NEW b \in Int, NEW d \in Nat, a <= b
  PROVE  a * d <= b * d
<1>1. b * d = a * d + (b - a) * d
  OBVIOUS
<1>2. (b - a) * d >= 0
  OBVIOUS
<1>3. a * d \in Int /\ b * d \in Int /\ (b - a) * d \in Int
  OBVIOUS
<1>4. QED
  BY <1>1, <1>2, <1>3

\* The quotient and the remainder are what they are made from.
LEMMA DivMod ==
  ASSUME NEW q \in Nat, NEW d \in Nat, NEW r \in Nat, r < d
  PROVE  (q * d + r) \div d = q /\ (q * d + r) % d = r
<1> DEFINE n == q * d + r
           p == n \div d
           m == n % d
<1>1. n \in Nat /\ d > 0 /\ q * d \in Nat
  OBVIOUS
<1>2. p \in Int /\ m \in 0..(d - 1) /\ n = d * p + m
  BY <1>1
<1> HIDE DEF p, m
<1>3. d * p = p * d /\ p * d \in Int
  BY <1>2
<1>4. q * d + r = p * d + m
  BY <1>2, <1>3
<1>5. ~(p + 1 <= q)
  <2> SUFFICES ASSUME p + 1 <= q PROVE FALSE
    OBVIOUS
  <2>1. (p + 1) * d <= q * d
    BY <1>2, TimesGrows
  <2>2. (p + 1) * d = p * d + d
    BY <1>2
  <2>3. QED
    BY <1>1, <1>2, <1>3, <1>4, <2>1, <2>2
<1>6. ~(q + 1 <= p)
  <2> SUFFICES ASSUME q + 1 <= p PROVE FALSE
    OBVIOUS
  <2>1. (q + 1) * d <= p * d
    BY <1>2, TimesGrows
  <2>2. (q + 1) * d = q * d + d
    OBVIOUS
  <2>3. QED
    BY <1>1, <1>2, <1>3, <1>4, <2>1, <2>2
<1>7. p = q
  BY <1>2, <1>5, <1>6
<1>8. m = r
  BY <1>1, <1>2, <1>3, <1>4, <1>7
<1>9. QED
  BY <1>7, <1>8 DEF p, m

\* The trigger that follows s scans, p points and e events.
LEMMA TriggerAt ==
  ASSUME NEW s \in Nat, NEW p \in Nat, NEW e \in Nat,
         s < NScans, p < NPoints, e < NEvents
  PROVE  LET k == s * (NPoints * NEvents) + (p * NEvents + e)
         IN  Record!Trigger(k) = <<s + 1, p + 1, e>> /\ k < Record!Total
<1> DEFINE D == NPoints * NEvents
           k == s * D + (p * NEvents + e)
<1>1. NScans \in Nat /\ NPoints \in Nat /\ NEvents \in Nat /\ D \in Nat
  BY SizeAssumption
<1>2. p * NEvents + e \in Nat /\ p * NEvents + e < D
  <2>1. (p + 1) * NEvents <= NPoints * NEvents
    BY <1>1, TimesGrows
  <2>2. (p + 1) * NEvents = p * NEvents + NEvents /\ p * NEvents \in Nat
    BY <1>1
  <2>3. QED
    BY <1>1, <2>1, <2>2
<1>3. k \div D = s
  <2> HIDE DEF D
  <2>1. QED
    BY <1>1, <1>2, DivMod
<1>4. k = (s * NPoints + p) * NEvents + e /\ s * NPoints \in Nat
  BY <1>1
<1>5. k \div NEvents = s * NPoints + p /\ k % NEvents = e
  <2> HIDE DEF k
  <2>1. s * NPoints + p \in Nat
    BY <1>4
  <2>2. QED
    BY <1>1, <1>4, <2>1, DivMod
<1>6. (k \div NEvents) % NPoints = p
  <2>1. (s * NPoints + p) % NPoints = p
    BY <1>1, DivMod
  <2> HIDE DEF k
  <2>2. QED
    BY <1>5, <2>1
<1>7. k < NScans * NPoints * NEvents
  <2>1. (s + 1) * D <= NScans * D
    BY <1>1, TimesGrows
  <2>2. (s + 1) * D = s * D + D /\ NScans * D = NScans * NPoints * NEvents
    BY <1>1
  <2>3. s * D \in Nat /\ NScans * D \in Nat
    BY <1>1
  <2> HIDE DEF D
  <2>4. QED
    BY <1>1, <1>2, <2>1, <2>2, <2>3
<1>8. QED
  BY <1>1, <1>3, <1>5, <1>6, <1>7 DEF Record!Trigger, Record!Total
-----------------------------------------------------------------------------
(***************************************************************************)
(* The invariant: where the program is in the scan says how many events    *)
(* were written, and, between the trigger and the event, how many samples  *)
(* are on their way, in the FIFO and in the event, all of this trigger.    *)
(***************************************************************************)
Running == pc \in {"trigger", "pause", "read", "advance"}

Taken ==
    scan * (NPoints * NEvents)
    + (IF InScope THEN (point - 1) * NEvents + ievt ELSE point * NEvents)

Setup ==
    /\ samples = l1aPerRor /\ samples \in SampleChoices /\ ext = 0
    /\ board # "bittware" => samples <= 1

Position ==
    /\ point <= NPoints /\ scan <= NScans
    /\ InScope => point >= 1 /\ scan < NScans /\ roc = point
    /\ pc \in {"clear_run", "scan"} => scan < NScans
    /\ pc \in {"idle", "clear_run", "done"} => point = 0
    /\ Running => ievt < NEvents
    /\ pc = "test_end" => ievt = NEvents
    /\ Len(delivered) = Taken

Queues ==
    /\ Running \/ (fifo = <<>> /\ frontend = <<>>)
    /\ pc = "trigger" => Len(fifo) + Len(frontend) = il1a /\ il1a <= l1aPerRor
    /\ pc = "pause" => Len(fifo) + Len(frontend) = samples
    /\ pc \in {"read", "advance"} => frontend = <<>>
    /\ pc = "read" => Len(fifo) + Len(buf) = samples
    /\ pc = "advance" => Len(fifo) + Len(buf) = samples + 1 /\ fifo # <<>>
    /\ pc \in {"read", "advance"} \/ buf = <<>>

Own(d) == d.ror = Ror /\ d.tag = point

Contents ==
    /\ \A i \in DOMAIN fifo : Own(fifo[i])
    /\ \A i \in DOMAIN frontend : Own(frontend[i])
    /\ \A k \in DOMAIN buf : Own(buf[k].data)

RecInv == TypeOK /\ Setup /\ Position /\ Queues /\ Contents

\* A session starts with nothing written and nothing captured.
LEMMA RecInit == Undisturbed /\ Init => RecInv
<1> SUFFICES ASSUME Undisturbed, Init PROVE RecInv
  OBVIOUS
<1>1. TypeOK
  BY DEF Init, TypeOK, Locations
<1>2. Setup
  BY DEF Init, Setup, Undisturbed
<1>3. Position
  <2>1. NScans \in Nat /\ NPoints \in Nat /\ NEvents \in Nat
    BY SizeAssumption
  <2>2. 0 * (NPoints * NEvents) = 0 /\ 0 * NEvents = 0
    BY <2>1
  <2>3. Taken = 0 /\ Len(delivered) = 0
    BY <2>2 DEF Init, Taken, InScope
  <2>4. QED
    BY <2>1, <2>3 DEF Init, Position, InScope, Running
<1>4. Queues
  BY DEF Init, Queues, Running
<1>5. Contents
  BY DEF Init, Contents
<1>6. QED
  BY <1>1, <1>2, <1>3, <1>4, <1>5 DEF RecInv

\* DAQ.SETUP.CONFIG keeps the register and the number of samples in step.
LEMMA ConfigureSetup == Undisturbed /\ RecInv /\ Configure => Setup'
<1> SUFFICES ASSUME Undisturbed, RecInv, Configure PROVE Setup'
  OBVIOUS
<1>1. PICK n \in SampleChoices :
          /\ samples' = n /\ l1aPerRor' = KeptL1AperROR(n)
          /\ SoiChoices[board, n] # {}
  BY DEF Configure
<1>2. KeptL1AperROR(n) = n
  <2>1. CASE board = "bittware"
    <3>1. n \in Nat /\ FieldSize \in Nat /\ n < FieldSize
      BY <2>1, SizeAssumption DEF Undisturbed, RecInv, TypeOK
    <3>2. n % FieldSize = n
      BY <3>1
    <3>3. QED
      BY <3>2 DEF KeptL1AperROR
  <2>2. CASE board # "bittware"
    BY <2>2 DEF KeptL1AperROR
  <2>3. QED
    BY <2>1, <2>2
<1>3. ext' = 0
  BY DEF Configure, hwVars, RecInv, Setup
<1>4. board' = board /\ board \in Boards /\ n \in Nat
  BY SizeAssumption DEF Configure, hwVars, RecInv, TypeOK
<1>5. board # "bittware" => n <= 1
  <2>1. OneWhereMerging
    BY DEF Undisturbed
  <2>2. QED
    BY <1>1, <1>4, <2>1, Zenon DEF OneWhereMerging
<1>6. QED
  BY <1>1, <1>2, <1>3, <1>4, <1>5 DEF Setup

\* Every step keeps the program in step with the trigger it sent.
LEMMA RecStep == Undisturbed /\ RecInv /\ [Next]_vars => RecInv'
<1> SUFFICES ASSUME Undisturbed, RecInv, [Next]_vars
             PROVE  Setup' /\ Position' /\ Queues' /\ Contents'
  BY TypeStep DEF RecInv
<1>a. /\ TypeOK /\ TypeOK' /\ Setup /\ Position /\ Queues /\ Contents
      /\ NScans \in Nat /\ NPoints \in Nat /\ NEvents \in Nat
  BY TypeStep, SizeAssumption DEF RecInv
<1>b. /\ scan \in Nat /\ point \in Nat /\ ievt \in Nat /\ il1a \in Nat
      /\ samples \in Nat /\ l1aPerRor \in Nat
      /\ fifo \in Seq(Sample) /\ frontend \in Seq(Sample) /\ buf \in Seq(Subpacket)
      /\ Len(fifo) \in Nat /\ Len(frontend) \in Nat /\ Len(buf) \in Nat
      /\ delivered \in Seq(Event)
  <2>1. /\ scan \in Nat /\ point \in Nat /\ ievt \in Nat /\ il1a \in Nat
        /\ samples \in Nat /\ l1aPerRor \in Nat /\ delivered \in Seq(Event)
        /\ fifo \in Seq(Sample) /\ frontend \in Seq(Sample) /\ buf \in Seq(Subpacket)
    BY <1>a DEF TypeOK
  <2>2. Len(fifo) \in Nat /\ Len(frontend) \in Nat /\ Len(buf) \in Nat
    BY <2>1
  <2>3. QED
    BY <2>1, <2>2
<1>1. CASE Configure
  <2>1. Setup'
    BY <1>1, ConfigureSetup
  <2>2. Position'
    BY <1>1, <1>a DEF Configure, hwVars, histVars, Position, InScope, Running, Taken
  <2>3. Queues' /\ Contents'
    BY <1>1, <1>a DEF Configure, hwVars, histVars, Queues, Contents, Running, Own, Ror
  <2>4. QED
    BY <2>1, <2>2, <2>3
<1>2. CASE DaqReset
  <2>1. Setup' /\ Position'
    BY <1>2, <1>a DEF DaqReset, Setup, Position, InScope, Running, Taken
  <2>2. Queues' /\ Contents'
    BY <1>2, <1>a DEF DaqReset, Queues, Contents, Running, Own, Ror
  <2>3. QED
    BY <2>1, <2>2
<1>3. CASE ClearRun
  <2>1. Setup' /\ Position'
    BY <1>3, <1>a DEF ClearRun, Setup, Position, InScope, Running, Taken
  <2>2. Queues' /\ Contents'
    BY <1>3, <1>a DEF ClearRun, Queues, Contents, Running, Own, Ror
  <2>3. QED
    BY <2>1, <2>2
<1>4. CASE ApplyPoint
  <2>1. Setup'
    BY <1>4, <1>a DEF ApplyPoint, Setup
  <2>2. Position'
    <3>2. Taken' = Taken
      <4>1. Taken = scan * (NPoints * NEvents) + point * NEvents
        BY <1>4 DEF ApplyPoint, Taken, InScope
      <4>a. /\ point' = point + 1 /\ ievt' = 0 /\ scan' = scan
            /\ pc' \in {"trigger", "test_end"}
        BY <1>4 DEF ApplyPoint
      <4>b. InScope'
        BY <4>a DEF InScope
      <4>c. Taken' = scan' * (NPoints * NEvents) + ((point' - 1) * NEvents + ievt')
        BY <4>b, Zenon DEF Taken
      <4>d. point' - 1 = point /\ point * NEvents \in Nat
        BY <1>a, <1>b, <4>a
      <4>2. Taken' = scan * (NPoints * NEvents) + (point * NEvents + 0)
        BY <4>a, <4>c, <4>d
      <4>3. QED
        BY <4>1, <4>2, <4>d
    <3>3. QED
      BY <1>4, <1>a, <1>b, <3>2 DEF ApplyPoint, Position, InScope, Running, histVars
  <2>3. Queues' /\ Contents'
    BY <1>4, <1>a, <1>b DEF ApplyPoint, Queues, Contents, Running, Own, Ror
  <2>4. QED
    BY <2>1, <2>2, <2>3
<1>5. CASE EndPoint
  <2>1. Setup'
    BY <1>5, <1>a DEF EndPoint, Setup
  <2>2. Position'
    <3>1. (point - 1) * NEvents + NEvents = point * NEvents
      BY <1>a, <1>b
    <3>2. Taken' = Taken
      BY <1>5, <1>a, <3>1 DEF EndPoint, Taken, InScope, Position
    <3>3. QED
      BY <1>5, <1>a, <1>b, <3>2 DEF EndPoint, Position, InScope, Running, histVars
  <2>3. Queues' /\ Contents'
    BY <1>5, <1>a DEF EndPoint, Queues, Contents, Running, Own, Ror
  <2>4. QED
    BY <2>1, <2>2, <2>3
<1>6. CASE EndScan
  <2>1. Setup'
    BY <1>6, <1>a DEF EndScan, Setup, hwVars
  <2>2. Position'
    <3>1. (scan + 1) * (NPoints * NEvents) + 0 * NEvents
             = scan * (NPoints * NEvents) + NPoints * NEvents
      BY <1>a, <1>b
    <3>2. Taken' = Taken
      BY <1>6, <3>1 DEF EndScan, Taken, InScope
    <3>3. QED
      BY <1>6, <1>a, <1>b, <3>2 DEF EndScan, Position, InScope, Running, hwVars, histVars
  <2>3. Queues' /\ Contents'
    BY <1>6, <1>a DEF EndScan, Queues, Contents, Running, Own, Ror, hwVars
  <2>4. QED
    BY <2>1, <2>2, <2>3
<1>7. CASE SendL1A
  <2> DEFINE new == [id |-> l1a + 1, ror |-> Ror, tag |-> roc]
  <2>1. /\ frontend' = Append(frontend, new) /\ fifo' = fifo /\ buf' = buf
        /\ pc = "trigger" /\ pc' = "trigger" /\ il1a' = il1a + 1 /\ il1a < l1aPerRor
        /\ UNCHANGED <<board, samples, soi, l1aPerRor, scan, point, ievt, roc, ext,
                       delivered>>
    BY <1>7 DEF SendL1A, L1A, histVars
  <2>2. Own(new)
    BY <1>a, <2>1 DEF Own, Position, InScope
  <2> HIDE DEF new
  <2>3. /\ Len(frontend') = Len(frontend) + 1
        /\ DOMAIN frontend' = 1..(Len(frontend) + 1) /\ DOMAIN frontend = 1..Len(frontend)
        /\ \A i \in DOMAIN frontend : frontend'[i] = frontend[i]
        /\ frontend'[Len(frontend) + 1] = new
    BY <1>b, <2>1
  <2>4. Setup' /\ Position'
    BY <1>a, <2>1 DEF Setup, Position, InScope, Running, Taken
  <2>5. Queues'
    BY <1>a, <1>b, <2>1, <2>3 DEF Queues, Running
  <2>6. Contents'
    <3>1. \A i \in DOMAIN frontend' : i \in DOMAIN frontend \/ i = Len(frontend) + 1
      BY <1>b, <2>3
    <3>2. \A i \in DOMAIN frontend' : Own(frontend'[i])
      BY <1>a, <2>2, <2>3, <3>1 DEF Contents
    <3>3. QED
      BY <1>a, <2>1, <3>2 DEF Contents, Own, Ror
  <2>7. QED
    BY <2>4, <2>5, <2>6
<1>8. CASE EndROR
  <2>1. Setup' /\ Position'
    BY <1>8, <1>a DEF EndROR, Setup, Position, InScope, Running, Taken, hwVars, histVars
  <2>2. Queues' /\ Contents'
    BY <1>8, <1>a DEF EndROR, Setup, Queues, Contents, Running, Own, Ror, hwVars
  <2>3. QED
    BY <2>1, <2>2
<1>9. CASE StartRead
  <2>1. Setup' /\ Position'
    BY <1>9, <1>a DEF StartRead, Setup, Position, InScope, Running, Taken, hwVars, histVars
  <2>2. frontend = <<>>
    BY <1>9 DEF StartRead, Undisturbed
  <2>3. Queues' /\ Contents'
    BY <1>9, <1>a, <1>b, <2>2 DEF StartRead, Queues, Contents, Running, Own, Ror, hwVars
  <2>4. QED
    BY <2>1, <2>3
<1>10. CASE SkipEvent
  <2>1. board = "fiberless" /\ fifo = <<>> /\ frontend = <<>> /\ pc = "pause"
    BY <1>10 DEF SkipEvent, Undisturbed
  <2>2. samples = 0
    BY <1>a, <2>1 DEF Queues
  <2>3. 0 \notin SampleChoices
    BY <1>a, <2>1, BoardAssumption DEF Undisturbed, TypeOK
  <2>4. QED
    BY <1>a, <2>2, <2>3 DEF Setup
<1>11. CASE GetLinkData
  <2> DEFINE sub == [index |-> Len(buf), soi |-> Len(buf) = soi, data |-> LinkData]
  <2>1. /\ buf' = Append(buf, sub) /\ pc = "read" /\ pc' = "advance" /\ Len(buf) < samples
        /\ UNCHANGED <<board, samples, soi, l1aPerRor, scan, point, ievt, roc, ext,
                       frontend, fifo, delivered>>
    BY <1>11 DEF GetLinkData, hwVars, histVars
  <2>2. fifo # <<>>
    BY <1>a, <1>b, <2>1 DEF Queues
  <2>3. sub.data = fifo[1] /\ 1 \in DOMAIN fifo
    BY <1>b, <2>2 DEF LinkData
  <2>4. sub \in Subpacket
    BY <1>a, <1>b, LinkDataType DEF Subpacket, TypeOK
  <2> HIDE DEF sub
  <2>5. /\ Len(buf') = Len(buf) + 1
        /\ \A k \in DOMAIN buf' : k \in DOMAIN buf \/ k = Len(buf) + 1
        /\ \A k \in DOMAIN buf : buf'[k] = buf[k]
        /\ buf'[Len(buf) + 1] = sub
    BY <1>b, <2>1, <2>4
  <2>6. Setup' /\ Position'
    BY <1>a, <2>1 DEF Setup, Position, InScope, Running, Taken
  <2>7. Queues'
    <3>1. Len(fifo) + Len(buf) = samples /\ frontend = <<>>
      BY <1>a, <2>1 DEF Queues
    <3>2. Len(fifo) + Len(buf') = samples + 1
      <4>1. Len(buf') = Len(buf) + 1 /\ Len(fifo) \in Nat /\ Len(buf) \in Nat
        BY <1>b, <2>5
      <4>2. QED
        BY <3>1, <4>1
    <3>3. QED
      BY <2>1, <2>2, <3>1, <3>2 DEF Queues, Running
  <2>8. Contents'
    <3>1. \A k \in DOMAIN buf' : Own(buf'[k].data)
      BY <1>a, <2>3, <2>5 DEF Contents
    <3>2. QED
      BY <1>a, <2>1, <3>1 DEF Contents, Own, Ror
  <2>9. QED
    BY <2>6, <2>7, <2>8
<1>12. CASE AdvanceLinkReadPtr
  <2>1. /\ pc = "advance" /\ pc' = "read" /\ fifo # <<>> /\ fifo' = Tail(fifo)
        /\ UNCHANGED <<board, samples, soi, l1aPerRor, scan, point, ievt, roc, ext,
                       frontend, buf, delivered>>
    BY <1>12, <1>a DEF AdvanceLinkReadPtr, Queues
  <2>2. /\ Len(fifo') = Len(fifo) - 1
        /\ \A i \in DOMAIN fifo' : i + 1 \in DOMAIN fifo /\ fifo'[i] = fifo[i + 1]
    BY <1>b, <2>1
  <2>3. Setup' /\ Position'
    BY <1>a, <2>1 DEF Setup, Position, InScope, Running, Taken
  <2>4. Queues'
    BY <1>a, <1>b, <2>1, <2>2 DEF Queues, Running
  <2>5. Contents'
    BY <1>a, <2>1, <2>2 DEF Contents, Own, Ror
  <2>6. QED
    BY <2>3, <2>4, <2>5
<1>13. CASE Consume
  <2> DEFINE e == [scan |-> scan + 1, point |-> point, ievt |-> ievt, subpackets |-> buf]
  <2>1. /\ pc = "read" /\ Len(buf) = samples /\ buf' = <<>>
        /\ delivered' = Append(delivered, e)
        /\ ievt' = ievt + 1 /\ il1a' = 0
        /\ pc' = IF ievt + 1 < NEvents THEN "trigger" ELSE "test_end"
        /\ UNCHANGED <<board, samples, soi, l1aPerRor, scan, point, roc, ext,
                       frontend, fifo>>
    BY <1>13 DEF Consume, NextEvent, hwVars
  <2>2. fifo = <<>> /\ frontend = <<>>
    BY <1>a, <1>b, <2>1 DEF Queues
  <2>3. e \in Event
    BY <1>b DEF Event
  <2> HIDE DEF e
  <2>4. Len(delivered') = Len(delivered) + 1
    BY <1>b, <2>1, <2>3
  <2>5. Position'
    <3>1. (point - 1) * NEvents \in Int /\ scan * (NPoints * NEvents) \in Int
      BY <1>a, <1>b
    <3>2. Taken = scan * (NPoints * NEvents) + ((point - 1) * NEvents + ievt)
      BY <2>1 DEF Taken, InScope
    <3>3. Taken' = scan * (NPoints * NEvents) + ((point - 1) * NEvents + (ievt + 1))
      BY <2>1 DEF Taken, InScope
    <3>4. Taken' = Taken + 1
      <4> DEFINE u == scan * (NPoints * NEvents)
                 v == (point - 1) * NEvents
      <4>1. u \in Int /\ v \in Int /\ ievt \in Int
        BY <1>b, <3>1
      <4>2. Taken = u + (v + ievt) /\ Taken' = u + (v + (ievt + 1))
        BY <3>2, <3>3
      <4> HIDE DEF u, v
      <4>3. QED
        BY <4>1, <4>2
    <3>5. QED
      BY <1>a, <1>b, <2>1, <2>4, <3>4 DEF Position, InScope, Running
  <2>6. Setup' /\ Queues'
    BY <1>a, <1>b, <2>1, <2>2 DEF Setup, Queues, Running
  <2>7. Contents'
    BY <2>1, <2>2 DEF Contents
  <2>8. QED
    BY <2>5, <2>6, <2>7
<1>14. CASE Arrive
  <2>1. /\ frontend # <<>> /\ fifo' = Append(fifo, Head(frontend))
        /\ frontend' = Tail(frontend)
        /\ UNCHANGED <<board, pc, samples, soi, l1aPerRor, scan, point, ievt, il1a, roc,
                       ext, buf, delivered>>
    BY <1>14 DEF Arrive, progVars, histVars
  <2>2. /\ Len(frontend') = Len(frontend) - 1 /\ Len(fifo') = Len(fifo) + 1
        /\ 1 \in DOMAIN frontend
        /\ \A i \in DOMAIN frontend' :
              i + 1 \in DOMAIN frontend /\ frontend'[i] = frontend[i + 1]
        /\ \A i \in DOMAIN fifo' : i \in DOMAIN fifo \/ i = Len(fifo) + 1
        /\ \A i \in DOMAIN fifo : fifo'[i] = fifo[i]
        /\ fifo'[Len(fifo) + 1] = frontend[1]
    BY <1>b, <2>1
  <2>3. pc \in {"trigger", "pause"}
    BY <1>a, <2>1 DEF Queues, Running
  <2>4. Setup' /\ Position'
    BY <1>a, <2>1 DEF Setup, Position, InScope, Running, Taken
  <2>5. Queues'
    <3>1. Len(fifo') + Len(frontend') = Len(fifo) + Len(frontend) /\ buf = <<>>
      BY <1>a, <1>b, <2>2, <2>3 DEF Queues
    <3>2. /\ pc = "trigger" => Len(fifo) + Len(frontend) = il1a /\ il1a <= l1aPerRor
          /\ pc = "pause" => Len(fifo) + Len(frontend) = samples
      BY <1>a DEF Queues
    <3>3. CASE pc = "trigger"
      BY <2>1, <3>1, <3>2, <3>3 DEF Queues, Running
    <3>4. CASE pc = "pause"
      BY <2>1, <3>1, <3>2, <3>4 DEF Queues, Running
    <3>5. QED
      BY <2>3, <3>3, <3>4
  <2>6. Contents'
    BY <1>a, <2>1, <2>2 DEF Contents, Own, Ror
  <2>7. QED
    BY <2>4, <2>5, <2>6
<1>15. CASE ExternalTrigger
  BY <1>15, <1>a DEF ExternalTrigger, Setup, Undisturbed
<1>16. CASE UNCHANGED vars
  <2>1. Setup' /\ Position'
    BY <1>16, <1>a DEF vars, progVars, hwVars, histVars, Setup, Position, InScope, Running, Taken
  <2>2. Queues' /\ Contents'
    BY <1>16, <1>a DEF vars, progVars, hwVars, histVars, Queues, Contents, Running, Own, Ror
  <2>3. QED
    BY <2>1, <2>2
<1>18. CASE MergeL1A
  <2>1. board # "bittware" /\ il1a > 0 /\ il1a < l1aPerRor
    BY <1>18 DEF MergeL1A, Undisturbed
  <2>2. QED
    BY <1>a, <1>b, <2>1 DEF Setup
<1>17. QED
  BY <1>1, <1>2, <1>3, <1>4, <1>5, <1>6, <1>7, <1>8, <1>9, <1>10, <1>11, <1>12,
     <1>13, <1>14, <1>15, <1>16, <1>18 DEF Next, Program, Terminated
-----------------------------------------------------------------------------
Log == [i \in DOMAIN delivered |-> Logged(delivered[i])]

\* The event consume writes is the complete entry of the next trigger.
LEMMA ConsumeTakes ==
  ASSUME Undisturbed, RecInv, Consume
  PROVE  Record!Take
<1> DEFINE e == [scan |-> scan + 1, point |-> point, ievt |-> ievt, subpackets |-> buf]
<1>1. /\ pc = "read" /\ Len(buf) = samples /\ delivered' = Append(delivered, e)
      /\ TypeOK /\ Setup /\ Position /\ Contents
  BY DEF RecInv, Consume
<1>2. /\ scan \in Nat /\ point \in Nat /\ ievt \in Nat
      /\ buf \in Seq(Subpacket) /\ delivered \in Seq(Event) /\ e \in Event
  BY <1>1 DEF TypeOK, Event
<1>3. /\ Len(delivered) = scan * (NPoints * NEvents) + ((point - 1) * NEvents + ievt)
      /\ scan < NScans /\ point - 1 \in Nat /\ point - 1 < NPoints /\ ievt < NEvents
  BY <1>1, <1>2, SizeAssumption DEF Position, Taken, InScope, Running
<1>4. /\ Record!Trigger(Len(delivered)) = <<scan + 1, point, ievt>>
      /\ Len(delivered) < Record!Total
  BY <1>2, <1>3, TriggerAt
<1>5. Logged(e) = Record!Entry(Record!Trigger(Len(delivered)), samples)
  <2>1. DOMAIN buf = 1..samples
    BY <1>1, <1>2
  <2>2. \A k \in DOMAIN buf : buf[k].data.ror = <<scan + 1, point, ievt>>
                              /\ buf[k].data.tag = point
    BY <1>1 DEF Contents, Own, Ror
  <2>3. Logged(e) = [trigger |-> <<scan + 1, point, ievt>>,
                     samples |-> [k \in DOMAIN buf |->
                        [ror |-> buf[k].data.ror, tag |-> buf[k].data.tag]]]
    BY DEF Logged
  <2>4. [k \in DOMAIN buf |-> [ror |-> buf[k].data.ror, tag |-> buf[k].data.tag]]
        = [k \in 1..samples |-> [ror |-> <<scan + 1, point, ievt>>, tag |-> point]]
    BY <2>1, <2>2
  <2>5. <<scan + 1, point, ievt>>[2] = point
    OBVIOUS
  <2>6. Record!Entry(<<scan + 1, point, ievt>>, samples)
        = [trigger |-> <<scan + 1, point, ievt>>,
           samples |-> [k \in 1..samples |->
              [ror |-> <<scan + 1, point, ievt>>, tag |-> point]]]
    BY <2>5 DEF Record!Entry
  <2>7. QED
    BY <1>4, <2>3, <2>4, <2>6
<1> HIDE DEF e
<1>6. /\ DOMAIN delivered = 1..Len(delivered) /\ Len(delivered) \in Nat
      /\ DOMAIN delivered' = 1..(Len(delivered) + 1)
      /\ \A i \in DOMAIN delivered : delivered'[i] = delivered[i]
      /\ delivered'[Len(delivered) + 1] = e
  BY <1>1, <1>2
<1>7. Log \in Seq({Logged(delivered[i]) : i \in DOMAIN delivered}) /\ Len(Log) = Len(delivered)
  BY <1>6 DEF Log
<1>8. Log' = Append(Log, Logged(e))
  <2>1. DOMAIN Log' = 1..(Len(delivered) + 1)
    BY <1>6 DEF Log
  <2>2. QED
    BY <1>6, <1>7, <2>1 DEF Log
<1>9. QED
  BY <1>1, <1>4, <1>5, <1>7, <1>8 DEF Record!Take, Log, Setup

\* DaqRun implements ScanRecord: a session of scans writes the entries its user
\* expects, each complete, of the right trigger and under the right setting, and in
\* the order of the triggers (daq_run, read_event_sw_headers, consume).
THEOREM ImplementsRecord == Undisturbed => (Spec => Record!Safe)
<1> SUFFICES ASSUME Undisturbed PROVE Spec => Record!Safe
  OBVIOUS
<1>1. Init => Record!Init
  BY DEF Init, Record!Init
<1>2. RecInv /\ [Next]_vars => [Record!Take]_Log
  <2> SUFFICES ASSUME RecInv, [Next]_vars, delivered' # delivered
               PROVE  Record!Take
    BY DEF Log
  <2>1. Consume
    BY DEF Next, Program, Terminated, vars, progVars, hwVars, histVars, Configure, DaqReset,
       ClearRun, ApplyPoint, EndPoint, EndScan, SendL1A, MergeL1A, EndROR, StartRead,
       SkipEvent, GetLinkData, AdvanceLinkReadPtr, Arrive, ExternalTrigger
  <2>2. QED
    BY <2>1, ConsumeTakes
<1>3. QED
  BY <1>1, <1>2, RecInit, RecStep, PTL DEF Spec, Record!Safe, Log
=============================================================================
