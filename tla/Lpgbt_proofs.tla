---------------------------- MODULE Lpgbt_proofs ----------------------------
(***************************************************************************)
(* Proofs about the lpGBT.  IcecTransport: type correctness, and that on   *)
(* the Bittware no read returns anything but what was written unless the   *)
(* program has said so, however late, slow or lost the answers are.        *)
(* LpgbtChip and LpgbtBench: the pin test passes exactly the good boards,  *)
(* no finished service leaves a unit running, a name always leads to the   *)
(* pin it was last given to, and every pin, link, clock, register, voltage *)
(* and field is as the last finished call left it (of a link out: whether  *)
(* it is on, and of the one that shares no register, whether it is         *)
(* inverted), for every service and every place where one may break off.   *)
(***************************************************************************)
EXTENDS IcecInvariants, LpgbtInvariants, SequenceTheorems, WellFoundedInduction, TLAPS

(***************************************************************************)
(* Type correctness, with what the program knows of its call (TypeInv).    *)
(***************************************************************************)
LEMMA ValuesInt == Values \subseteq Int
  BY SizeAssumption

\* The values of a write and where they go.
LEMMA WriteIs ==
  ASSUME CallOK, call.kind = "write"
  PROVE  /\ call.reg \in Nat /\ call.values \in Seq(Values) /\ call.values # <<>>
         /\ call.reg + Len(call.values) <= Registers /\ Len(call.values) \in Nat
         /\ DOMAIN call.values = 1..Len(call.values)
         /\ \A i \in 1..Len(call.values) : call.values[i] \in Values
         /\ ShortWrites => Len(call.values) <= Chunk
<1>1. PICK c \in Writes : call.reg = c[1] /\ call.values = c[2] BY DEF CallOK
<1>2. c[1] \in Nat /\ c[2] \in Seq(Values) /\ c[2] # <<>> /\ c[1] + Len(c[2]) <= Registers
  BY CallAssumption
<1>3. ShortWrites => Len(call.values) <= Chunk BY <1>1 DEF ShortWrites
<1>4. QED BY <1>1, <1>2, <1>3

\* The frame under way has a register at least and is inside the call.
LEMMA SizeIs ==
  ASSUME TypeInv, Reading
  PROVE  /\ Size \in 1..Chunk /\ off + Size <= call.n /\ off \in Nat
         /\ call.reg \in Nat /\ call.n \in Nat /\ call.reg + call.n <= Registers
<1>1. /\ off \in Nat /\ call.n \in Nat /\ off < call.n /\ Chunk \in Nat /\ Chunk > 0
      /\ call.reg \in Nat /\ call.reg + call.n <= Registers
  BY SizeAssumption DEF TypeInv, TypeOK, CallOK, Progress
<1>2. Size = IF Chunk < call.n - off THEN Chunk ELSE call.n - off BY DEF Size, Less
<1>3. QED BY <1>1, <1>2

\* An answer is bytes.
LEMMA AnswerType ==
  ASSUME mem \in [Address -> Values], NEW r \in Nat, NEW n \in Nat, r + n <= Registers
  PROVE  /\ Answer(r, n) \in Seq(Int) /\ Len(Answer(r, n)) = Header + n
         /\ \A k \in 1..(Header + n) :
               Answer(r, n)[k] = IF k <= Header THEN HeaderByte ELSE mem[r + (k - Header) - 1]
<1> DEFINE a == [i \in 1..Header |-> HeaderByte]
           b == [i \in 1..n |-> mem[r + i - 1]]
<1>1. Header \in Nat /\ HeaderByte \in Int BY SizeAssumption DEF HeaderByte
<1>2. \A i \in 1..n : r + i - 1 \in Address BY SizeAssumption DEF Address
<1>3. \A i \in 1..n : mem[r + i - 1] \in Int BY <1>2, ValuesInt
<1>4. a \in [1..Header -> Int] /\ b \in [1..n -> Int] BY <1>1, <1>3
<1>5. a \in Seq(Int) /\ Len(a) = Header /\ b \in Seq(Int) /\ Len(b) = n BY <1>1, <1>4
<1>6. \A k \in 1..(Header + n) : (a \o b)[k] = IF k <= Header THEN a[k] ELSE b[k - Header]
  BY <1>1, <1>5
<1>7. a \o b \in Seq(Int) /\ Len(a \o b) = Header + n
  <2> HIDE DEF a, b
  <2>1. QED BY <1>5, ConcatProperties
<1>8. \A k \in 1..(Header + n) :
         (a \o b)[k] = IF k <= Header THEN HeaderByte ELSE mem[r + (k - Header) - 1]
  <2> SUFFICES ASSUME NEW k \in 1..(Header + n)
               PROVE (a \o b)[k] = IF k <= Header THEN HeaderByte ELSE mem[r + (k - Header) - 1]
    OBVIOUS
  <2>1. CASE k <= Header BY <1>1, <1>6, <2>1
  <2>2. CASE ~(k <= Header)
    <3>1. k - Header \in 1..n BY <1>1, <2>2
    <3>2. b[k - Header] = mem[r + (k - Header) - 1] BY <3>1
    <3>3. QED BY <1>6, <2>2, <3>2
  <2>3. QED BY <2>1, <2>2
<1>9. Answer(r, n) = a \o b BY DEF Answer
<1> HIDE DEF a, b
<1>10. QED BY <1>7, <1>8, <1>9

LEMMA TypeInit == Init => TypeInv
<1> SUFFICES ASSUME Init PROVE TypeInv
  OBVIOUS
<1>1. mem \in [Address -> Values] BY DEF Init
<1>2. ToSet(<<>>) = {} BY DEF ToSet
<1>3. TypeOK
  <2>1. 0 \in 0..(MaxTries - 1) /\ 0 \in 0..Registers /\ 0 \in 0..Chunk BY SizeAssumption
  <2>2. Len(<<>>) = 0 /\ 0 <= Chunk /\ 0 <= Registers BY SizeAssumption
  <2>3. QED BY <1>1, <1>2, <2>1, <2>2 DEF Init, TypeOK
<1>4. CallOK /\ Progress /\ Queues BY DEF Init, CallOK, Progress, Reading, Queues
<1>5. QED BY <1>3, <1>4 DEF TypeInv

\* An exception leaves everything in its type.
LEMMA FailType == TypeInv /\ Fail => TypeInv'
<1> SUFFICES ASSUME TypeInv, Fail PROVE TypeInv'
  OBVIOUS
<1>1. /\ pc' = "idle" /\ warned' = TRUE /\ call' = [kind |-> "none"]
      /\ UNCHANGED <<off, wc, ic, tries, got, result, tx, rx, pending, wire, mem,
                     calls, lost, expected>>
  BY DEF Fail, link
<1>2. TypeOK' BY <1>1 DEF TypeInv, TypeOK
<1>3. CallOK' /\ Progress' /\ Queues' BY <1>1 DEF TypeInv, CallOK, Progress, Reading, Queues
<1>4. QED BY <1>2, <1>3 DEF TypeInv

\* One step of the lpGBT, the bridge or the program keeps every type.
LEMMA TypeStep == TypeInv /\ [Next]_vars => TypeInv'
<1> SUFFICES ASSUME TypeInv, [Next]_vars PROVE TypeInv'
  OBVIOUS
<1>a. /\ TypeOK /\ CallOK /\ Progress /\ Queues
      /\ Registers \in Nat /\ Chunk \in Nat /\ Chunk > 0 /\ Header \in Nat
      /\ MaxTries \in Nat /\ MaxTries > 0
  BY SizeAssumption DEF TypeInv
<1>b. off \in Nat /\ wc \in Nat /\ ic \in Nat /\ tries \in Nat BY <1>a DEF TypeOK
<1>c. ASSUME pending # <<>>
      PROVE  /\ Head(pending) \in Frame /\ Tail(pending) \in Seq(Frame)
  BY <1>a, <1>c DEF Queues
<1>1. CASE ServeRead
  <2>1. /\ pending # <<>> /\ Head(pending).kind = "read"
        /\ wire' = wire \o Answer(Head(pending).reg, Head(pending).n)
        /\ pending' = Tail(pending)
        /\ UNCHANGED <<pc, call, off, wc, ic, tries, got, result, tx, rx, mem,
                       calls, lost, expected, warned>>
    BY <1>1 DEF ServeRead, prog, hist
  <2>2. /\ Head(pending).reg \in Nat /\ Head(pending).n \in Nat
        /\ Head(pending).reg + Head(pending).n <= Registers
    BY <1>c, <2>1 DEF Frame
  <2>3. Answer(Head(pending).reg, Head(pending).n) \in Seq(Int) BY <1>a, <2>2, AnswerType DEF TypeOK
  <2>4. wire' \in Seq(Int) BY <1>a, <2>1, <2>3, ConcatProperties DEF Queues
  <2>5. TypeOK' /\ CallOK' /\ Progress' BY <1>a, <2>1 DEF TypeOK, CallOK, Progress, Reading, Size
  <2>6. Queues' BY <1>a, <1>c, <2>1, <2>4 DEF Queues
  <2>7. QED BY <2>5, <2>6 DEF TypeInv
<1>2. CASE LoseAnswer
  <2>1. /\ pending # <<>> /\ pending' = Tail(pending)
        /\ UNCHANGED <<pc, call, off, wc, ic, tries, got, result, tx, rx, wire, mem,
                       expected, warned>>
    BY <1>2 DEF LoseAnswer, prog
  <2>2. TypeOK' /\ CallOK' /\ Progress' BY <1>a, <2>1 DEF TypeOK, CallOK, Progress, Reading, Size
  <2>3. Queues' BY <1>a, <1>c, <2>1 DEF Queues
  <2>4. QED BY <2>2, <2>3 DEF TypeInv
<1>3. CASE ServeWrite
  <2>1. /\ pending # <<>> /\ pending' = Tail(pending) /\ tx' = <<>>
        /\ mem' = [a \in Address |->
                      LET i == a - Head(pending).reg + 1
                      IN  IF i \in DOMAIN tx THEN tx[i] ELSE mem[a]]
        /\ UNCHANGED <<pc, call, off, wc, ic, tries, got, result, rx, wire,
                       calls, lost, expected, warned>>
    BY <1>3 DEF ServeWrite, prog, hist
  <2>2. mem' \in [Address -> Values]
    <3>1. \A i \in DOMAIN tx : tx[i] \in Values BY <1>a DEF Queues
    <3>2. \A a \in Address : mem[a] \in Values BY <1>a DEF TypeOK
    <3>3. QED BY <2>1, <3>1, <3>2
  <2>3. ToSet(tx') = {} BY <2>1 DEF ToSet
  <2>4. TypeOK' /\ CallOK' /\ Progress'
    BY <1>a, <2>1, <2>2, <2>3 DEF TypeOK, CallOK, Progress, Reading, Size
  <2>5. Queues' BY <1>a, <1>c, <2>1 DEF Queues
  <2>6. QED BY <2>4, <2>5 DEF TypeInv
<1>4. CASE ByteArrives
  <2>1. /\ wire # <<>> /\ rx' = Append(rx, Head(wire)) /\ wire' = Tail(wire)
        /\ UNCHANGED <<pc, call, off, wc, ic, tries, got, result, tx, pending, mem,
                       calls, lost, expected, warned>>
    BY <1>4 DEF ByteArrives, prog, hist
  <2>2. TypeOK' /\ CallOK' /\ Progress' BY <1>a, <2>1 DEF TypeOK, CallOK, Progress, Reading, Size
  <2>3. Queues' BY <1>a, <2>1 DEF Queues
  <2>4. QED BY <2>2, <2>3 DEF TypeInv
<1>5. CASE CallRead
  <2>1. PICK c \in Reads : call' = [kind |-> "read", reg |-> c[1], n |-> c[2]] BY <1>5 DEF CallRead
  <2>2. c[1] \in Nat /\ c[2] \in Nat /\ c[2] > 0 /\ c[1] + c[2] <= Registers BY CallAssumption
  <2>3. /\ off' = 0 /\ tries' = 0 /\ result' = <<>> /\ got' = <<>> /\ wc' = 0
        /\ pc' = "start_read"
        /\ UNCHANGED <<ic, tx, rx, pending, wire, mem, lost, expected, warned>>
    BY <1>5 DEF CallRead, link
  <2>4. /\ 0 \in 0..(MaxTries - 1) /\ 0 \in 0..Registers /\ 0 <= Chunk /\ Len(<<>>) = 0
        /\ call'.kind = "read" /\ call'.reg = c[1] /\ call'.n = c[2]
    BY <1>a, <2>1
  <2>5. TypeOK' BY <1>a, <2>3, <2>4 DEF TypeOK
  <2>6. CallOK' /\ Progress' /\ Queues'
    BY <1>a, <2>2, <2>3, <2>4 DEF CallOK, Progress, Reading, Queues
  <2>7. QED BY <2>5, <2>6 DEF TypeInv
<1>6. CASE StartRead
  <2> DEFINE f == [kind |-> "read", reg |-> call.reg + off, n |-> Size]
  <2>1. /\ pc = "start_read" /\ pc' = "poll_rx" /\ got' = <<>> /\ wc' = 0
        /\ pending' = Append(pending, f)
        /\ UNCHANGED <<call, off, ic, tries, result, tx, rx, wire, mem,
                       calls, lost, expected, warned>>
    BY <1>6 DEF StartRead, hist
  <2>2. /\ Size \in 1..Chunk /\ off + Size <= call.n /\ off \in Nat
        /\ call.reg \in Nat /\ call.n \in Nat /\ call.reg + call.n <= Registers
    BY <1>a, <2>1, SizeIs DEF TypeInv, Reading
  <2>3. f \in Frame
    <3>1. /\ call.reg + off \in Nat /\ Size \in Nat
          /\ (call.reg + off) + Size <= Registers
      BY <1>a, <2>2
    <3>2. QED BY <3>1 DEF Frame
  <2> HIDE DEF f
  <2>4. Queues' BY <1>a, <2>1, <2>3 DEF Queues
  <2>5. TypeOK' /\ CallOK' BY <1>a, <2>1 DEF TypeOK, CallOK
  <2>6. Progress'
    <3>1. Size' = Size /\ Len(got') = 0 BY <2>1 DEF Size
    <3>2. Len(got') <= Size' BY <1>a, <2>2, <3>1
    <3>3. QED BY <1>a, <2>1, <3>2 DEF Progress, Reading
  <2>7. QED BY <2>4, <2>5, <2>6 DEF TypeInv
<1>7. CASE ReadTimeout BY <1>7, FailType DEF ReadTimeout
<1>8. CASE DrainByte
  <2>1. /\ Reading /\ rx # <<>> /\ rx' = Tail(rx) /\ wc' = wc + 1 /\ pc' = "drain"
        /\ got' = IF wc >= Header /\ Len(got) < Size THEN Append(got, Head(rx)) ELSE got
        /\ UNCHANGED <<call, off, ic, tries, result, tx, pending, wire, mem,
                       calls, lost, expected, warned>>
    BY <1>8 DEF DrainByte, Reading, hist
  <2>2. Size \in Nat /\ Size <= Chunk BY <1>a, <2>1, SizeIs DEF TypeInv
  <2>3. Head(rx) \in Int /\ Tail(rx) \in Seq(Int) /\ Len(got) \in Nat BY <1>a, <2>1 DEF Queues
  <2>c. pc = "poll_rx" \/ pc = "drain" BY <1>8 DEF DrainByte
  <2>d. Len(got) <= Size /\ Size' = Size BY <1>a, <2>1, <2>c DEF Progress, Size
  <2>4. got' \in Seq(Int) /\ Len(got') <= Size
    <3>1. CASE wc >= Header /\ Len(got) < Size
      <4>1. got' = Append(got, Head(rx)) BY <2>1, <3>1
      <4>2. got' \in Seq(Int) /\ Len(got') = Len(got) + 1 BY <1>a, <2>3, <4>1 DEF Queues
      <4>3. QED BY <1>a, <2>2, <2>3, <3>1, <4>2
    <3>2. CASE ~(wc >= Header /\ Len(got) < Size) BY <1>a, <2>1, <2>d, <3>2 DEF Queues
    <3>3. QED BY <3>1, <3>2
  <2>e. Len(got') <= Chunk BY <1>a, <2>2, <2>4
  <2>5. TypeOK' BY <1>a, <1>b, <2>1, <2>e DEF TypeOK
  <2>6. CallOK' /\ Progress' /\ Queues'
    BY <1>a, <2>1, <2>3, <2>4, <2>d DEF CallOK, Progress, Reading, Queues
  <2>7. QED BY <2>5, <2>6 DEF TypeInv
<1>9. CASE DrainRunaway BY <1>9, FailType DEF DrainRunaway
<1>10. CASE FrameRead
  <2>1. /\ Reading /\ Accepted /\ result' = result \o got /\ off' = off + Size /\ tries' = 0
        /\ pc' = IF off + Size = call.n THEN "idle" ELSE "start_read"
        /\ warned' = (warned \/ tries > 0)
        /\ UNCHANGED <<call, wc, ic, got, tx, rx, pending, wire, mem, calls, lost, expected>>
    BY <1>10 DEF FrameRead, Drained, Reading, link
  <2>2. /\ Size \in Nat /\ off + Size <= call.n /\ Size <= Chunk
        /\ call.reg \in Nat /\ call.n \in Nat /\ call.reg + call.n <= Registers
    BY <1>a, <2>1, SizeIs DEF TypeInv
  <2>3. /\ result' \in Seq(Int) /\ Len(result') = Len(result) + Len(got)
        /\ Len(got) \in Nat /\ Len(result) \in Nat
    BY <1>a, <2>1, ConcatProperties DEF Queues
  <2>4. /\ Len(result) <= off /\ (Bridge = "bittware" => Len(result) = off)
        /\ call.kind = "read"
    BY <1>a, <2>1 DEF Progress
  <2>5. Len(got) <= Size /\ (Bridge = "bittware" => Len(got) = Size)
    <3>1. CASE Bridge = "bittware" BY <2>1, <2>2, <3>1 DEF Accepted
    <3>2. CASE Bridge # "bittware" BY <1>10, <1>a, <3>2 DEF FrameRead, Drained, Progress
    <3>3. QED BY <3>1, <3>2
  <2>6. Len(result') <= off' /\ (Bridge = "bittware" => Len(result') = off')
    <3>1. off' = off + Size /\ Len(result') = Len(result) + Len(got) BY <2>1, <2>3
    <3>2. Len(result') <= off' BY <1>b, <2>2, <2>3, <2>4, <2>5, <3>1
    <3>3. CASE Bridge = "bittware"
      <4>1. Len(result) = off /\ Len(got) = Size BY <2>4, <2>5, <3>3
      <4>2. QED BY <3>1, <3>2, <4>1
    <3>4. QED BY <3>2, <3>3
  <2>7. off' \in 0..Registers /\ off' <= call.n /\ Len(result') <= Registers
    BY <1>a, <1>b, <2>1, <2>2, <2>3, <2>6
  <2>8. TypeOK'
    <3>1. 0 \in 0..(MaxTries - 1) BY <1>a
    <3>2. warned' \in BOOLEAN BY <2>1
    <3>3. QED BY <1>a, <2>1, <2>7, <3>1, <3>2 DEF TypeOK
  <2>9. Progress' BY <1>b, <2>1, <2>2, <2>4, <2>6, <2>7 DEF Progress, Reading
  <2>10. CallOK' /\ Queues' BY <1>a, <2>1, <2>3 DEF CallOK, Queues
  <2>11. QED BY <2>8, <2>9, <2>10 DEF TypeInv
<1>11. CASE RetryRead
  <2>1. /\ pc = "drain" /\ pc' = "start_read" /\ tries' = tries + 1 /\ tries + 1 < MaxTries
        /\ UNCHANGED <<call, off, wc, ic, got, result, tx, rx, pending, wire, mem,
                       calls, lost, expected, warned>>
    BY <1>11 DEF RetryRead, Drained, link, hist
  <2>2. tries' \in 0..(MaxTries - 1) BY <1>a, <1>b, <2>1
  <2>3. TypeOK' /\ CallOK' /\ Progress' /\ Queues'
    BY <1>a, <2>1, <2>2 DEF TypeOK, CallOK, Progress, Reading, Queues
  <2>4. QED BY <2>3 DEF TypeInv
<1>12. CASE ReadFails BY <1>12, FailType DEF ReadFails
<1>13. CASE CallWrite
  <2>1. PICK c \in Writes : call' = [kind |-> "write", reg |-> c[1], values |-> c[2]]
    BY <1>13 DEF CallWrite
  <2>2. c[2] \in Seq(Values) /\ c[2] # <<>> BY CallAssumption
  <2>3. /\ wc' = 0 /\ ic' = 0 /\ pc' = "load"
        /\ UNCHANGED <<off, tries, got, result, tx, rx, pending, wire, mem,
                       lost, expected, warned>>
    BY <1>13 DEF CallWrite, link
  <2>4. /\ call'.kind = "write" /\ call'.reg = c[1] /\ call'.values = c[2]
        /\ 0 < Len(c[2]) /\ 0 \in 0..Chunk
    BY <1>a, <2>1, <2>2
  <2>5. TypeOK' /\ CallOK' /\ Progress' /\ Queues'
    BY <1>a, <2>3, <2>4 DEF TypeOK, CallOK, Progress, Reading, Queues
  <2>6. QED BY <2>5 DEF TypeInv
<1>14. CASE LoadByte
  <2>1. /\ pc = "load" /\ tx' = Append(tx, call.values[wc + 1])
        /\ wc' = wc + 1 /\ ic' = ic + 1
        /\ UNCHANGED <<call, off, tries, got, result, rx, wire, mem,
                       calls, lost, expected, warned>>
        /\ \/ /\ pending' = Append(pending, [kind |-> "write", reg |-> call.reg])
              /\ pc' = "poll_tx"
           \/ /\ ~(ic + 1 = Chunk \/ wc + 1 = Len(call.values))
              /\ pending' = pending /\ pc' = "load"
    BY <1>14 DEF LoadByte, hist
  <2>2. call.kind = "write" /\ ic < Chunk /\ wc < Len(call.values) BY <1>a, <2>1 DEF Progress
  <2>3. /\ call.reg \in Nat /\ Len(call.values) \in Nat
        /\ \A i \in 1..Len(call.values) : call.values[i] \in Values
    BY <1>a, <2>2, WriteIs
  <2>4. call.values[wc + 1] \in Values BY <1>b, <2>2, <2>3
  <2>5. tx' \in Seq(Values) BY <1>a, <2>1, <2>4 DEF Queues
  <2>6. [kind |-> "write", reg |-> call.reg] \in Frame BY <2>3 DEF Frame
  <2>7. pending' \in Seq(Frame)
    <3>1. pending \in Seq(Frame) BY <1>a DEF Queues
    <3>2. Append(pending, [kind |-> "write", reg |-> call.reg]) \in Seq(Frame) BY <2>6, <3>1
    <3>3. QED BY <2>1, <3>1, <3>2
  <2>8. \A b \in ToSet(tx') : b \in Values BY <2>5 DEF ToSet
  <2>9. ic' \in 0..Chunk /\ wc' \in Nat /\ wc' <= Len(call.values) BY <1>a, <1>b, <2>1, <2>2, <2>3
  <2>10. TypeOK' BY <1>a, <2>1, <2>8, <2>9 DEF TypeOK
  <2>11. CallOK' /\ Queues' BY <1>a, <2>1, <2>5, <2>7 DEF CallOK, Queues
  <2>12. Progress'
    <3>1. CASE pc' = "poll_tx" BY <2>1, <2>2, <2>9, <3>1 DEF Progress, Reading
    <3>2. CASE pc' = "load" /\ ~(ic + 1 = Chunk \/ wc + 1 = Len(call.values))
      <4>1. ic' < Chunk /\ wc' < Len(call.values) BY <1>a, <1>b, <2>1, <2>2, <2>3, <3>2
      <4>2. QED BY <2>1, <2>2, <3>2, <4>1 DEF Progress, Reading
    <3>3. QED BY <2>1, <3>1, <3>2
  <2>13. QED BY <2>10, <2>11, <2>12 DEF TypeInv
<1>15. CASE WriteTimeout BY <1>15, FailType DEF WriteTimeout
<1>16. CASE FrameWritten
  <2>1. /\ pc = "poll_tx" /\ ic' = 0
        /\ UNCHANGED <<call, off, wc, tries, got, result, tx, rx, pending, wire, mem,
                       calls, lost, warned>>
        /\ \/ wc < Len(call.values) /\ pc' = "load" /\ expected' = expected
           \/ /\ pc' = "idle"
              /\ expected' = [a \in Address |->
                    LET i == a - call.reg + 1
                    IN  IF i \in DOMAIN call.values THEN call.values[i] ELSE expected[a]]
    BY <1>16 DEF FrameWritten, link
  <2>2. call.kind = "write" BY <1>a, <2>1 DEF Progress
  <2>3. \A i \in DOMAIN call.values : call.values[i] \in Values BY <1>a, <2>2, WriteIs
  <2>4. \A a \in Address : expected[a] \in Values BY <1>a DEF TypeOK
  <2>5. expected' \in [Address -> Values] BY <1>a, <2>1, <2>3, <2>4 DEF TypeOK
  <2>6. 0 \in 0..Chunk /\ 0 < Chunk BY <1>a
  <2>7. TypeOK' BY <1>a, <2>1, <2>5, <2>6 DEF TypeOK
  <2>8. CallOK' /\ Progress' /\ Queues'
    BY <1>a, <2>1, <2>2, <2>6 DEF CallOK, Progress, Reading, Queues
  <2>9. QED BY <2>7, <2>8 DEF TypeInv
<1>17. CASE UNCHANGED vars
  BY <1>17 DEF vars, prog, link, hist, TypeInv, TypeOK, CallOK, Progress, Reading, Size, Queues
<1>18. QED BY <1>1, <1>2, <1>3, <1>4, <1>5, <1>6, <1>7, <1>8, <1>9, <1>10, <1>11, <1>12, <1>13,
     <1>14, <1>15, <1>16, <1>17 DEF Next, Call, Program, Link
-----------------------------------------------------------------------------
(***************************************************************************)
(* The invariant behind NothingSilent.  As long as nothing was announced   *)
(* and no frame is repeated, the bytes of the one frame under way are all  *)
(* there is between the program and the lpGBT: nothing is left of an       *)
(* earlier question.  A repeated frame breaks that, but then the call will *)
(* announce it, whatever it returns.                                       *)
(***************************************************************************)

\* Only a frame that was repeated, or an exception, announces anything.
LEMMA WarnedStep ==
  ASSUME TypeInv, [Next]_vars, ~warned'
  PROVE  ~warned /\ ~Fail /\ (FrameRead => ~(tries > 0))
<1>1. ~Fail BY DEF Fail
<1>2. FrameRead => warned' = (warned \/ tries > 0) BY DEF FrameRead
<1>3. CASE FrameRead BY <1>1, <1>2, <1>3
<1>4. CASE ~FrameRead
  <2>1. UNCHANGED warned
    BY <1>1, <1>4 DEF Next, Call, Program, Link, vars, hist, ServeRead, LoseAnswer, ServeWrite,
       ByteArrives, CallRead, StartRead, ReadTimeout, DrainByte, DrainRunaway, RetryRead,
       ReadFails, CallWrite, LoadByte, WriteTimeout, FrameWritten
  <2>2. QED BY <1>1, <1>4, <2>1
<1>5. QED BY <1>3, <1>4

\* A frame that is repeated is repeated until the call announces it.
LEMMA RepeatedStep ==
  ASSUME TypeInv, [Next]_vars, ~warned', tries > 0, Reading
  PROVE  tries' > 0 /\ Reading'
<1>1. ~Fail /\ ~FrameRead BY WarnedStep
<1>2. tries \in Nat BY SizeAssumption DEF TypeInv, TypeOK
<1>3. pc # "idle" /\ pc # "load" /\ pc # "poll_tx" BY DEF Reading
<1>4. CASE RetryRead BY <1>2, <1>4 DEF RetryRead, Reading
<1>5. CASE StartRead \/ DrainByte BY <1>5 DEF StartRead, DrainByte, Reading, hist
<1>6. CASE ServeRead \/ LoseAnswer \/ ServeWrite \/ ByteArrives \/ UNCHANGED vars
  BY <1>6 DEF ServeRead, LoseAnswer, ServeWrite, ByteArrives, vars, prog, Reading
<1>7. QED
  BY <1>1, <1>3, <1>4, <1>5, <1>6 DEF Next, Call, Program, Link, CallRead, CallWrite, LoadByte,
     WriteTimeout, FrameWritten, ReadTimeout, DrainRunaway, ReadFails

\* What the lpGBT and the bridge do to the frame under way.
LEMMA LinkInStep ==
  ASSUME TypeInv, InStep, Link
  PROVE  InStep'
<1>a. /\ Header \in Nat /\ Chunk \in Nat
      /\ mem \in [Address -> Values] /\ wire \in Seq(Int) /\ rx \in Seq(Int)
      /\ wc \in Nat /\ off \in Nat
  BY SizeAssumption DEF TypeInv, TypeOK, Queues
<1>1. CASE ServeRead
  <2>1. /\ pending # <<>> /\ Head(pending).kind = "read"
        /\ wire' = wire \o Answer(Head(pending).reg, Head(pending).n)
        /\ pending' = Tail(pending)
        /\ UNCHANGED <<pc, call, off, wc, ic, tries, got, result, tx, rx, mem, expected>>
    BY <1>1 DEF ServeRead, prog, hist
  <2>2. pc \notin {"idle", "start_read", "load"} BY <2>1 DEF InStep
  <2>3. pc # "poll_tx" BY <2>1 DEF InStep, Sent
  <2>4. (pc = "poll_rx" \/ pc = "drain") /\ Reading BY <2>2, <2>3 DEF TypeInv, TypeOK, Reading
  <2>5. Asked BY <2>1, <2>4 DEF InStep, Answered, Lost
  <2>6. /\ Head(pending).reg = call.reg + off /\ Head(pending).n = Size /\ pending' = <<>>
        /\ wire = <<>> /\ rx = <<>> /\ wc = 0 /\ got = <<>>
    BY <2>1, <2>5 DEF Asked
  <2>7. /\ Size \in 1..Chunk /\ off + Size <= call.n /\ call.reg \in Nat /\ call.n \in Nat
        /\ call.reg + call.n <= Registers
    BY <2>4, SizeIs
  <2>8. call.reg + off \in Nat /\ Size \in Nat /\ (call.reg + off) + Size <= Registers
    <3>1. Chunk \in Nat /\ Registers \in Nat BY SizeAssumption
    <3>2. off \in Nat /\ Size \in Nat BY <1>a, <2>7, <3>1
    <3>3. call.reg + off \in Nat BY <2>7, <3>2
    <3>4. (call.reg + off) + Size <= Registers BY <2>7, <3>1, <3>2
    <3>5. QED BY <3>2, <3>3, <3>4
  <2> DEFINE a == Answer(call.reg + off, Size)
  <2>9. /\ a \in Seq(Int) /\ Len(a) = Header + Size
        /\ \A k \in 1..(Header + Size) : a[k] = Due(k)
    BY <1>a, <2>8, AnswerType DEF Due
  <2>10. wire' = a
    <3>1. wire' = <<>> \o a BY <2>1, <2>6
    <3>2. QED BY <2>9, <3>1, ConcatEmptySeq
  <2> HIDE DEF a
  <2>11. Size' = Size /\ \A k \in Nat : Due(k)' = Due(k) BY <2>1 DEF Size, Due
  <2>12. Answered'
    <3>1. Len(rx') = 0 /\ Len(got') = 0 /\ wc' = 0 /\ Len(wire') = Header + Size
      BY <2>1, <2>6, <2>9, <2>10
    <3>2. \A i \in 1..Len(wire') : wire'[i] = Due(i)'
      <4>1. SUFFICES ASSUME NEW i \in 1..Len(wire') PROVE wire'[i] = Due(i)'
        OBVIOUS
      <4>2. i \in 1..(Header + Size) /\ i \in Nat BY <1>a, <2>7, <3>1
      <4>3. QED BY <2>9, <2>10, <2>11, <4>2
    <3>3. \A i \in 1..Len(wire') : wc' + Len(rx') + i = i BY <1>a, <2>7, <3>1
    <3>4. \A i \in 1..Len(wire') : wire'[i] = Due(wc + Len(rx) + i)' BY <2>1, <3>2, <3>3
    <3>5. wc' + Len(rx') + Len(wire') = Header + Size' BY <1>a, <2>7, <2>11, <3>1
    <3>6. (IF wc' <= Header THEN 0 ELSE wc' - Header) = 0 BY <1>a, <3>1
    <3>7. (\A i \in 1..Len(rx') : rx'[i] = Due(wc + i)') /\ (\A i \in 1..Len(got') : got'[i] = Due(Header + i)')
      BY <3>1
    <3>8. QED BY <2>6, <3>1, <3>4, <3>5, <3>6, <3>7 DEF Answered
  <2>13. QED BY <2>1, <2>4, <2>12 DEF InStep, Reading
<1>2. CASE LoseAnswer
  <2>1. /\ pending # <<>> /\ Head(pending).kind = "read" /\ pending' = Tail(pending)
        /\ UNCHANGED <<pc, call, off, wc, ic, tries, got, result, tx, rx, wire, mem, expected>>
    BY <1>2 DEF LoseAnswer, prog
  <2>2. pc \notin {"idle", "start_read", "load"} BY <2>1 DEF InStep
  <2>3. pc # "poll_tx" BY <2>1 DEF InStep, Sent
  <2>4. (pc = "poll_rx" \/ pc = "drain") /\ Reading BY <2>2, <2>3 DEF TypeInv, TypeOK, Reading
  <2>5. Asked BY <2>1, <2>4 DEF InStep, Answered, Lost
  <2>6. Lost' BY <2>1, <2>5 DEF Asked, Lost
  <2>7. QED BY <2>1, <2>4, <2>6 DEF InStep, Reading
<1>3. CASE ServeWrite
  <2>1. /\ pending # <<>> /\ Head(pending).kind = "write" /\ pending' = Tail(pending)
        /\ mem' = [a \in Address |->
                      LET i == a - Head(pending).reg + 1
                      IN  IF i \in DOMAIN tx THEN tx[i] ELSE mem[a]]
        /\ tx' = <<>>
        /\ UNCHANGED <<pc, call, off, wc, ic, tries, got, result, rx, wire, expected>>
    BY <1>3 DEF ServeWrite, prog, hist
  <2>2. pc \notin {"idle", "start_read", "load"} BY <2>1 DEF InStep
  <2>3. pc \notin {"poll_rx", "drain"} BY <2>1 DEF InStep, Asked, Answered, Lost
  <2>4. pc = "poll_tx" /\ Sent BY <2>2, <2>3 DEF TypeInv, TypeOK, InStep
  <2>5. /\ pending = <<[kind |-> "write", reg |-> call.reg]>>
        /\ tx = call.values /\ mem = expected
    BY <2>1, <2>4 DEF Sent
  <2>6. pending' = <<>> /\ Head(pending).reg = call.reg BY <2>1, <2>5
  <2>7. mem' = Landed /\ Landed' = Landed BY <2>1, <2>5, <2>6 DEF Landed
  <2>8. Sent' BY <2>1, <2>4, <2>6, <2>7 DEF Sent
  <2>9. QED BY <2>1, <2>4, <2>8 DEF InStep, Reading
<1>4. CASE ByteArrives
  <2>1. /\ wire # <<>> /\ rx' = Append(rx, Head(wire)) /\ wire' = Tail(wire)
        /\ UNCHANGED <<pc, call, off, wc, ic, tries, got, result, tx, pending, mem, expected>>
    BY <1>4 DEF ByteArrives, prog, hist
  <2>2. pc \notin {"idle", "start_read", "load"} BY <2>1 DEF InStep
  <2>3. pc # "poll_tx" BY <2>1 DEF InStep, Sent
  <2>4. (pc = "poll_rx" \/ pc = "drain") /\ Reading BY <2>2, <2>3 DEF TypeInv, TypeOK, Reading
  <2>5. Answered BY <2>1, <2>4 DEF InStep, Asked, Lost
  <2>6. Size \in Nat BY <2>4, SizeIs
  <2>7. /\ Len(rx') = Len(rx) + 1 /\ Len(wire') = Len(wire) - 1
        /\ Len(rx) \in Nat /\ Len(wire) \in Nat /\ Len(wire) > 0
        /\ \A i \in 1..Len(rx) : rx'[i] = rx[i]
        /\ rx'[Len(rx) + 1] = wire[1]
        /\ \A i \in 1..(Len(wire) - 1) : wire'[i] = wire[i + 1]
    BY <1>a, <2>1
  <2>8. Size' = Size /\ \A k \in Nat : Due(k)' = Due(k) BY <2>1 DEF Size, Due
  <2>9. wc' + Len(rx') + Len(wire') = Header + Size'
    <3>1. wc + Len(rx) + Len(wire) = Header + Size /\ wc' = wc /\ Size' = Size
      BY <2>1, <2>5, <2>8 DEF Answered
    <3>2. Len(rx') = Len(rx) + 1 /\ Len(wire') = Len(wire) - 1 BY <2>7
    <3>3. wc \in Nat /\ Len(rx) \in Nat /\ Len(wire) \in Nat BY <1>a, <2>7
    <3>4. wc + (Len(rx) + 1) + (Len(wire) - 1) = wc + Len(rx) + Len(wire) BY <3>3
    <3>5. QED BY <3>1, <3>2, <3>4
  <2>10. ASSUME NEW i \in 1..Len(rx') PROVE rx'[i] = Due(wc + i)'
    <3>1. CASE i <= Len(rx)
      <4>1. i \in 1..Len(rx) /\ wc + i \in Nat BY <1>a, <2>7, <3>1
      <4>2. rx[i] = Due(wc + i) BY <2>5, <4>1 DEF Answered
      <4>3. QED BY <2>1, <2>7, <2>8, <4>1, <4>2
    <3>2. CASE ~(i <= Len(rx))
      <4>1. i = Len(rx) + 1 /\ 1 \in 1..Len(wire) /\ wc + Len(rx) + 1 \in Nat
            /\ wc + i = wc + Len(rx) + 1
        <5>1. wc \in Nat /\ Len(rx) \in Nat /\ Len(wire) \in Nat /\ Len(wire) > 0 BY <1>a, <2>7
        <5>2. i \in Nat /\ i <= Len(rx) + 1 BY <2>7, <5>1
        <5>3. QED BY <3>2, <5>1, <5>2
      <4>2. wire[1] = Due(wc + Len(rx) + 1) BY <2>5, <4>1 DEF Answered
      <4>3. QED BY <2>1, <2>7, <2>8, <4>1, <4>2
    <3>3. QED BY <3>1, <3>2
  <2>11. ASSUME NEW i \in 1..Len(wire') PROVE wire'[i] = Due(wc + Len(rx) + i)'
    <3>1. /\ i \in 1..(Len(wire) - 1) /\ i + 1 \in 1..Len(wire)
          /\ wc + Len(rx) + (i + 1) \in Nat
          /\ wc + Len(rx') + i = wc + Len(rx) + (i + 1)
      BY <1>a, <2>7
    <3>2. wire[i + 1] = Due(wc + Len(rx) + (i + 1)) BY <2>5, <3>1 DEF Answered
    <3>3. QED BY <2>1, <2>7, <2>8, <3>1, <3>2
  <2>12. \A i \in 1..Len(got') : got'[i] = Due(Header + i)'
    <3>1. Len(got) \in Nat BY DEF TypeInv, Queues
    <3>2. \A i \in 1..Len(got) : Header + i \in Nat /\ got[i] = Due(Header + i)
      BY <1>a, <2>5, <3>1 DEF Answered
    <3>3. QED BY <2>1, <2>8, <3>2
  <2>13. Answered' BY <2>1, <2>5, <2>9, <2>10, <2>11, <2>12 DEF Answered
  <2>14. QED BY <2>1, <2>4, <2>13 DEF InStep, Reading
<1>5. QED BY <1>1, <1>2, <1>3, <1>4 DEF Link

\* One byte of the answer, into the header or into the data of the frame.
LEMMA DrainInStep ==
  ASSUME TypeInv, InStep, DrainByte
  PROVE  InStep'
<1>1. /\ pc = "poll_rx" \/ pc = "drain"
      /\ rx # <<>> /\ rx' = Tail(rx) /\ wc' = wc + 1 /\ pc' = "drain"
      /\ got' = IF wc >= Header /\ Len(got) < Size THEN Append(got, Head(rx)) ELSE got
      /\ UNCHANGED <<call, off, ic, tries, result, tx, pending, wire, mem, expected>>
  BY DEF DrainByte, hist
<1>2. Answered BY <1>1 DEF InStep, Asked, Lost
<1>3. /\ Header \in Nat /\ wc \in Nat /\ Size \in Nat /\ Len(got) \in Nat
      /\ got \in Seq(Int) /\ rx \in Seq(Int) /\ wire \in Seq(Int)
  <2>1. Size \in 1..Chunk /\ Header \in Nat /\ Chunk \in Nat
    BY <1>1, SizeIs, SizeAssumption DEF Reading
  <2>2. wc \in Nat /\ got \in Seq(Int) /\ rx \in Seq(Int) /\ wire \in Seq(Int)
    BY DEF TypeInv, TypeOK, Queues
  <2>3. Size \in Nat /\ Len(got) \in Nat BY <2>1, <2>2
  <2>4. QED BY <2>1, <2>2, <2>3
<1>4. /\ Len(rx) \in Nat /\ Len(rx) > 0 /\ Len(wire) \in Nat
      /\ Len(rx') = Len(rx) - 1 /\ Head(rx) = rx[1]
      /\ \A i \in 1..(Len(rx) - 1) : rx'[i] = rx[i + 1]
  BY <1>1, <1>3
<1>5. Size' = Size /\ \A k \in Nat : Due(k)' = Due(k) BY <1>1 DEF Size, Due
<1>6. /\ wc + Len(rx) + Len(wire) = Header + Size
      /\ Len(got) = IF wc <= Header THEN 0 ELSE wc - Header
  BY <1>2 DEF Answered
<1>7. wc' + Len(rx') + Len(wire') = Header + Size'
  <2>1. (wc + 1) + (Len(rx) - 1) + Len(wire) = wc + Len(rx) + Len(wire) BY <1>3, <1>4
  <2>2. QED BY <1>1, <1>4, <1>5, <1>6, <2>1
<1>8. ASSUME NEW i \in 1..Len(rx') PROVE rx'[i] = Due(wc + i)'
  <2>1. i \in 1..(Len(rx) - 1) /\ i + 1 \in 1..Len(rx) /\ wc + (i + 1) \in Nat
        /\ (wc + 1) + i = wc + (i + 1)
    BY <1>3, <1>4
  <2>2. rx[i + 1] = Due(wc + (i + 1)) BY <1>2, <2>1 DEF Answered
  <2>3. QED BY <1>1, <1>4, <1>5, <2>1, <2>2
<1>9. ASSUME NEW i \in 1..Len(wire') PROVE wire'[i] = Due(wc + Len(rx) + i)'
  <2>1. i \in 1..Len(wire) /\ wc + Len(rx) + i \in Nat
        /\ (wc + 1) + (Len(rx) - 1) + i = wc + Len(rx) + i
    BY <1>1, <1>3, <1>4
  <2>2. wire[i] = Due(wc + Len(rx) + i) BY <1>2, <2>1 DEF Answered
  <2>3. QED BY <1>1, <1>4, <1>5, <2>1, <2>2
<1>10. /\ Len(got') = IF wc' <= Header THEN 0 ELSE wc' - Header
       /\ \A i \in 1..Len(got') : got'[i] = Due(Header + i)'
  <2>1. \A i \in 1..Len(got) : Header + i \in Nat /\ got[i] = Due(Header + i)
    BY <1>2, <1>3 DEF Answered
  <2>2. CASE wc < Header
    <3>1. got' = got BY <1>1, <1>3, <2>2
    <3>2. Len(got') = 0 /\ wc' <= Header BY <1>1, <1>3, <1>6, <2>2, <3>1
    <3>3. QED BY <1>3, <3>2
  <2>3. CASE ~(wc < Header)
    <3>1. wc = Header + Len(got) /\ Len(got) < Size
      <4>1. wc = Header + Len(got) BY <1>3, <1>6, <2>3
      <4>2. QED BY <1>3, <1>4, <1>6, <4>1
    <3>2. got' = Append(got, Head(rx)) BY <1>1, <1>3, <3>1
    <3>3. /\ Len(got') = Len(got) + 1
          /\ \A i \in 1..Len(got) : got'[i] = got[i]
          /\ got'[Len(got) + 1] = rx[1]
      BY <1>3, <1>4, <3>2
    <3>4. rx[1] = Due(wc + 1) /\ Header + (Len(got) + 1) = wc + 1 /\ wc + 1 \in Nat
      <4>1. 1 \in 1..Len(rx) BY <1>4
      <4>2. rx[1] = Due(wc + 1) BY <1>2, <4>1 DEF Answered
      <4>3. QED BY <1>3, <3>1, <4>2
    <3>5. \A k \in Nat : k = Len(got) + 1 => got'[k] = Due(Header + k)' BY <1>5, <3>3, <3>4
    <3>6. ASSUME NEW i \in 1..Len(got') PROVE got'[i] = Due(Header + i)'
      <4>1. i \in 1..Len(got) \/ i = Len(got) + 1 BY <1>3, <3>3
      <4>2. CASE i \in 1..Len(got) BY <1>1, <1>5, <2>1, <3>3, <4>2
      <4>3. CASE i = Len(got) + 1 BY <1>3, <3>5, <4>3
      <4>4. QED BY <4>1, <4>2, <4>3
    <3>7. Len(got') = IF wc' <= Header THEN 0 ELSE wc' - Header
      <4>1. wc' = Header + Len(got) + 1 /\ Len(got') = Len(got) + 1 BY <1>1, <3>1, <3>3
      <4>2. QED BY <1>3, <4>1
    <3>8. QED BY <3>6, <3>7
  <2>4. QED BY <2>2, <2>3
<1>11. Answered' BY <1>1, <1>2, <1>7, <1>8, <1>9, <1>10 DEF Answered
<1>12. QED BY <1>1, <1>11 DEF InStep, Reading

\* The frame that is complete on the Bittware is the answer to the last byte.
LEMMA FrameInStep ==
  ASSUME TypeInv, InStep, FrameRead, Bridge = "bittware"
  PROVE  InStep'
<1>1. /\ pc = "drain" /\ rx = <<>> /\ Len(got) = Size
      /\ result' = result \o got /\ off' = off + Size
      /\ pc' = IF off + Size = call.n THEN "idle" ELSE "start_read"
      /\ UNCHANGED <<call, wc, ic, got, tx, rx, pending, wire, mem, expected>>
  BY DEF FrameRead, Drained, Accepted, link
<1>2. Reading BY <1>1 DEF Reading
<1>3. /\ Header \in Nat /\ wc \in Nat /\ off \in Nat /\ call.reg \in Nat
      /\ Size \in Nat /\ Size > 0 /\ Len(result) = off /\ call.kind = "read"
      /\ got \in Seq(Int) /\ result \in Seq(Int) /\ wire \in Seq(Int)
  BY <1>2, SizeIs, SizeAssumption DEF TypeInv, TypeOK, Progress, Queues
<1>4. got # <<>> BY <1>1, <1>3
<1>5. Answered BY <1>1, <1>4 DEF InStep, Asked, Lost
<1>6. wire = <<>>
  <2>1. wc + Len(rx) + Len(wire) = Header + Size /\ Len(rx) = 0 BY <1>1, <1>5 DEF Answered
  <2>2. Size = IF wc <= Header THEN 0 ELSE wc - Header BY <1>1, <1>5 DEF Answered
  <2>3. wc = Header + Size BY <1>3, <2>2
  <2>4. Len(wire) = 0 BY <1>3, <2>1, <2>3
  <2>5. QED BY <1>3, <2>4
<1>7. ASSUME NEW i \in 1..Len(result') PROVE result'[i] = mem[call.reg + i - 1]
  <2>1. /\ Len(result') = off + Size
        /\ \A k \in 1..(off + Size) : result'[k] = IF k <= off THEN result[k] ELSE got[k - off]
    BY <1>1, <1>3, ConcatProperties
  <2>2. i \in 1..(off + Size) /\ i \in Nat BY <1>3, <2>1
  <2>3. CASE i <= off
    <3>1. i \in 1..Len(result) BY <1>3, <2>2, <2>3
    <3>2. QED BY <1>2, <2>1, <2>2, <2>3, <3>1 DEF InStep
  <2>4. CASE ~(i <= off)
    <3>1. /\ i - off \in 1..Len(got) /\ ~(Header + (i - off) <= Header)
          /\ call.reg + off + ((Header + (i - off)) - Header) - 1 = call.reg + i - 1
      BY <1>1, <1>3, <2>2, <2>4
    <3>2. got[i - off] = Due(Header + (i - off)) BY <1>5, <3>1 DEF Answered
    <3>3. QED BY <2>1, <2>2, <2>4, <3>1, <3>2 DEF Due
  <2>5. QED BY <2>3, <2>4
<1>8. \A i \in 1..Len(result') : result'[i] = mem'[call'.reg + i - 1] BY <1>1, <1>7
<1>9. pending = <<>> /\ mem = expected /\ tx = <<>> BY <1>1, <1>2, <1>5 DEF InStep, Answered
<1>10. pc' \in {"idle", "start_read"} BY <1>1
<1>11. QED BY <1>1, <1>3, <1>6, <1>8, <1>9, <1>10 DEF InStep

\* The write is loaded byte by byte and fits into its one frame.
LEMMA LoadInStep ==
  ASSUME TypeInv, InStep, LoadByte, ShortWrites
  PROVE  InStep'
<1>1. /\ pc = "load" /\ tx' = Append(tx, call.values[wc + 1]) /\ wc' = wc + 1 /\ ic' = ic + 1
      /\ UNCHANGED <<call, off, tries, got, result, rx, wire, mem, expected>>
      /\ \/ /\ ic + 1 = Chunk \/ wc + 1 = Len(call.values)
            /\ pending' = Append(pending, [kind |-> "write", reg |-> call.reg])
            /\ pc' = "poll_tx"
         \/ /\ ~(ic + 1 = Chunk \/ wc + 1 = Len(call.values))
            /\ pending' = pending /\ pc' = "load"
  BY DEF LoadByte, hist
<1>2. /\ call.kind = "write" /\ wc < Len(call.values) /\ ic < Chunk
      /\ wc \in Nat /\ Chunk \in Nat
  BY <1>1, SizeAssumption DEF TypeInv, TypeOK, Progress
<1>3. /\ call.values \in Seq(Values) /\ Len(call.values) \in Nat
      /\ Len(call.values) <= Chunk
  BY <1>2, WriteIs DEF TypeInv
<1>4. /\ tx \in Seq(Values) /\ Len(tx) = wc /\ ic = wc
      /\ \A i \in 1..wc : tx[i] = call.values[i]
      /\ pending = <<>> /\ wire = <<>> /\ rx = <<>> /\ mem = expected
  BY <1>1 DEF InStep, Loaded
<1>5. call.values[wc + 1] \in Values BY <1>2, <1>3
<1>6. /\ tx' \in Seq(Values) /\ Len(tx') = wc + 1
      /\ \A i \in 1..wc : tx'[i] = tx[i]
      /\ tx'[wc + 1] = call.values[wc + 1]
  BY <1>1, <1>2, <1>4, <1>5
<1>7. ASSUME NEW i \in 1..(wc + 1) PROVE tx'[i] = call.values[i]
  <2>1. i \in 1..wc \/ i = wc + 1 BY <1>2
  <2>2. QED BY <1>4, <1>6, <2>1
<1>8. CASE pc' = "poll_tx"
  <2>1. ic + 1 = Chunk \/ wc + 1 = Len(call.values) BY <1>1, <1>8
  <2>2. wc + 1 = Len(call.values) BY <1>2, <1>3, <1>4, <2>1
  <2>3. tx' = call.values BY <1>3, <1>6, <1>7, <2>2
  <2>4. pending' = <<[kind |-> "write", reg |-> call.reg]>> BY <1>1, <1>4, <1>8
  <2>5. Sent' BY <1>1, <1>4, <2>2, <2>3, <2>4 DEF Sent
  <2>6. QED BY <1>8, <2>5 DEF InStep, Reading
<1>9. CASE pc' = "load"
  <2>1. pending' = pending BY <1>1, <1>9
  <2>2. Loaded' BY <1>1, <1>4, <1>6, <1>7 DEF Loaded
  <2>3. QED BY <1>1, <1>4, <1>9, <2>1, <2>2 DEF InStep, Reading
<1>10. QED BY <1>1, <1>8, <1>9

\* The write returns when its frame has landed.
LEMMA WrittenInStep ==
  ASSUME TypeInv, InStep, FrameWritten
  PROVE  InStep'
<1>1. /\ pc = "poll_tx" /\ tx = <<>>
      /\ UNCHANGED <<call, off, wc, tries, got, result, tx, rx, pending, wire, mem>>
      /\ wc = Len(call.values) => /\ pc' = "idle"
                                  /\ expected' = Landed
  <2>1. wc = Len(call.values) /\ TypeInv => ~(wc < Len(call.values)) BY DEF TypeInv, TypeOK
  <2>2. QED BY <2>1 DEF FrameWritten, Landed, link
<1>2. call.kind = "write" BY <1>1 DEF TypeInv, Progress
<1>3. call.values # <<>> BY <1>2, WriteIs DEF TypeInv
<1>4. /\ rx = <<>> /\ wire = <<>> /\ wc = Len(call.values)
      /\ pending = <<>> /\ mem = Landed
  BY <1>1, <1>3 DEF InStep, Sent
<1>5. QED BY <1>1, <1>2, <1>4 DEF InStep, Reading

LEMMA QuietStep ==
  ASSUME Bridge = "bittware", ShortWrites, TypeInv, QuietInv, [Next]_vars
  PROVE  QuietInv'
<1> SUFFICES ASSUME ~warned'
             PROVE  (tries' > 0 => Reading') /\ (tries' = 0 => InStep')
  BY DEF QuietInv
<1>1. ~warned /\ ~Fail /\ (tries > 0 => Reading) /\ (tries = 0 => InStep) BY WarnedStep DEF QuietInv
<1>2. tries \in Nat BY SizeAssumption DEF TypeInv, TypeOK
<1>3. CASE tries > 0
  <2>1. tries' > 0 /\ Reading' BY <1>1, <1>3, RepeatedStep
  <2>2. ~(tries' = 0) BY <2>1
  <2>3. QED BY <2>1, <2>2
<1>4. CASE tries = 0
  <2>a. InStep BY <1>1, <1>4
  <2>b. ~(0 > 0)
    OBVIOUS
  <2>1. CASE Link
    <3>1. UNCHANGED tries BY <2>1 DEF Link, ServeRead, LoseAnswer, ServeWrite, ByteArrives, prog
    <3>2. QED BY <1>4, <2>1, <2>a, <2>b, <3>1, LinkInStep
  <2>2. CASE CallRead
    <3>1. /\ pc = "idle" /\ pc' = "start_read" /\ tries' = 0 /\ result' = <<>>
          /\ UNCHANGED <<tx, rx, pending, wire, mem, expected>>
      BY <2>2 DEF CallRead, link
    <3>2. InStep' BY <2>a, <3>1 DEF InStep, Reading
    <3>3. QED BY <2>b, <3>1, <3>2
  <2>3. CASE StartRead
    <3>1. /\ pc = "start_read" /\ pc' = "poll_rx" /\ got' = <<>> /\ wc' = 0 /\ Reading
          /\ pending' = Append(pending, [kind |-> "read", reg |-> call.reg + off, n |-> Size])
          /\ UNCHANGED <<call, off, tries, result, tx, rx, wire, mem, expected>>
      BY <2>3 DEF StartRead, Reading, hist
    <3>2. pending = <<>> /\ wire = <<>> /\ rx = <<>> BY <2>a, <3>1 DEF InStep
    <3>3. Asked'
      <4>1. Size' = Size BY <3>1 DEF Size
      <4>2. pending' = <<[kind |-> "read", reg |-> call.reg + off, n |-> Size]>> BY <3>1, <3>2
      <4>3. QED BY <3>1, <3>2, <4>1, <4>2 DEF Asked
    <3>4. InStep' BY <2>a, <3>1, <3>3 DEF InStep, Reading
    <3>5. QED BY <1>4, <2>b, <3>1, <3>4
  <2>4. CASE DrainByte
    <3>1. UNCHANGED tries BY <2>4 DEF DrainByte
    <3>2. QED BY <1>4, <2>4, <2>a, <2>b, <3>1, DrainInStep
  <2>5. CASE FrameRead
    <3>1. tries' = 0 BY <2>5 DEF FrameRead
    <3>2. QED BY <2>5, <2>a, <2>b, <3>1, FrameInStep
  <2>6. CASE RetryRead
    <3>1. tries' = tries + 1 /\ pc' = "start_read" BY <2>6 DEF RetryRead
    <3>2. tries' = 1 /\ 1 # 0 BY <1>4, <3>1
    <3>3. QED BY <3>1, <3>2 DEF Reading
  <2>7. CASE CallWrite
    <3>1. /\ pc = "idle" /\ pc' = "load" /\ wc' = 0 /\ ic' = 0
          /\ UNCHANGED <<tries, tx, rx, pending, wire, mem, expected>>
      BY <2>7 DEF CallWrite, link
    <3>2. tx = <<>> BY <2>a, <3>1 DEF InStep
    <3>3. Loaded' BY <3>1, <3>2 DEF Loaded
    <3>4. InStep' BY <2>a, <3>1, <3>3 DEF InStep, Reading
    <3>5. QED BY <1>4, <2>b, <3>1, <3>4
  <2>8. CASE LoadByte
    <3>1. UNCHANGED tries BY <2>8 DEF LoadByte
    <3>2. QED BY <1>4, <2>8, <2>a, <2>b, <3>1, LoadInStep
  <2>9. CASE FrameWritten
    <3>1. UNCHANGED tries BY <2>9 DEF FrameWritten
    <3>2. QED BY <1>4, <2>9, <2>a, <2>b, <3>1, WrittenInStep
  <2>10. CASE UNCHANGED vars
    <3>1. UNCHANGED <<pc, call, off, wc, ic, tries, got, result, tx, rx, pending, wire, mem,
                      expected>>
      BY <2>10 DEF vars, prog, link, hist
    <3>2. InStep'
      <4>1. Size' = Size /\ Landed' = Landed /\ \A k : Due(k)' = Due(k)
        BY <3>1 DEF Size, Landed, Due
      <4>2. QED BY <2>a, <3>1, <4>1 DEF InStep, Reading, Asked, Answered, Lost, Loaded, Sent
    <3>3. QED BY <1>4, <2>b, <3>1, <3>2
  <2>11. QED BY <1>1, <2>1, <2>2, <2>3, <2>4, <2>5, <2>6, <2>7, <2>8, <2>9, <2>10
       DEF Next, Call, Program, ReadTimeout, DrainRunaway, ReadFails, WriteTimeout
<1>5. QED BY <1>2, <1>3, <1>4

LEMMA QuietInit == Init => QuietInv
  BY DEF Init, QuietInv, InStep, Reading

\* What the invariants say of a call that has returned.
LEMMA QuietSays ==
  ASSUME TypeInv, QuietInv, Bridge = "bittware"
  PROVE  NothingSilent
<1>1. SUFFICES ASSUME pc = "idle"
               PROVE  /\ call.kind = "read" => Len(result) = call.n
                      /\ ~warned =>
                            /\ mem = expected
                            /\ call.kind = "read" =>
                                  result = [i \in 1..call.n |-> expected[call.reg + i - 1]]
  BY DEF NothingSilent
<1>2. call.kind = "read" => Len(result) = call.n BY <1>1 DEF TypeInv, Progress
<1>3. ASSUME ~warned
      PROVE  /\ mem = expected
             /\ call.kind = "read" =>
                   result = [i \in 1..call.n |-> expected[call.reg + i - 1]]
  <2>1. tries \in Nat BY SizeAssumption DEF TypeInv, TypeOK
  <2>2. ~Reading /\ (tries > 0 => Reading) /\ (tries = 0 => InStep)
    BY <1>1, <1>3 DEF QuietInv, Reading
  <2>3. InStep BY <2>1, <2>2
  <2>4. mem = expected BY <1>1, <2>3 DEF InStep
  <2>5. ASSUME call.kind = "read"
        PROVE  result = [i \in 1..call.n |-> expected[call.reg + i - 1]]
    <3>1. \A i \in 1..Len(result) : result[i] = mem[call.reg + i - 1] BY <1>1, <2>3, <2>5 DEF InStep
    <3>2. result \in Seq(Int) BY DEF TypeInv, Queues
    <3>3. result = [i \in 1..Len(result) |-> result[i]] BY <3>2
    <3>4. QED BY <1>2, <2>4, <2>5, <3>1, <3>3
  <2>6. QED BY <2>4, <2>5
<1>4. QED BY <1>2, <1>3
-----------------------------------------------------------------------------
(***************************************************************************)
(* Theorems.                                                               *)
(***************************************************************************)

\* Of either bridge: the counters of a call stay inside the call, the frames name
\* registers the lpGBT has, and the bytes loaded are values of the call.
THEOREM TypeCorrect == Spec => []TypeOK
<1>1. TypeInv => TypeOK BY DEF TypeInv
<1>2. QED BY <1>1, TypeInit, TypeStep, PTL DEF Spec

\* On the Bittware, as long as every write fits into a frame: until a call throws or
\* prints its concern, a read returns what was written, and a read that returns has
\* as many bytes as asked for even after that. For every number of registers, every
\* size of a frame and of its header, and every bound on the attempts.
THEOREM SilentCorrect == Bridge = "bittware" /\ ShortWrites => (Spec => []NothingSilent)
<1> SUFFICES ASSUME Bridge = "bittware", ShortWrites
             PROVE  Spec => []NothingSilent
  OBVIOUS
<1>1. Init => TypeInv /\ QuietInv BY TypeInit, QuietInit
<1>2. TypeInv /\ QuietInv /\ [Next]_vars => (TypeInv /\ QuietInv)' BY TypeStep, QuietStep
<1>3. TypeInv /\ QuietInv => NothingSilent BY QuietSays
<1>4. QED BY <1>1, <1>2, <1>3, PTL DEF Spec
-----------------------------------------------------------------------------
(***************************************************************************)
(* TestSees.  A round of the pin test counts the patterns that come back   *)
(* changed.  The tables of the program undo the wiring of the test board,  *)
(* so that what is compared is what the lines make of the pattern; the     *)
(* invariant says what the errors counted so far tell of the board.        *)
(***************************************************************************)

\* The lines of a board are pins of the chip.
LEMMA LinesType ==
    ASSUME board \in Boards \cup {Good}, NEW S \in SUBSET Pins12, NEW dir
    PROVE  Lines(dir, S) \in SUBSET Pins12
  <1>1. CASE board.kind = "good" BY <1>1 DEF Lines
  <1>2. CASE board.kind # "good"
    <2>1. board.kind \in {"low", "high", "and", "or"} /\ board.pins \subseteq Pins12
      BY <1>2, BoardAssumption DEF Good, Pins12
    <2> QED BY <2>1 DEF Lines
  <1> QED BY <1>1, <1>2

LEMMA PatternType == \A k \in 0..23 : Pattern(k) \in SUBSET Pins12
  BY DEF Pattern, Pins12

\* The two tables of the program and the wiring of the board.
LEMMA Tables12 ==
    ASSUME NEW p \in Pins12
    PROVE  /\ Wire[p + 1] \in Pins12 /\ Gbt2Lcl[p + 1] = Wire[p + 1]
           /\ Lcl2Gbt[Wire[p + 1] + 1] = p
  <1>1. p \in {0, 1, 2, 3, 4, 5, 6, 7, 8, 9, 10, 11} BY DEF Pins12
  <1> QED BY <1>1 DEF Pins12, Wire, Gbt2Lcl, Lcl2Gbt

LEMMA ThereAndBack ==
    ASSUME NEW S \in SUBSET Pins12
    PROVE  Scramble(Lcl2Gbt, Scramble(Wire, S)) = S
  <1>1. \A p \in S : Lcl2Gbt[Wire[p + 1] + 1] = p BY Tables12
  <1> QED BY <1>1 DEF Scramble

LEMMA BackAndThere ==
    ASSUME NEW S \in SUBSET Pins12
    PROVE  {p \in Pins12 : Wire[p + 1] \in Scramble(Gbt2Lcl, S)} = S
  <1>1. ASSUME NEW p \in Pins12, NEW q \in Pins12, Wire[p + 1] = Gbt2Lcl[q + 1]
        PROVE  p = q
    BY <1>1, Tables12
  <1>2. \A p \in S : Wire[p + 1] = Gbt2Lcl[p + 1] BY Tables12
  <1> QED BY <1>1, <1>2 DEF Scramble

\* The chip's pins read back as the pins of the mezzanine.
LEMMA PinsRead ==
    ASSUME NEW S \in SUBSET Pins12
    PROVE  AllPins({Hidden(p) : p \in S}) = S
  <1>1. \A q \in (0..11) \ {3} : q \in {Hidden(p) : p \in S} <=> q \in S BY DEF Hidden, Pins12
  <1>2. 15 \in {Hidden(p) : p \in S} <=> 3 \in S BY DEF Hidden, Pins12
  <1>3. 3 \in 0..11 /\ S \subseteq 0..11 BY DEF Pins12
  <1> HIDE DEF Hidden
  <1> QED BY <1>1, <1>2, <1>3 DEF AllPins

\* An access that writes one register.
LEMMA PutWrites ==
    ASSUME NEW r, NEW mask, NEW val
    PROVE  /\ On(r, mask, val).pin = <<>> /\ DOMAIN On(r, mask, val).write = {r}
           /\ On(r, mask, val).write[r] = [mask |-> mask, val |-> val]
  BY DEF On, Access

\* All pins set at once: every bit of both registers of the outputs is written.
LEMMA PinsDriven ==
    ASSUME NEW S \in SUBSET Pins12, reg' = After(GpioSetAll(S))
    PROVE  {p \in Pins12 : Bit("PIOOUT", Hidden(p))'} = S
  <1> DEFINE hi == <<"PIOOUT", 0>>
             lo == <<"PIOOUT", 1>>
             vh == {b \in Byte : b + 8 \in S} \cup IF 3 \in S THEN {7} ELSE {}
             vl == S \cap Byte
             p == GpioSetAll(S)
  <1>1. /\ p = <<PutAt("PIOOUT", 0, vh), PutAt("PIOOUT", 1, vl)>>
        /\ DOMAIN p = {1, 2}
    BY DEF GpioSetAll
  <1>2. /\ DOMAIN p[1].write = {hi} /\ p[1].write[hi] = [mask |-> Byte, val |-> vh]
        /\ DOMAIN p[2].write = {lo} /\ p[2].write[lo] = [mask |-> Byte, val |-> vl]
        /\ hi # lo
    <2>1. p[1] = On(hi, Byte, vh) /\ p[2] = On(lo, Byte, vl) BY <1>1 DEF PutAt
    <2>2. hi # lo
      OBVIOUS
    <2> HIDE DEF p, hi, lo, vh, vl
    <2> QED BY <2>1, <2>2, PutWrites
  <1> HIDE DEF p, hi, lo
  <1>3. hi \in DOMAIN reg' /\ lo \in DOMAIN reg'
    <2>1. hi \in UNION {DOMAIN p[i].write : i \in DOMAIN p} BY <1>1, <1>2
    <2>2. lo \in UNION {DOMAIN p[i].write : i \in DOMAIN p} BY <1>1, <1>2
    <2>3. reg' = After(p) BY DEF p
    <2> QED BY <2>1, <2>2, <2>3 DEF After
  <1>4. ASSUME NEW x \in {hi, lo}, NEW b \in Byte, NEW n \in {1, 2},
               x = (IF n = 1 THEN hi ELSE lo)
        PROVE  b \in reg'[x] <=> b \in p[n].write[x].val
    <2> DEFINE hits == {i \in DOMAIN p : /\ x \in DOMAIN p[i].write
                                         /\ b \in p[i].write[x].mask \cup p[i].write[x].val}
    <2>1. hits = {n}
      <3>1. p[n].write[x].mask = Byte /\ x \in DOMAIN p[n].write /\ n \in DOMAIN p
        BY <1>1, <1>2, <1>4
      <3>2. ASSUME NEW i \in DOMAIN p, x \in DOMAIN p[i].write
            PROVE  i = n
        <4>1. CASE n = 1 BY <1>1, <1>2, <1>4, <3>2, <4>1
        <4>2. CASE n = 2 BY <1>1, <1>2, <1>4, <3>2, <4>2
        <4> QED BY <4>1, <4>2
      <3> HIDE DEF vh, vl
      <3> QED BY <3>1, <3>2
    <2>2. (CHOOSE i \in hits : \A j \in hits : j <= i) = n BY <2>1
    <2>3. x \in DOMAIN reg' BY <1>3
    <2>4. reg'[x] = {c \in Byte :
            LET h == {i \in DOMAIN p : /\ x \in DOMAIN p[i].write
                                       /\ c \in p[i].write[x].mask \cup p[i].write[x].val}
            IN  IF h = {} THEN c \in Value(x)
                ELSE c \in p[CHOOSE i \in h : \A j \in h : j <= i].write[x].val}
      BY <2>3 DEF After, p
    <2> QED BY <2>1, <2>2, <2>4
  <1>5. \A b \in Byte : /\ b \in reg'[hi] <=> b \in vh
                        /\ b \in reg'[lo] <=> b \in vl
    BY <1>2, <1>4
  <1>6. ASSUME NEW q \in Pins12
        PROVE  Bit("PIOOUT", Hidden(q))' <=> q \in S
    <2>1. CASE q = 3
      <3>1. Hidden(q) = 15 /\ 15 % 8 = 7 /\ Half("PIOOUT", 15) = hi BY <2>1 DEF Hidden, Half, hi
      <3>2. Bit("PIOOUT", Hidden(q))' <=> 7 \in reg'[hi] BY <1>3, <3>1 DEF Bit, Value
      <3> QED BY <1>5, <2>1, <3>2 DEF Byte, Pins12
    <2>2. CASE q # 3 /\ q < 8
      <3>1. Hidden(q) = q /\ q % 8 = q /\ q \in Byte /\ Half("PIOOUT", q) = lo
        BY <2>2 DEF Hidden, Half, lo, Pins12, Byte
      <3>2. Bit("PIOOUT", Hidden(q))' <=> q \in reg'[lo] BY <1>3, <3>1 DEF Bit, Value
      <3> QED BY <1>5, <3>1, <3>2
    <2>3. CASE q # 3 /\ q >= 8
      <3>1. Hidden(q) = q /\ q % 8 = q - 8 /\ q - 8 \in Byte /\ q - 8 # 7 /\ Half("PIOOUT", q) = hi
        BY <2>3 DEF Hidden, Half, hi, Pins12, Byte
      <3>2. Bit("PIOOUT", Hidden(q))' <=> q - 8 \in reg'[hi] BY <1>3, <3>1 DEF Bit, Value
      <3>3. (q - 8) + 8 = q BY DEF Pins12
      <3> QED BY <1>5, <3>1, <3>2, <3>3
    <2> QED BY <2>1, <2>2, <2>3 DEF Pins12
  <1> QED BY <1>6

\* What a fault does to a pattern of one line set, or of one line left.
LEMMA FaultSeen ==
    ASSUME board \in Boards \cup {Good}
    PROVE  (Clean("out", 24) /\ Clean("in", 24)) <=> board.kind = "good"
  <1>1. CASE board.kind = "good" BY <1>1 DEF Clean, Lines
  <1>2. CASE board.kind # "good"
    <2>1. /\ board.kind \in {"low", "high", "and", "or"}
          /\ board.dirs \subseteq {"out", "in"} /\ board.dirs # {}
          /\ board.pins \subseteq 0..11 /\ board.pins # {}
          /\ board.kind \in {"and", "or"} => \E p, q \in board.pins : p # q
      BY <1>2, BoardAssumption DEF Good
    <2>2. PICK dir \in {"out", "in"} : dir \in board.dirs BY <2>1
    <2>3. PICK p \in 0..11 : p \in board.pins BY <2>1
    <2>4. /\ p \in 0..23 /\ Pattern(p) = {p} /\ p + 12 \in 0..23
          /\ Pattern(p + 12) = Pins12 \ {p}
      BY DEF Pattern
    <2>5. \/ Lines(dir, Pattern(p)) # Pattern(p)
          \/ Lines(dir, Pattern(p + 12)) # Pattern(p + 12)
      <3>1. CASE board.kind = "low" BY <2>2, <2>3, <2>4, <3>1 DEF Lines
      <3>2. CASE board.kind = "high" BY <2>2, <2>3, <2>4, <3>2 DEF Lines
      <3>3. CASE board.kind = "and"
        <4>1. ~(board.pins \subseteq {p}) BY <2>1, <3>3
        <4>2. Lines(dir, {p}) = {p} \ board.pins BY <2>2, <3>3, <4>1 DEF Lines
        <4> QED BY <2>3, <2>4, <4>2
      <3>4. CASE board.kind = "or"
        <4>1. ~(board.pins \subseteq {p}) /\ board.pins \cap {p} # {} BY <2>1, <2>3, <3>4
        <4>2. Lines(dir, {p}) = {p} \cup board.pins BY <2>2, <3>4, <4>1 DEF Lines
        <4> QED BY <2>4, <4>1, <4>2
      <3> QED BY <2>1, <3>1, <3>2, <3>3, <3>4
    <2>6. ~Clean(dir, 24)
      <3>1. p \in 0..(24 - 1) /\ p + 12 \in 0..(24 - 1) BY <2>4
      <3> QED BY <2>5, <3>1 DEF Clean
    <2> QED BY <1>2, <2>2, <2>6
  <1> QED BY <1>1, <1>2

\* One more pattern.
LEMMA CleanNext ==
    ASSUME NEW k \in 0..23, NEW dir
    PROVE  Clean(dir, k + 1) <=> Clean(dir, k) /\ Lines(dir, Pattern(k)) = Pattern(k)
  <1>1. 0..((k + 1) - 1) = 0..(k - 1) \cup {k}
    OBVIOUS
  <1> QED BY <1>1 DEF Clean

LEMMA CleanNone == \A dir : Clean(dir, 0)
  BY DEF Clean

LEMMA WalkInit == InitBench => WalkInv
  BY BoardAssumption DEF InitBench, NoWalk, Good, WalkInv, WalkTypeOK, WalkTypes, Walks

LEMMA WalkNext == WalkInv /\ [NextBench]_bvars => WalkInv'
  <1> SUFFICES ASSUME WalkInv, [NextBench]_bvars
               PROVE  WalkInv'
    OBVIOUS
  <1> USE DEF WalkInv
  <1>1. CASE walk' = walk /\ board' = board BY <1>1 DEF WalkTypeOK, WalkTypes, Walks, Clean, Lines
  <1>2. CASE Walk
    <2>1. board' = board BY <1>2 DEF Walk, StartWalk, WalkOut, Turn, WalkIn, EndRound, OnlyWalk
    <2>2. \A dir, k : Clean(dir, k)' <=> Clean(dir, k) BY <2>1 DEF Clean, Lines
    <2>3. CASE StartWalk
      <3>1. walk' = [dir |-> "out", k |-> 0, errors |-> 0, left |-> Cycles, ok |-> FALSE]
        BY <2>3 DEF StartWalk, NoWalk
      <3> QED BY <2>1, <2>2, <3>1, CleanNone, BoardAssumption DEF WalkTypeOK, WalkTypes, Walks
    <2>4. CASE WalkOut
      <3> DEFINE k == walk.k
                 lines == {p \in Pins12 : Bit("PIOOUT", Hidden(p))'}
                 seen == Scramble(Lcl2Gbt, Scramble(Wire, Lines("out", lines)))
      <3>1. /\ walk.dir = "out" /\ k \in 0..23 /\ reg' = After(GpioSetAll(Pattern(k)))
            /\ walk' = [walk EXCEPT !.k = @ + 1,
                                    !.errors = @ + (IF seen = Pattern(walk.k) THEN 0 ELSE 1)]
        BY <2>4 DEF WalkOut, WalkTypeOK, WalkTypes
      <3>2. lines = Pattern(k) /\ Pattern(k) \in SUBSET Pins12 BY <3>1, PatternType, PinsDriven
      <3>3. seen = Lines("out", Pattern(k))
        BY <3>2, LinesType, ThereAndBack DEF WalkTypeOK, WalkTypes
      <3> HIDE DEF seen, lines
      <3>4. walk'.dir = "out" /\ walk'.k = k + 1 BY <3>1 DEF WalkTypeOK, WalkTypes
      <3>5. walk'.errors = 0 <=> walk.errors = 0 /\ Lines("out", Pattern(k)) = Pattern(k)
        BY <3>1, <3>3 DEF WalkTypeOK, WalkTypes
      <3>6. Walks' BY <2>2, <3>1, <3>4, <3>5, CleanNext DEF Walks
      <3>7. WalkTypeOK'
        <4> DEFINE e == walk.errors + (IF seen = Pattern(walk.k) THEN 0 ELSE 1)
        <4>1. walk \in WalkTypes /\ k + 1 \in 0..24 /\ e \in Nat /\ board' \in Boards \cup {Good}
          BY <2>1, <3>1 DEF WalkTypeOK, WalkTypes
        <4>2. walk' = [walk EXCEPT !.k = k + 1, !.errors = e] BY <3>1, <4>1 DEF WalkTypes
        <4> HIDE DEF e
        <4>3. walk' \in WalkTypes BY <4>1, <4>2 DEF WalkTypes
        <4> QED BY <4>1, <4>3 DEF WalkTypeOK
      <3> QED BY <3>6, <3>7
    <2>5. CASE Turn
      <3>1. walk.dir = "out" /\ walk.k = 24 /\ walk' = [walk EXCEPT !.dir = "in", !.k = 0]
        BY <2>5 DEF Turn
      <3>2. walk' \in WalkTypes /\ walk'.dir = "in" /\ walk'.k = 0 /\ walk'.errors = walk.errors
        <4> DEFINE z == 0
                   d == "in"
        <4>1. walk \in WalkTypes /\ z \in 0..24 /\ d \in {"none", "out", "in", "done"}
          BY DEF WalkTypeOK
        <4>2. walk' = [walk EXCEPT !.dir = d, !.k = z] BY <3>1
        <4>3. z = 0 /\ d = "in"
          OBVIOUS
        <4> HIDE DEF z, d
        <4>4. walk' \in WalkTypes /\ walk'.dir = d /\ walk'.k = z /\ walk'.errors = walk.errors
          BY <4>1, <4>2 DEF WalkTypes
        <4> QED BY <4>3, <4>4
      <3> QED BY <2>1, <2>2, <3>1, <3>2, CleanNone DEF WalkTypeOK, Walks
    <2>6. CASE WalkIn
      <3> DEFINE k == walk.k
                 lines == {p \in Pins12 : Wire[p + 1] \in Scramble(Gbt2Lcl, Pattern(walk.k))}
                 seen == AllPins({Hidden(p) : p \in Lines("in", lines)})
      <3>1. /\ walk.dir = "in" /\ k \in 0..23
            /\ walk' = [walk EXCEPT !.k = @ + 1,
                                    !.errors = @ + (IF seen = Pattern(walk.k) THEN 0 ELSE 1)]
        BY <2>6 DEF WalkIn, WalkTypeOK, WalkTypes
      <3>2. lines = Pattern(k) /\ Pattern(k) \in SUBSET Pins12 BY <3>1, PatternType, BackAndThere
      <3>3. seen = Lines("in", Pattern(k)) BY <3>2, LinesType, PinsRead DEF WalkTypeOK, WalkTypes
      <3> HIDE DEF seen, lines
      <3>4. walk'.dir = "in" /\ walk'.k = k + 1 BY <3>1 DEF WalkTypeOK, WalkTypes
      <3>5. walk'.errors = 0 <=> walk.errors = 0 /\ Lines("in", Pattern(k)) = Pattern(k)
        BY <3>1, <3>3 DEF WalkTypeOK, WalkTypes
      <3>6. Walks' BY <2>2, <3>1, <3>4, <3>5, CleanNext DEF Walks
      <3>7. WalkTypeOK'
        <4> DEFINE e == walk.errors + (IF seen = Pattern(walk.k) THEN 0 ELSE 1)
        <4>1. walk \in WalkTypes /\ k + 1 \in 0..24 /\ e \in Nat /\ board' \in Boards \cup {Good}
          BY <2>1, <3>1 DEF WalkTypeOK, WalkTypes
        <4>2. walk' = [walk EXCEPT !.k = k + 1, !.errors = e] BY <3>1, <4>1 DEF WalkTypes
        <4> HIDE DEF e
        <4>3. walk' \in WalkTypes BY <4>1, <4>2 DEF WalkTypes
        <4> QED BY <4>1, <4>3 DEF WalkTypeOK
      <3> QED BY <3>6, <3>7
    <2>7. CASE EndRound
      <3> DEFINE again == walk.left > 1 /\ walk.errors = 0
      <3>1. /\ walk.dir = "in" /\ walk.k = 24
            /\ walk' = [walk EXCEPT !.dir = IF again THEN "out" ELSE "done", !.k = 0,
                                    !.left = @ - 1, !.ok = walk.errors = 0]
        BY <2>7 DEF EndRound
      <3> DEFINE e == walk.errors
                 d == IF again THEN "out" ELSE "done"
                 o == walk.errors = 0
      <3>2. /\ walk \in WalkTypes /\ o \in BOOLEAN /\ d \in {"none", "out", "in", "done"}
            /\ walk.left - 1 \in Int /\ 0 \in 0..24
        BY DEF WalkTypeOK, WalkTypes
      <3>3. walk' = [walk EXCEPT !.dir = d, !.k = 0, !.left = walk.left - 1, !.ok = o]
        BY <3>1 DEF WalkTypes
      <3>4. (again => d = "out" /\ e = 0) /\ (~again => d = "done") /\ (o <=> e = 0)
        OBVIOUS
      <3>5. e = 0 <=> Clean("out", 24) /\ Clean("in", 24) BY <3>1 DEF Walks
      <3> HIDE DEF d, o, again
      <3>6. /\ walk' \in WalkTypes /\ walk'.dir = d /\ walk'.k = 0 /\ walk'.errors = e
            /\ walk'.ok = o
        BY <3>2, <3>3 DEF WalkTypes
      <3>7. WalkTypeOK' BY <2>1, <3>6 DEF WalkTypeOK
      <3>8. Walks' BY <2>2, <3>4, <3>5, <3>6, CleanNone DEF Walks
      <3> QED BY <3>7, <3>8
    <2> QED BY <1>2, <2>3, <2>4, <2>5, <2>6, <2>7 DEF Walk
  <1> QED BY <1>1, <1>2 DEF NextBench, bvars, bench, Chip, Bench, Tester, TestCalls, CallGpioWrite,
                      CallReset, GetLpgbtTemps, Unnoticed

\* WalkCorrect: the pin test passes exactly the boards without a fault, for every set of
\* lines that are stuck or joined in either direction and any number of rounds.
THEOREM WalkCorrect == SpecBench => []TestSees
  <1>1. WalkInv => TestSees BY FaultSeen DEF WalkInv, WalkTypeOK, WalkTypes, Walks, TestSees
  <1> QED BY <1>1, WalkInit, WalkNext, PTL DEF SpecBench
-----------------------------------------------------------------------------
(***************************************************************************)
(* A program of the chip is put together with FlattenSeq, a recursive      *)
(* function.  A counterexample with the fewest parts has a part less to    *)
(* go wrong with: that takes the place of an induction.                    *)
(***************************************************************************)
LEMMA LeastInSet ==
  ASSUME NEW T, T \subseteq Nat, T # {}
  PROVE  \E x \in T : \A y \in T : x <= y
  <1> DEFINE less == OpToRel(<, Nat)
  <1>1. IsWellFoundedOn(less, Nat) BY NatLessThanWellFounded
  <1>2. \A x, y \in T : <<y, x>> \in less <=> y < x BY DEF OpToRel
  <1> HIDE DEF less
  <1>3. PICK x \in T : \A y \in T : ~ (<<y, x>> \in less) BY <1>1, WFMin
  <1>4. \A y \in T : ~ (y < x) BY <1>2, <1>3
  <1> QED BY <1>4

Flat(ss, f, n) == f = [i \in 1..n |-> IF i = 1 THEN ss[i] ELSE f[i - 1] \o ss[i]]

LEMMA FlatExists ==
    ASSUME NEW ss
    PROVE  \A n \in Nat : \E f : Flat(ss, f, n)
  <1> DEFINE T == {n \in Nat : ~ \E f : Flat(ss, f, n)}
  <1> SUFFICES ASSUME T # {} PROVE FALSE
    OBVIOUS
  <1>1. PICK n \in T : \A m \in T : n <= m
    <2> HIDE DEF T
    <2>1. T \subseteq Nat BY DEF T
    <2> QED BY <2>1, LeastInSet
  <1>2. CASE n = 0
    <2>1. Flat(ss, [i \in 1..n |-> ss[i]], n) BY <1>2 DEF Flat
    <2> QED BY <2>1
  <1>3. CASE n # 0
    <2>1. n \in Nat /\ n - 1 \in Nat /\ ~ (n <= n - 1) BY <1>3
    <2>2. PICK f : Flat(ss, f, n - 1) BY <1>1, <2>1
    <2> DEFINE last == IF n = 1 THEN ss[n] ELSE f[n - 1] \o ss[n]
               g == [i \in 1..n |-> IF i = n THEN last ELSE f[i]]
    <2>3. \A i \in 1..n : g[i] = IF i = 1 THEN ss[i] ELSE g[i - 1] \o ss[i]
      <3> TAKE i \in 1..n
      <3>1. CASE i = n
        <4>1. g[i] = last BY <3>1
        <4>2. i # 1 => i - 1 \in 1..n /\ i - 1 # n BY <2>1
        <4>3. i # 1 => g[i - 1] = f[i - 1] BY <4>2
        <4> QED BY <3>1, <4>1, <4>3
      <3>2. CASE i # n
        <4>1. i \in 1..(n - 1) /\ (i # 1 => i - 1 \in 1..n /\ i - 1 # n) BY <2>1, <3>2
        <4>2. f[i] = IF i = 1 THEN ss[i] ELSE f[i - 1] \o ss[i] BY <2>2, <4>1 DEF Flat
        <4>3. g[i] = f[i] /\ (i # 1 => g[i - 1] = f[i - 1]) BY <3>2, <4>1
        <4> QED BY <4>2, <4>3
      <3> QED BY <3>1, <3>2
    <2>4. Flat(ss, g, n)
      <3>1. g = [i \in 1..n |-> g[i]]
        OBVIOUS
      <3> HIDE DEF g
      <3> QED BY <2>3, <3>1 DEF Flat
    <2> QED BY <2>1, <2>4
  <1> QED BY <1>2, <1>3

LEMMA FlattenIs ==
    ASSUME NEW ss, Len(ss) \in Nat, Len(ss) # 0
    PROVE  \E f : Flat(ss, f, Len(ss)) /\ FlattenSeq(ss) = f[Len(ss)]
  <1> DEFINE F == CHOOSE f : f = [i \in 1..Len(ss) |-> IF i = 1 THEN ss[i] ELSE f[i - 1] \o ss[i]]
  <1>1. \E f : Flat(ss, f, Len(ss)) BY FlatExists
  <1>2. Flat(ss, F, Len(ss)) BY <1>1 DEF Flat
  <1>3. FlattenSeq(ss) = F[Len(ss)] BY DEF FlattenSeq
  <1> QED BY <1>2, <1>3

\* A set of programs that is closed under concatenation holds what it is made of.
Closed(C) == \A p, q \in C : p \o q \in C

LEMMA FlattenStays ==
    ASSUME NEW C, Closed(C), <<>> \in C, NEW n \in Nat, NEW ss, ss \in [1..n -> C]
    PROVE  FlattenSeq(ss) \in C
  <1>1. ss \in Seq(C) /\ Len(ss) = n BY DEF Seq
  <1>2. CASE n = 0
    <2>1. ss = <<>> BY <1>1, <1>2
    <2> QED BY <2>1 DEF FlattenSeq
  <1>3. CASE n # 0
    <2>1. PICK f : Flat(ss, f, n) /\ FlattenSeq(ss) = f[n] BY <1>1, <1>3, FlattenIs
    <2> DEFINE T == {i \in 1..n : f[i] \notin C}
    <2>2. T = {}
      <3> SUFFICES ASSUME T # {} PROVE FALSE
        OBVIOUS
      <3>1. PICK i \in T : \A j \in T : i <= j
        <4>1. T \subseteq Nat
          OBVIOUS
        <4> HIDE DEF T
        <4> QED BY <4>1, LeastInSet
      <3>2. i \in 1..n /\ f[i] \notin C /\ ss[i] \in C BY <3>1
      <3>3. f[i] = IF i = 1 THEN ss[i] ELSE f[i - 1] \o ss[i] BY <2>1, <3>2 DEF Flat
      <3>4. i # 1 => i - 1 \in 1..n /\ ~ (i <= i - 1) BY <3>2
      <3>5. i # 1 => f[i - 1] \in C BY <3>1, <3>4
      <3> QED BY <3>2, <3>3, <3>5 DEF Closed
    <2> QED BY <1>3, <2>1, <2>2
  <1> QED BY <1>2, <1>3
-----------------------------------------------------------------------------
(***************************************************************************)
(* A tidy program leaves no unit on; nor do tidy ones after each other.     *)
(***************************************************************************)
LEMMA ProgOf ==
    ASSUME NEW A, NEW p \in Seq(A)
    PROVE  Prog(p)
  <1>1. p \in [1..Len(p) -> A] /\ Len(p) \in Nat
    OBVIOUS
  <1>2. p \in [1..Len(p) -> {p[i] : i \in DOMAIN p}] BY <1>1
  <1> QED BY <1>1, <1>2 DEF Prog

LEMMA ProgJoin ==
    ASSUME NEW p, NEW q, Prog(p), Prog(q)
    PROVE  /\ Prog(p \o q)
           /\ Len(p) \in Nat /\ Len(q) \in Nat
           /\ DOMAIN p = 1..Len(p) /\ DOMAIN q = 1..Len(q)
           /\ DOMAIN (p \o q) = 1..(Len(p) + Len(q))
           /\ \A i \in 1..(Len(p) + Len(q)) :
                 (p \o q)[i] = IF i <= Len(p) THEN p[i] ELSE q[i - Len(p)]
  <1> DEFINE A == {p[i] : i \in DOMAIN p} \cup {q[i] : i \in DOMAIN q}
  <1>1. p \in Seq(A) /\ q \in Seq(A) BY DEF Prog
  <1> HIDE DEF A
  <1>2. p \o q \in Seq(A) BY <1>1
  <1>3. /\ Len(p) \in Nat /\ Len(q) \in Nat
        /\ DOMAIN p = 1..Len(p) /\ DOMAIN q = 1..Len(q)
    BY <1>1
  <1>4. /\ DOMAIN (p \o q) = 1..(Len(p) + Len(q))
        /\ \A i \in 1..(Len(p) + Len(q)) :
              (p \o q)[i] = IF i <= Len(p) THEN p[i] ELSE q[i - Len(p)]
    BY <1>1
  <1>5. Prog(p \o q) BY <1>2, ProgOf
  <1> QED BY <1>3, <1>4, <1>5

LEMMA Fun == 
    ASSUME NEW n \in Nat, NEW p, p = [i \in 1..n |-> p[i]]
    PROVE  Prog(p) /\ Len(p) = n /\ DOMAIN p = 1..n
  <1>1. p \in [1..n -> {p[i] : i \in DOMAIN p}]
    OBVIOUS
  <1> QED BY <1>1 DEF Prog

LEMMA LeavesJoin ==
    ASSUME NEW p, NEW q, Prog(p), Prog(q)
    PROVE  /\ Leaves(p \o q) \subseteq (Leaves(p) \ Off(q)) \cup Leaves(q)
           /\ Off(q) \subseteq Off(p \o q) /\ Off(p) \subseteq Off(p \o q)
           /\ Entries(p \o q) = Entries(p) \cup Entries(q)
  <1> DEFINE r == p \o q
             m == Len(p)
             n == Len(q)
  <1>1. /\ m \in Nat /\ n \in Nat /\ DOMAIN p = 1..m /\ DOMAIN q = 1..n /\ DOMAIN r = 1..(m + n)
        /\ \A i \in 1..(m + n) : r[i] = IF i <= m THEN p[i] ELSE q[i - m]
    BY ProgJoin
  <1> HIDE DEF r, m, n
  <1>2. \A i \in 1..m : i \in 1..(m + n) /\ r[i] = p[i] BY <1>1
  <1>3. \A i \in 1..n : i + m \in 1..(m + n) /\ r[i + m] = q[i] BY <1>1
  <1>4. \A i \in 1..(m + n) : i \in 1..m \/ (i - m \in 1..n /\ r[i] = q[i - m]) BY <1>1
  <1>5. Leaves(r) \subseteq (Leaves(p) \ Off(q)) \cup Leaves(q)
    <2> SUFFICES ASSUME NEW u \in AllUnits, NEW i \in 1..(m + n), SwitchesOn(r[i], u),
                        \A j \in 1..(m + n) : j > i => ~SwitchesOff(r[j], u)
                 PROVE  u \in (Leaves(p) \ Off(q)) \cup Leaves(q)
      BY <1>1 DEF Leaves
    <2>1. CASE i \in 1..m
      <3>1. \A j \in 1..m : j > i => ~SwitchesOff(p[j], u) BY <1>2
      <3>2. \A j \in 1..n : ~SwitchesOff(q[j], u)
        <4> TAKE j \in 1..n
        <4>1. j + m > i BY <1>1, <2>1
        <4> QED BY <1>3, <4>1
      <3>3. SwitchesOn(p[i], u) BY <1>2, <2>1
      <3> QED BY <1>1, <2>1, <3>1, <3>2, <3>3 DEF Leaves, Off
    <2>2. CASE i \notin 1..m
      <3>1. i - m \in 1..n /\ SwitchesOn(q[i - m], u) BY <1>4, <2>2
      <3>2. \A j \in 1..n : j > i - m => ~SwitchesOff(q[j], u)
        <4> TAKE j \in 1..n
        <4>1. j > i - m => j + m > i BY <1>1
        <4> QED BY <1>3, <4>1
      <3> QED BY <1>1, <3>1, <3>2 DEF Leaves
    <2> QED BY <2>1, <2>2
  <1>6. Off(q) \subseteq Off(r) /\ Off(p) \subseteq Off(r) BY <1>1, <1>2, <1>3 DEF Off
  <1>7. Entries(r) = Entries(p) \cup Entries(q)
    <2>1. Entries(r) \subseteq Entries(p) \cup Entries(q)
      <3> SUFFICES ASSUME NEW i \in 1..(m + n), r[i].pin # <<>>
                   PROVE  r[i].pin \in Entries(p) \cup Entries(q)
        BY <1>1 DEF Entries
      <3>1. CASE i \in 1..m
        <4>1. i \in DOMAIN p /\ r[i] = p[i] BY <1>1, <1>2, <3>1
        <4> QED BY <4>1 DEF Entries
      <3>2. CASE i \notin 1..m
        <4>1. i - m \in DOMAIN q /\ r[i] = q[i - m] BY <1>1, <1>4, <3>2
        <4> QED BY <4>1 DEF Entries
      <3> QED BY <3>1, <3>2
    <2>2. Entries(p) \subseteq Entries(r) BY <1>1, <1>2 DEF Entries
    <2>3. Entries(q) \subseteq Entries(r) BY <1>1, <1>3 DEF Entries
    <2> QED BY <2>1, <2>2, <2>3
  <1> QED BY <1>5, <1>6, <1>7 DEF r

\* A program whose every access is plain.
LEMMA PlainLeaves ==
    ASSUME NEW p, PlainProg(p)
    PROVE  Prog(p) /\ Leaves(p) = {} /\ Entries(p) = {}
  <1>1. \A i \in DOMAIN p : \A u \in AllUnits : ~SwitchesOn(p[i], u)
    BY DEF PlainProg, Plain, SwitchesOn, UnitRegs, UnitNames
  <1> QED BY <1>1 DEF PlainProg, Plain, Leaves, Entries

LEMMA PlainJoin ==
    ASSUME NEW p, NEW q, PlainProg(p), PlainProg(q)
    PROVE  PlainProg(p \o q)
  <1>1. Prog(p) /\ Prog(q) BY DEF PlainProg
  <1> DEFINE r == p \o q
             m == Len(p)
             n == Len(q)
  <1>2. /\ m \in Nat /\ n \in Nat /\ DOMAIN p = 1..m /\ DOMAIN q = 1..n /\ DOMAIN r = 1..(m + n)
        /\ \A i \in 1..(m + n) : r[i] = IF i <= m THEN p[i] ELSE q[i - m]
        /\ Prog(r)
    BY <1>1, ProgJoin
  <1> HIDE DEF r, m, n
  <1>3. \A i \in 1..(m + n) : Plain(r[i]) BY <1>2 DEF PlainProg
  <1> QED BY <1>2, <1>3 DEF PlainProg, r

LEMMA TidyJoin ==
    ASSUME NEW E, NEW p, NEW q, Tidy(p, E), Tidy(q, E)
    PROVE  Tidy(p \o q, E)
  BY ProgJoin, LeavesJoin DEF Tidy

LEMMA TidyFlatten ==
    ASSUME NEW E, NEW n \in Nat, NEW ss, ss = [i \in 1..n |-> ss[i]],
           \A i \in 1..n : Tidy(ss[i], E)
    PROVE  Tidy(FlattenSeq(ss), E)
  <1> DEFINE A == UNION {{ss[i][j] : j \in DOMAIN ss[i]} : i \in 1..n}
             C == {p \in Seq(A) : Tidy(p, E)}
  <1>1. \A i \in 1..n : ss[i] \in Seq(A)
    <2> TAKE i \in 1..n
    <2> DEFINE B == {ss[i][j] : j \in DOMAIN ss[i]}
    <2>1. ss[i] \in Seq(B) BY DEF Tidy, Prog
    <2>2. B \subseteq A
      OBVIOUS
    <2> HIDE DEF A, B
    <2> QED BY <2>1, <2>2
  <1>2. ss \in [1..n -> C] BY <1>1
  <1> HIDE DEF A
  <1>3. Closed(C) BY TidyJoin DEF Closed
  <1>4. <<>> \in C
    <2>1. <<>> \in Seq(A) /\ DOMAIN <<>> = {}
      OBVIOUS
    <2> QED BY <2>1, ProgOf DEF Tidy, Leaves, Entries
  <1> HIDE DEF C
  <1>5. FlattenSeq(ss) \in C BY <1>2, <1>3, <1>4, FlattenStays
  <1> QED BY <1>5 DEF C

LEMMA UnitRegIs ==
    \A n, k : <<n, k>> \in UnitRegs => n \in UnitNames
  BY DEF UnitRegs, R

LEMMA OnPlain ==
    ASSUME NEW n, NEW k, n \notin UnitNames, NEW mask, NEW val
    PROVE  Plain(On(<<n, k>>, mask, val))
  <1>1. <<n, k>> \notin UnitRegs BY UnitRegIs
  <1>2. DOMAIN On(<<n, k>>, mask, val).write = {<<n, k>>} /\ On(<<n, k>>, mask, val).pin = <<>>
    BY DEF On, Access
  <1> QED BY <1>1, <1>2 DEF Plain

LEMMA PutPlain ==
    ASSUME NEW n, n \notin UnitNames
    PROVE  /\ \A k, val : Plain(PutAt(n, k, val))
           /\ \A val : Plain(Put(n, val))
           /\ \A k, b : Plain(BitSet(<<n, k>>, b)) /\ Plain(BitClr(<<n, k>>, b))
  BY OnPlain, Zenon DEF PutAt, Put, BitSet, BitClr

LEMMA PollPlain == Plain(Poll)
  BY DEF Plain, Poll, Access

LEMMA Plain0 == PlainProg(<<>>)
  <1>1. <<>> \in Seq({}) /\ DOMAIN <<>> = {}
    OBVIOUS
  <1>2. Prog(<<>>) BY <1>1, ProgOf, Zenon
  <1> QED BY <1>1, <1>2 DEF PlainProg

LEMMA Plain1 ==
    ASSUME NEW a, Plain(a)
    PROVE  PlainProg(<<a>>)
  <1>1. <<a>> \in Seq({a})
    OBVIOUS
  <1>2. Prog(<<a>>) BY <1>1, ProgOf, Zenon
  <1>3. DOMAIN <<a>> = {1}
    OBVIOUS
  <1> QED BY <1>2, <1>3 DEF PlainProg

LEMMA Plain2 ==
    ASSUME NEW a, NEW b, Plain(a), Plain(b)
    PROVE  PlainProg(<<a, b>>)
  <1>1. <<a, b>> \in Seq({a, b})
    OBVIOUS
  <1>2. Prog(<<a, b>>) BY <1>1, ProgOf, Zenon
  <1>3. DOMAIN <<a, b>> = {1, 2}
    OBVIOUS
  <1> QED BY <1>2, <1>3 DEF PlainProg

LEMMA Plain3 ==
    ASSUME NEW a, NEW b, NEW c, Plain(a), Plain(b), Plain(c)
    PROVE  PlainProg(<<a, b, c>>)
  <1>1. <<a, b, c>> \in Seq({a, b, c})
    OBVIOUS
  <1>2. Prog(<<a, b, c>>) BY <1>1, ProgOf, Zenon
  <1>3. DOMAIN <<a, b, c>> = {1, 2, 3}
    OBVIOUS
  <1> QED BY <1>2, <1>3 DEF PlainProg

LEMMA Plain4 ==
    ASSUME NEW a, NEW b, NEW c, NEW d, Plain(a), Plain(b), Plain(c), Plain(d)
    PROVE  PlainProg(<<a, b, c, d>>)
  <1>1. <<a, b, c, d>> \in Seq({a, b, c, d})
    OBVIOUS
  <1>2. Prog(<<a, b, c, d>>) BY <1>1, ProgOf, Zenon
  <1>3. DOMAIN <<a, b, c, d>> = {1, 2, 3, 4}
    OBVIOUS
  <1> QED BY <1>2, <1>3 DEF PlainProg

LEMMA Plain5 ==
    ASSUME NEW a, NEW b, NEW c, NEW d, NEW e, Plain(a), Plain(b), Plain(c), Plain(d), Plain(e)
    PROVE  PlainProg(<<a, b, c, d, e>>)
  <1>1. <<a, b, c, d, e>> \in Seq({a, b, c, d, e})
    OBVIOUS
  <1>2. Prog(<<a, b, c, d, e>>) BY <1>1, ProgOf, Zenon
  <1>3. DOMAIN <<a, b, c, d, e>> = {1, 2, 3, 4, 5}
    OBVIOUS
  <1> QED BY <1>2, <1>3 DEF PlainProg

LEMMA Plain6 ==
    ASSUME NEW a, NEW b, NEW c, NEW d, NEW e, NEW f,
           Plain(a), Plain(b), Plain(c), Plain(d), Plain(e), Plain(f)
    PROVE  PlainProg(<<a, b, c, d, e, f>>)
  <1>1. <<a, b, c, d, e, f>> \in Seq({a, b, c, d, e, f})
    OBVIOUS
  <1>2. Prog(<<a, b, c, d, e, f>>) BY <1>1, ProgOf, Zenon
  <1>3. DOMAIN <<a, b, c, d, e, f>> = {1, 2, 3, 4, 5, 6}
    OBVIOUS
  <1> QED BY <1>2, <1>3 DEF PlainProg

\* What an access does to a unit.
LEMMA UnitShape ==
    \A u \in AllUnits : u = <<u[1], u[2]>> /\ u[2] \in Byte
  BY DEF AllUnits, Byte

LEMMA OnUnit ==
    ASSUME NEW n, NEW mask, NEW val, NEW u
    PROVE  /\ SwitchesOn(On(R(n), mask, val), u) <=> u[1] = n /\ u[2] \in val
           /\ SwitchesOff(On(R(n), mask, val), u) <=> u[1] = n /\ u[2] \in mask \ val
           /\ On(R(n), mask, val).pin = <<>>
  <1>1. R(u[1]) = R(n) <=> u[1] = n BY DEF R
  <1>2. /\ DOMAIN On(R(n), mask, val).write = {R(n)}
        /\ On(R(n), mask, val).write[R(n)].mask = mask
        /\ On(R(n), mask, val).write[R(n)].val = val
        /\ On(R(n), mask, val).pin = <<>>
    BY DEF On, Access
  <1> HIDE DEF On, R
  <1> QED BY <1>1, <1>2 DEF SwitchesOn, SwitchesOff

LEMMA PutUnit ==
    ASSUME NEW n, NEW val, NEW u \in AllUnits
    PROVE  /\ SwitchesOn(Put(n, val), u) <=> u[1] = n /\ u[2] \in val
           /\ SwitchesOff(Put(n, val), u) <=> u[1] = n /\ u[2] \notin val
           /\ Put(n, val).pin = <<>>
  <1>1. Put(n, val) = On(R(n), Byte, val) BY DEF Put, PutAt, R
  <1>2. /\ SwitchesOn(On(R(n), Byte, val), u) <=> u[1] = n /\ u[2] \in val
        /\ SwitchesOff(On(R(n), Byte, val), u) <=> u[1] = n /\ u[2] \in Byte \ val
        /\ On(R(n), Byte, val).pin = <<>>
    BY OnUnit, ZenonT(60)
  <1> QED BY <1>1, <1>2, UnitShape

LEMMA BitUnit ==
    ASSUME NEW n, NEW b \in Byte, NEW u
    PROVE  /\ SwitchesOn(BitSet(R(n), b), u) <=> u[1] = n /\ u[2] = b
           /\ ~SwitchesOff(BitSet(R(n), b), u)
           /\ ~SwitchesOn(BitClr(R(n), b), u)
           /\ SwitchesOff(BitClr(R(n), b), u) <=> u[1] = n /\ u[2] = b
           /\ BitSet(R(n), b).pin = <<>> /\ BitClr(R(n), b).pin = <<>>
  <1>1. b % 8 = b BY DEF Byte
  <1>2. BitSet(R(n), b) = On(R(n), {}, {b}) /\ BitClr(R(n), b) = On(R(n), {b}, {})
    BY <1>1 DEF BitSet, BitClr
  <1> DEFINE z == {}
             o == {b}
  <1>3. \A x : x \notin z /\ (x \in o <=> x = b)
    OBVIOUS
  <1>4. BitSet(R(n), b) = On(R(n), z, o) /\ BitClr(R(n), b) = On(R(n), o, z) BY <1>2
  <1> HIDE DEF z, o
  <1>5. /\ SwitchesOn(On(R(n), z, o), u) <=> u[1] = n /\ u[2] \in o
        /\ SwitchesOff(On(R(n), z, o), u) <=> u[1] = n /\ u[2] \in z \ o
        /\ On(R(n), z, o).pin = <<>>
    BY OnUnit, ZenonT(60)
  <1>6. /\ SwitchesOn(On(R(n), o, z), u) <=> u[1] = n /\ u[2] \in z
        /\ SwitchesOff(On(R(n), o, z), u) <=> u[1] = n /\ u[2] \in o \ z
        /\ On(R(n), o, z).pin = <<>>
    BY OnUnit, ZenonT(60)
  <1> QED BY <1>3, <1>4, <1>5, <1>6

LEMMA PlainUnit ==
    ASSUME NEW a, Plain(a), NEW u \in AllUnits
    PROVE  ~SwitchesOn(a, u) /\ ~SwitchesOff(a, u) /\ a.pin = <<>>
  BY DEF Plain, SwitchesOn, SwitchesOff, UnitRegs, UnitNames

\* One access.
LEMMA One1 ==
    ASSUME NEW a
    PROVE  /\ Prog(<<a>>) /\ Leaves(<<a>>) = {u \in AllUnits : SwitchesOn(a, u)}
           /\ Off(<<a>>) = {u \in AllUnits : SwitchesOff(a, u)}
           /\ a.pin = <<>> => Entries(<<a>>) = {}
  <1>1. DOMAIN <<a>> = {1} /\ <<a>>[1] = a /\ <<a>> \in Seq({a})
    OBVIOUS
  <1>2. Prog(<<a>>) BY <1>1, ProgOf, Zenon
  <1>3. \A i, j \in {1} : ~ (j > i)
    OBVIOUS
  <1> QED BY <1>1, <1>2, <1>3 DEF Leaves, Off, Entries
-----------------------------------------------------------------------------
(***************************************************************************)
(* Every service is tidy: pins, links, clocks, lists and tables.           *)
(***************************************************************************)
LEMMA PlainTidy ==
    ASSUME NEW p, PlainProg(p)
    PROVE  \A E : Tidy(p, E)
  BY PlainLeaves DEF Tidy

LEMMA RepeatTidy ==
    ASSUME NEW n \in Nat, NEW p, Tidy(p, {})
    PROVE  Tidy(Repeat(n, p), {})
  <1> DEFINE ss == [i \in 1..n |-> p]
  <1>1. ss = [i \in 1..n |-> ss[i]] /\ \A i \in 1..n : Tidy(ss[i], {})
    OBVIOUS
  <1> HIDE DEF ss
  <1>2. Tidy(FlattenSeq(ss), {}) BY <1>1, TidyFlatten
  <1> QED BY <1>2 DEF ss, Repeat

LEMMA GpioSetTidy ==
    \A p, high : Tidy(GpioSet(p, high), {})
  <1> TAKE p, high
  <1>1. "PIOOUT" \notin UnitNames BY DEF UnitNames, AllUnits
  <1> DEFINE b == Hidden(p)
             a == IF high THEN BitSet(Half("PIOOUT", b), b) ELSE BitClr(Half("PIOOUT", b), b)
  <1>2. Plain(a) BY <1>1, PutPlain DEF Half
  <1>3. GpioSet(p, high) = <<a>> BY DEF GpioSet
  <1> HIDE DEF a
  <1> QED BY <1>2, <1>3, Plain1, PlainTidy

LEMMA GpioSetAllTidy ==
    \A S : Tidy(GpioSetAll(S), {})
  <1> TAKE S
  <1>1. "PIOOUT" \notin UnitNames BY DEF UnitNames, AllUnits
  <1>2. PlainProg(GpioSetAll(S)) BY <1>1, PutPlain, Plain2 DEF GpioSetAll
  <1> QED BY <1>2, PlainTidy

LEMMA SetupEtxTidy ==
    \A i, enable, invert, drive : Tidy(SetupEtx(i, enable, invert, drive), {})
  <1> TAKE i, enable, invert, drive
  <1>1. {"EPTXDATARATE", "EPTXCONTROL", "EPTXENABLE", "EPTXCHN", "EPTXPAIR"} \cap UnitNames = {}
    BY DEF UnitNames, AllUnits
  <1> DEFINE port == MapEtx(i)[1]
             pin == MapEtx(i)[2]
             a == Put("EPTXDATARATE", Byte)
             b == Put("EPTXCONTROL", Bits(15))
             stop == BitClr(EtxBit(i)[1], EtxBit(i)[2])
             on == BitSet(EtxBit(i)[1], EtxBit(i)[2])
             chn == PutAt("EPTXCHN", port * 4 + pin, Bits(drive % 8))
             pair == On(<<"EPTXPAIR", port * 2 + pin \div 2>>, 0..3, Flag(invert, 3))
  <1>2. Plain(a) /\ Plain(b) /\ Plain(chn) /\ Plain(pair) BY <1>1, PutPlain, OnPlain
  <1>3. Plain(on) /\ Plain(stop) BY <1>1, PutPlain DEF EtxBit
  <1>4. SetupEtx(i, enable, invert, drive) = <<a, b>> \o IF ~enable THEN <<stop>> ELSE <<on, chn, pair>>
    BY DEF SetupEtx
  <1> HIDE DEF a, b, stop, on, chn, pair
  <1>5. PlainProg(<<a, b>>) /\ PlainProg(<<stop>>) /\ PlainProg(<<on, chn, pair>>)
    BY <1>2, <1>3, Plain1, Plain2, Plain3
  <1>6. PlainProg(SetupEtx(i, enable, invert, drive)) BY <1>4, <1>5, PlainJoin
  <1> QED BY <1>6, PlainTidy

LEMMA SetupErxTidy ==
    \A i, align, phase, speed, invert, term : Tidy(SetupErx(i, align, phase, speed, invert, term), {})
  <1> TAKE i, align, phase, speed, invert, term
  <1>1. {"EPRXCONTROL", "EPRXCHN"} \cap UnitNames = {} BY DEF UnitNames, AllUnits
  <1>2. PlainProg(SetupErx(i, align, phase, speed, invert, term))
    BY <1>1, PutPlain, Plain2 DEF SetupErx
  <1> QED BY <1>2, PlainTidy

LEMMA SetupEcTidy ==
    \A invert_tx, drive, fixed, phase, pullup : Tidy(SetupEc(invert_tx, drive, fixed, phase, pullup), {})
  <1> TAKE invert_tx, drive, fixed, phase, pullup
  <1>1. {"EPRXCONTROL", "EPRXCHN", "EPTXECCHNCNTR"} \cap UnitNames = {} BY DEF UnitNames, AllUnits
  <1>2. PlainProg(SetupEc(invert_tx, drive, fixed, phase, pullup))
    BY <1>1, PutPlain, Plain3 DEF SetupEc
  <1> QED BY <1>2, PlainTidy

LEMMA SetupEclkTidy ==
    \A i, rate : Tidy(SetupEclk(i, rate), {})
  <1> TAKE i, rate
  <1>1. "ECLK" \notin UnitNames BY DEF UnitNames, AllUnits
  <1>2. PlainProg(SetupEclk(i, rate)) BY <1>1, PutPlain, Plain1 DEF SetupEclk
  <1> QED BY <1>2, PlainTidy

LEMMA SetupI2cTidy ==
    \A bus, khz : Tidy(SetupI2c(bus, khz), {})
  <1> TAKE bus, khz
  <1> DEFINE D == {<<"I2CMCONFIG", bus>>, <<"ctl_reg", bus>>}
  <1>1. D \cap UnitRegs = {} BY UnitRegIs DEF UnitNames, AllUnits
  <1> DEFINE speed == IF khz \in 126..299 THEN 1 ELSE IF khz \in 301..499 THEN 2
                      ELSE IF khz \in 501..1999 THEN 3 ELSE 0
             f == [r \in D |-> IF r[1] = "ctl_reg" THEN [mask |-> Byte, val |-> Bits(speed)]
                               ELSE [mask |-> Byte, val |-> {3, 5}]]
             a == Access(f)
  <1>2. SetupI2c(bus, khz) = <<a>> BY DEF SetupI2c
  <1>4. DOMAIN a.write = D /\ a.pin = <<>> BY DEF Access
  <1> HIDE DEF a
  <1>3. PlainProg(<<a>>) BY <1>1, <1>4, Plain1 DEF Plain
  <1> QED BY <1>2, <1>3, PlainTidy

LEMMA FinalizeTidy == Tidy(FinalizeSetup, {})
  <1>1. "POWERUP2" \notin UnitNames BY DEF UnitNames, AllUnits
  <1>2. PlainProg(FinalizeSetup) BY <1>1, PutPlain, Plain1 DEF FinalizeSetup
  <1> QED BY <1>2, PlainTidy

LEMMA WriteRegsTidy ==
    \A base, vals : Len(vals) \in Nat => Tidy(WriteRegs(base, vals), {})
  <1> SUFFICES ASSUME NEW base, NEW vals, Len(vals) \in Nat
               PROVE  Tidy(WriteRegs(base, vals), {})
    OBVIOUS
  <1> DEFINE m == (Len(vals) + Burst - 1) \div Burst
             p == WriteRegs(base, vals)
  <1>1. m \in Nat BY ServiceAssumption
  <1>2. \A r : \A x : r = <<"AUX", x>> => r \notin UnitRegs BY UnitRegIs DEF UnitNames, AllUnits
  <1>3. DOMAIN p = 1..m /\ p = [k \in 1..m |-> p[k]] BY DEF WriteRegs
  <1>4. \A k \in 1..m : Plain(p[k])
    <2> TAKE k \in 1..m
    <2>1. p[k].pin = <<>> /\ \A r \in DOMAIN p[k].write : \E x : r = <<"AUX", x>>
      BY DEF WriteRegs, Access
    <2> QED BY <1>2, <2>1 DEF Plain
  <1> HIDE DEF m, p
  <1>5. PlainProg(p) BY <1>1, <1>3, <1>4, Fun DEF PlainProg
  <1> QED BY <1>5, PlainTidy DEF p

\* The end of a run of adjacent registers.
LEMMA MinIn ==
    ASSUME NEW T, T \subseteq Nat, T # {}
    PROVE  Min(T) \in T
  BY LeastInSet DEF Min

LEMMA WriteTidy ==
    \A rv \in Loads : Tidy(Write(rv), {})
  <1> TAKE rv \in Loads
  <1> DEFINE n == Len(rv)
             starts == {i \in DOMAIN rv : i = 1 \/ rv[i][1] # rv[i - 1][1] + 1}
             T(i) == {j \in i..n : j = n \/ j + 1 \in starts}
             end(i) == Min(T(i))
             vals(i) == [j \in 1..(end(i) - i + 1) |-> rv[i + j - 1][2]]
             ss == [i \in DOMAIN rv |-> IF i \in starts THEN WriteRegs(rv[i][1], vals(i)) ELSE <<>>]
  <1>1. n \in Nat /\ DOMAIN rv = 1..n BY ServiceAssumption
  <1>2. Write(rv) = FlattenSeq(ss) BY DEF Write
  <1>3. \A i \in 1..n : Len(vals(i)) \in Nat
    <2> TAKE i \in 1..n
    <2>1. T(i) \subseteq Nat /\ n \in T(i) /\ T(i) \subseteq i..n BY <1>1
    <2> HIDE DEF T
    <2>2. end(i) \in T(i) BY <2>1, MinIn
    <2>3. end(i) - i + 1 \in Nat BY <1>1, <2>1, <2>2
    <2> HIDE DEF end
    <2> QED BY <2>3
  <1> HIDE DEF vals, starts
  <1>4. \A i \in 1..n : Tidy(ss[i], {}) BY <1>1, <1>3, WriteRegsTidy, Plain0, PlainTidy
  <1>5. ss = [i \in 1..n |-> ss[i]] BY <1>1
  <1> HIDE DEF ss, n
  <1> QED BY <1>1, <1>2, <1>4, <1>5, TidyFlatten

LEMMA ApplyTableTidy ==
    \A lines \in Tables : Tidy(ApplyTable(lines), {})
  <1> TAKE lines \in Tables
  <1> DEFINE bad == {i \in DOMAIN lines : lines[i][1] = 0}
             n == IF bad = {} THEN Len(lines) ELSE (CHOOSE i \in bad : \A j \in bad : i <= j) - 1
             p == ApplyTable(lines)
  <1>1. n \in Nat
    <2>1. Len(lines) \in Nat /\ DOMAIN lines = 1..Len(lines) BY ServiceAssumption
    <2>2. bad \subseteq 1..Len(lines) /\ bad \subseteq Nat BY <2>1
    <2> HIDE DEF bad
    <2>3. bad # {} => \E i \in bad : \A j \in bad : i <= j BY <2>2, LeastInSet
    <2> DEFINE x == CHOOSE i \in bad : \A j \in bad : i <= j
    <2>4. bad # {} => x \in bad BY <2>3
    <2> HIDE DEF x
    <2>5. bad # {} => x \in 1..Len(lines) BY <2>2, <2>4
    <2>6. \A k \in Nat : \A y \in 1..k : y - 1 \in Nat
      OBVIOUS
    <2>7. bad # {} => x - 1 \in Nat BY <2>1, <2>5, <2>6
    <2> QED BY <2>1, <2>7 DEF x
  <1>2. p = [i \in 1..n |-> On(<<"AUX", lines[i][1]>>, lines[i][2], lines[i][3] \cap lines[i][2])]
    BY DEF ApplyTable
  <1> HIDE DEF n, p
  <1>3. "AUX" \notin UnitNames BY DEF UnitNames, AllUnits
  <1>4. \A i \in 1..n : Plain(p[i]) BY <1>2, <1>3, OnPlain
  <1>5. p = [i \in 1..n |-> p[i]] BY <1>2
  <1>6. PlainProg(p) BY <1>1, <1>4, <1>5, Fun DEF PlainProg
  <1> QED BY <1>6, PlainTidy DEF p
-----------------------------------------------------------------------------
(***************************************************************************)
(* The measurements and the bit-error test switch off what they switch on. *)
(***************************************************************************)
LEMMA GainBits == 7 \notin Bits(0) /\ 7 \notin Bits(1) /\ 7 \notin Bits(8)
  BY DEF Bits, Byte

LEMMA AdcReadTidy ==
    ASSUME NEW ipos, NEW ineg, NEW gain \in {0, 1, 8}
    PROVE  Tidy(AdcRead(ipos, ineg, gain), {})
  <1> DEFINE monitor == ipos \in 10..13
             Mon(val) == IF monitor THEN <<Put("ADCMON", val)>> ELSE <<>>
             a == Put("ADC_SELECT", Bits(16 * ipos + ineg))
             b == Put("ADC_CONFIG", Bits(4 + Gain(gain)))
             c == Put("VREFCNTR", {7})
             d == Put("ADC_CONFIG", Bits(128 + 4 + Gain(gain)))
             e == Put("ADC_CONFIG", {2} \cup Bits(gain))
             p == <<a, b, c, d, Poll, e>>
             z == Put("VREFCNTR", {})
             V == {<<"VREFCNTR", 7>>}
             W == {<<"ADCMON", 0>>, <<"ADCMON", 5>>}
  <1>1. AdcRead(ipos, ineg, gain) = ((Mon(Bits(31)) \o p) \o Mon({})) \o <<z>> BY DEF AdcRead
  <1>2. Prog(p) /\ Entries(p) = {} /\ Leaves(p) \subseteq V
    <2>1. /\ a.pin = <<>> /\ b.pin = <<>> /\ c.pin = <<>> /\ d.pin = <<>> /\ e.pin = <<>>
          /\ Poll.pin = <<>>
      BY DEF Put, PutAt, On, Access, Poll
    <2>2. \A u \in AllUnits : /\ ~SwitchesOn(a, u) /\ ~SwitchesOn(Poll, u)
                              /\ SwitchesOn(b, u) => u[1] = "ADC_CONFIG"
                              /\ SwitchesOn(c, u) => u[1] = "VREFCNTR"
                              /\ SwitchesOn(d, u) => u[1] = "ADC_CONFIG"
                              /\ ~SwitchesOn(e, u)
                              /\ u[1] = "ADC_CONFIG" => SwitchesOff(e, u)
      <3> TAKE u \in AllUnits
      <3> DEFINE va == Bits(16 * ipos + ineg)
                 vb == Bits(4 + Gain(gain))
                 vd == Bits(128 + 4 + Gain(gain))
                 ve == {2} \cup Bits(gain)
                 vc == {7}
      <3>1. 7 \notin ve BY GainBits
      <3> HIDE DEF va, vb, vc, vd, ve
      <3>2. /\ SwitchesOn(Put("ADC_SELECT", va), u) => u[1] = "ADC_SELECT"
            /\ SwitchesOn(Put("ADC_CONFIG", vb), u) => u[1] = "ADC_CONFIG"
            /\ SwitchesOn(Put("VREFCNTR", vc), u) => u[1] = "VREFCNTR"
            /\ SwitchesOn(Put("ADC_CONFIG", vd), u) => u[1] = "ADC_CONFIG"
        BY PutUnit
      <3>3. /\ SwitchesOn(Put("ADC_CONFIG", ve), u) <=> u[1] = "ADC_CONFIG" /\ u[2] \in ve
            /\ SwitchesOff(Put("ADC_CONFIG", ve), u) <=> u[1] = "ADC_CONFIG" /\ u[2] \notin ve
        BY PutUnit
      <3>4. u[1] # "ADC_SELECT" /\ (u[1] = "ADC_CONFIG" => u[2] = 7) BY DEF AllUnits
      <3>5. ~SwitchesOn(Poll, u) BY PollPlain, PlainUnit
      <3> QED BY <3>1, <3>2, <3>3, <3>4, <3>5 DEF va, vb, vc, vd, ve
    <2>3. \A u \in AllUnits : u[1] = "VREFCNTR" => u \in V BY DEF AllUnits
    <2> HIDE DEF a, b, c, d, e, V
    <2>4. p \in Seq({a, b, c, d, Poll, e})
      OBVIOUS
    <2>5. Prog(p) BY <2>4, ProgOf, Zenon
    <2>6. /\ DOMAIN p = {1, 2, 3, 4, 5, 6} /\ p[1] = a /\ p[2] = b /\ p[3] = c /\ p[4] = d
          /\ p[5] = Poll /\ p[6] = e
      OBVIOUS
    <2> HIDE DEF p
    <2>7. Entries(p) = {} BY <2>1, <2>6 DEF Entries
    <2>8. Leaves(p) \subseteq V
      <3> SUFFICES ASSUME NEW u \in AllUnits, NEW i \in {1, 2, 3, 4, 5, 6}, SwitchesOn(p[i], u),
                          \A j \in {1, 2, 3, 4, 5, 6} : j > i => ~SwitchesOff(p[j], u)
                   PROVE  u \in V
        BY <2>6 DEF Leaves
      <3>1. i # 6 BY <2>2, <2>6
      <3>2. u[1] # "ADC_CONFIG" BY <2>2, <2>6, <3>1
      <3> QED BY <2>2, <2>3, <2>6, <3>2
    <2> QED BY <2>5, <2>7, <2>8
  <1>3. \A val : Prog(Mon(val)) /\ Entries(Mon(val)) = {} /\ Leaves(Mon(val)) \subseteq W
    <2> TAKE val
    <2>1. \A u \in AllUnits : SwitchesOn(Put("ADCMON", val), u) => u \in W
      <3>1. \A u \in AllUnits : SwitchesOn(Put("ADCMON", val), u) => u[1] = "ADCMON" BY PutUnit
      <3> QED BY <3>1 DEF AllUnits
    <2>2. Put("ADCMON", val).pin = <<>> BY DEF Put, PutAt, On, Access
    <2> HIDE DEF W
    <2>3. CASE monitor BY <2>1, <2>2, <2>3, One1
    <2>4. CASE ~monitor
      <3>1. Tidy(<<>>, {}) BY Plain0, PlainTidy
      <3> QED BY <2>4, <3>1 DEF Tidy
    <2> QED BY <2>3, <2>4
  <1>4. Leaves(Mon({})) = {} /\ (Leaves(Mon(Bits(31))) # {} => W \subseteq Off(Mon({})))
    <2> DEFINE n == {}
    <2>1. \A x : x \notin n
      OBVIOUS
    <2> HIDE DEF n
    <2>2. \A u \in AllUnits : /\ ~SwitchesOn(Put("ADCMON", n), u)
                              /\ u[1] = "ADCMON" => SwitchesOff(Put("ADCMON", n), u)
      BY <2>1, PutUnit
    <2>3. \A u \in W : u \in AllUnits /\ u[1] = "ADCMON" BY DEF AllUnits
    <2>4. Leaves(<<>>) = {} BY Plain0, PlainTidy DEF Tidy
    <2> HIDE DEF W
    <2>5. Leaves(<<Put("ADCMON", n)>>) = {} /\ W \subseteq Off(<<Put("ADCMON", n)>>)
      BY <2>2, <2>3, One1
    <2> QED BY <2>4, <2>5 DEF n
  <1>5. /\ Prog(<<z>>) /\ Entries(<<z>>) = {} /\ Leaves(<<z>>) = {} /\ V \subseteq Off(<<z>>)
    <2> DEFINE n == {}
    <2>1. \A x : x \notin n
      OBVIOUS
    <2> HIDE DEF n
    <2>2. \A u \in AllUnits : /\ ~SwitchesOn(Put("VREFCNTR", n), u)
                              /\ u[1] = "VREFCNTR" => SwitchesOff(Put("VREFCNTR", n), u)
                              /\ Put("VREFCNTR", n).pin = <<>>
      BY <2>1, PutUnit
    <2>3. \A u \in V : u \in AllUnits /\ u[1] = "VREFCNTR" BY DEF AllUnits
    <2>4. Put("VREFCNTR", n).pin = <<>> BY DEF Put, PutAt, On, Access
    <2> HIDE DEF V
    <2> QED BY <2>2, <2>3, <2>4, One1 DEF n
  <1> HIDE DEF p, z, V, W, Mon
  <1> DEFINE q1 == Mon(Bits(31)) \o p
             q2 == q1 \o Mon({})
  <1>6. Prog(q1) /\ Entries(q1) = {} /\ Leaves(q1) \subseteq (Leaves(Mon(Bits(31))) \cup V)
    BY <1>2, <1>3, LeavesJoin, ProgJoin
  <1> HIDE DEF q1
  <1>7. Prog(q2) /\ Entries(q2) = {} /\ Leaves(q2) \subseteq V
    <2>1. /\ Prog(q2) /\ Entries(q2) = {}
          /\ Leaves(q2) \subseteq (Leaves(q1) \ Off(Mon({}))) \cup Leaves(Mon({}))
      BY <1>3, <1>6, LeavesJoin, ProgJoin
    <2> HIDE DEF q2
    <2> QED BY <1>3, <1>4, <1>6, <2>1
  <1> HIDE DEF q2
  <1>8. Tidy(q2 \o <<z>>, {}) BY <1>5, <1>7, LeavesJoin, ProgJoin DEF Tidy
  <1> QED BY <1>1, <1>8 DEF q1, q2

\* A register written with no bit set switches its units off.
LEMMA Cleared ==
    ASSUME NEW n
    PROVE  /\ \A u \in AllUnits : ~SwitchesOn(Put(n, {}), u) /\ (u[1] = n => SwitchesOff(Put(n, {}), u))
           /\ Put(n, {}).pin = <<>>
  <1> DEFINE z == {}
  <1>1. \A x : x \notin z
    OBVIOUS
  <1> HIDE DEF z
  <1>2. \A u \in AllUnits : ~SwitchesOn(Put(n, z), u) /\ (u[1] = n => SwitchesOff(Put(n, z), u))
    BY <1>1, PutUnit
  <1>3. Put(n, z).pin = <<>> BY DEF Put, PutAt, On, Access
  <1> QED BY <1>2, <1>3 DEF z

LEMMA AdcResistanceTidy ==
    ASSUME NEW ipos, NEW current, NEW gain \in {0, 1, 8}
    PROVE  Tidy(AdcResistanceRead(ipos, current, gain), {})
  <1> DEFINE a == BitSet(R("DAC_CONFIG_H"), 6)
             b == Put("CURDAC_VALUE", Bits(current))
             c == Put("CURDAC_CHN", {ipos})
             p == <<a, b, c>>
             q == AdcRead(ipos, 15, gain)
             z == BitClr(R("DAC_CONFIG_H"), 6)
             V == {<<"DAC_CONFIG_H", 6>>}
  <1>1. AdcResistanceRead(ipos, current, gain) = (p \o q) \o <<z>> BY DEF AdcResistanceRead
  <1>2. Tidy(q, {}) BY AdcReadTidy
  <1>0. {"CURDAC_VALUE", "CURDAC_CHN"} \cap UnitNames = {} BY DEF UnitNames, AllUnits
  <1>3. Plain(b) /\ Plain(c) BY <1>0, PutPlain
  <1>4. \A u \in AllUnits : /\ SwitchesOn(a, u) => u \in V
                            /\ ~SwitchesOn(z, u)
                            /\ u \in V => SwitchesOff(z, u)
    <2>1. 6 \in Byte BY DEF Byte
    <2>2. \A u \in AllUnits : /\ SwitchesOn(a, u) <=> u[1] = "DAC_CONFIG_H" /\ u[2] = 6
                              /\ ~SwitchesOn(z, u)
                              /\ SwitchesOff(z, u) <=> u[1] = "DAC_CONFIG_H" /\ u[2] = 6
      BY <2>1, BitUnit
    <2> HIDE DEF a, z
    <2> QED BY <2>2 DEF AllUnits
  <1>5. a.pin = <<>> /\ z.pin = <<>> BY DEF BitSet, BitClr, On, Access
  <1>6. V \subseteq AllUnits BY DEF AllUnits
  <1> HIDE DEF a, b, c, z, V, q
  <1>7. Prog(p) /\ Entries(p) = {} /\ Leaves(p) \subseteq V
    <2>1. p \in Seq({a, b, c})
      OBVIOUS
    <2>2. Prog(p) BY <2>1, ProgOf, Zenon
    <2>3. \A i \in DOMAIN p : p[i] \in {a, b, c} BY <2>1
    <2> HIDE DEF p
    <2>4. /\ b.pin = <<>> /\ c.pin = <<>>
          /\ \A u \in AllUnits : ~SwitchesOn(b, u) /\ ~SwitchesOn(c, u)
      BY <1>3, PlainUnit DEF Plain
    <2>5. Entries(p) = {} BY <1>5, <2>3, <2>4 DEF Entries
    <2>6. Leaves(p) \subseteq V BY <1>4, <2>3, <2>4 DEF Leaves
    <2> QED BY <2>2, <2>5, <2>6
  <1> HIDE DEF p
  <1>8. Prog(<<z>>) /\ Entries(<<z>>) = {} /\ Leaves(<<z>>) = {} /\ V \subseteq Off(<<z>>)
    BY <1>4, <1>5, <1>6, One1
  <1> DEFINE r == p \o q
  <1>9. Prog(r) /\ Entries(r) = {} /\ Leaves(r) \subseteq V
    BY <1>2, <1>7, LeavesJoin, ProgJoin DEF Tidy
  <1> HIDE DEF r
  <1>10. Tidy(r \o <<z>>, {}) BY <1>8, <1>9, LeavesJoin, ProgJoin DEF Tidy
  <1> QED BY <1>1, <1>10 DEF r

LEMMA AverageTidy == Tidy(AdcAverage, {})
  BY AdcReadTidy, RepeatTidy, ServiceAssumption DEF AdcAverage

LEMMA TempTidy ==
    \A tune : Tidy(ReadInternalTempPrecise(tune), {})
  <1> TAKE tune
  <1> DEFINE a == Put("ADCMON", {5})
             b == Put("ADCMON", {})
             p == <<a, b>>
             x == Put("VREFTUNE", {})
             y == Put("VREFTUNE", Bits(tune))
  <1>1. ReadInternalTempPrecise(tune) = (p \o ((<<x>> \o AdcAverage) \o <<y>>)) \o AdcAverage
    BY DEF ReadInternalTempPrecise, FindVrefTune
  <1>2. "VREFTUNE" \notin UnitNames BY DEF UnitNames, AllUnits
  <1>3. Plain(x) /\ Plain(y) BY <1>2, PutPlain
  <1>4. \A u \in AllUnits : SwitchesOn(a, u) => u[1] = "ADCMON" BY PutUnit
  <1>5. \A u \in AllUnits : ~SwitchesOn(b, u) /\ (u[1] = "ADCMON" => SwitchesOff(b, u)) BY Cleared
  <1>6. a.pin = <<>> /\ b.pin = <<>> BY DEF Put, PutAt, On, Access
  <1> HIDE DEF a, b, x, y
  <1>7. Tidy(<<x>>, {}) /\ Tidy(<<y>>, {}) BY <1>3, Plain1, PlainTidy
  <1>8. Tidy(p, {})
    <2>1. p \in Seq({a, b})
      OBVIOUS
    <2>2. Prog(p) BY <2>1, ProgOf, Zenon
    <2>3. DOMAIN p = {1, 2} /\ p[1] = a /\ p[2] = b
      OBVIOUS
    <2> HIDE DEF p
    <2>4. Leaves(p) = {} BY <1>4, <1>5, <2>3 DEF Leaves
    <2> QED BY <1>6, <2>2, <2>3, <2>4 DEF Tidy, Entries
  <1> HIDE DEF p
  <1>9. Tidy((<<x>> \o AdcAverage) \o <<y>>, {}) BY <1>7, AverageTidy, TidyJoin
  <1>10. Tidy((p \o ((<<x>> \o AdcAverage) \o <<y>>)) \o AdcAverage, {})
    BY <1>8, <1>9, AverageTidy, TidyJoin
  <1> QED BY <1>1, <1>10

LEMMA EfuseTidy ==
    \A addr : Tidy(ReadEfuse(addr), {})
  <1> TAKE addr
  <1> DEFINE a == BitSet(R("FUSECONTROL"), 1)
             b == Put("FUSEADDRH", Bits(addr \div 256))
             c == Put("FUSEADDRL", Bits(addr % 256))
             d == BitClr(R("FUSECONTROL"), 1)
             e == BitClr(R("FUSECONTROL"), 0)
             p == <<a, Poll, b, c, d, e>>
             V == {<<"FUSECONTROL", 1>>}
  <1>1. ReadEfuse(addr) = p BY DEF ReadEfuse
  <1>2. Plain(b) /\ Plain(c) /\ Plain(Poll)
    <2>1. {"FUSEADDRH", "FUSEADDRL"} \cap UnitNames = {} BY DEF UnitNames, AllUnits
    <2> QED BY <2>1, PutPlain, PollPlain
  <1>3. \A u \in AllUnits : /\ SwitchesOn(a, u) => u[1] = "FUSECONTROL" /\ u[2] = 1
                            /\ ~SwitchesOn(d, u) /\ ~SwitchesOn(e, u)
                            /\ u[1] = "FUSECONTROL" /\ u[2] = 1 => SwitchesOff(d, u)
    <2>1. 0 \in Byte /\ 1 \in Byte BY DEF Byte
    <2> QED BY <2>1, BitUnit
  <1>4. a.pin = <<>> /\ d.pin = <<>> /\ e.pin = <<>> BY DEF BitSet, BitClr, On, Access
  <1> HIDE DEF a, b, c, d, e
  <1>5. p \in Seq({a, Poll, b, c, d, e})
    OBVIOUS
  <1>6. Prog(p) BY <1>5, ProgOf, Zenon
  <1>7. /\ DOMAIN p = {1, 2, 3, 4, 5, 6} /\ p[1] = a /\ p[2] = Poll /\ p[3] = b /\ p[4] = c
        /\ p[5] = d /\ p[6] = e
    OBVIOUS
  <1> HIDE DEF p
  <1>8. Entries(p) = {} BY <1>2, <1>4, <1>7 DEF Entries, Plain
  <1>9. \A u \in AllUnits : ~SwitchesOn(Poll, u) /\ ~SwitchesOn(b, u) /\ ~SwitchesOn(c, u)
    BY <1>2, PlainUnit
  <1>10. Leaves(p) = {} BY <1>3, <1>7, <1>9 DEF Leaves
  <1> QED BY <1>1, <1>6, <1>8, <1>10 DEF Tidy

LEMMA SerialTidy == Tidy(SerialNumber, {})
  <1> DEFINE ss == [i \in 1..5 |-> ReadEfuse(<<0, 8, 12, 16, 20>>[i])]
  <1>1. ss = [i \in 1..5 |-> ss[i]] /\ \A i \in 1..5 : Tidy(ss[i], {}) BY EfuseTidy
  <1> HIDE DEF ss
  <1>2. Tidy(FlattenSeq(ss), {}) BY <1>1, TidyFlatten
  <1> QED BY <1>2 DEF ss, SerialNumber

LEMMA PrbsTidy ==
    \A group, channel, own, rate, time, errors :
        Tidy(CheckPrbsErrors(group, channel, own, rate, time, errors), {})
  <1> TAKE group, channel, own, rate, time, errors
  <1> DEFINE s == PutAt("EPRXCONTROL", group, {4 + channel} \cup Bits(4 * rate + 1))
             o == Put("EPRXPRBS0", {channel})
             O == IF own THEN <<o>> ELSE <<>>
             a == Put("EPRXTRAIN", {channel})
             b == Put("EPRXTRAIN", {})
             c == Put("ULDATASOURCE1", {})
             d == Put("BERTSOURCE", Bits(16 * (group + 1) + 6))
             e == Put("BERTCONFIG", {})
             f == Put("BERTCONFIG", Bits(16 * time + 1))
             p == <<a, b, c, d, e, f, Poll>>
             x == Put("EPRXPRBS0", {})
             E == IF errors THEN <<e>> ELSE <<>>
             z == <<e, x, c>>
             V == {<<"EPRXPRBS0", 0>>}
             W == {<<"BERTCONFIG", 0>>}
  <1>1. CheckPrbsErrors(group, channel, own, rate, time, errors) = (((<<s>> \o O) \o p) \o E) \o z
    BY DEF CheckPrbsErrors
  <1>2. {"EPRXCONTROL", "ULDATASOURCE1", "BERTSOURCE"} \cap UnitNames = {}
    BY DEF UnitNames, AllUnits
  <1>3. Plain(s) /\ Plain(c) /\ Plain(d) /\ Plain(Poll) BY <1>2, PutPlain, PollPlain
  <1>4. \A u \in AllUnits : /\ SwitchesOn(o, u) => u[1] = "EPRXPRBS0"
                            /\ SwitchesOn(a, u) => u[1] = "EPRXTRAIN"
                            /\ SwitchesOn(f, u) => u[1] = "BERTCONFIG"
    BY PutUnit
  <1>5. \A u \in AllUnits : /\ ~SwitchesOn(b, u) /\ (u[1] = "EPRXTRAIN" => SwitchesOff(b, u))
                            /\ ~SwitchesOn(e, u) /\ (u[1] = "BERTCONFIG" => SwitchesOff(e, u))
                            /\ ~SwitchesOn(x, u) /\ (u[1] = "EPRXPRBS0" => SwitchesOff(x, u))
    BY Cleared
  <1>6. \A u \in AllUnits : /\ ~SwitchesOn(s, u) /\ ~SwitchesOn(c, u) /\ ~SwitchesOn(d, u)
                            /\ ~SwitchesOn(Poll, u)
    BY <1>3, PlainUnit
  <1>7. /\ o.pin = <<>> /\ a.pin = <<>> /\ b.pin = <<>> /\ e.pin = <<>> /\ f.pin = <<>>
        /\ x.pin = <<>>
    BY DEF Put, PutAt, On, Access
  <1>8. s.pin = <<>> /\ c.pin = <<>> /\ d.pin = <<>> /\ Poll.pin = <<>> BY <1>3 DEF Plain
  <1>9. /\ V \subseteq AllUnits /\ \A u \in AllUnits : u[1] = "EPRXPRBS0" <=> u \in V
        /\ W \subseteq AllUnits /\ \A u \in AllUnits : u[1] = "BERTCONFIG" <=> u \in W
    BY DEF AllUnits
  <1> HIDE DEF s, o, a, b, c, d, e, f, x, V, W
  <1>10. Tidy(<<s>>, {}) BY <1>3, Plain1, PlainTidy
  <1>11. Prog(O) /\ Entries(O) = {} /\ Leaves(O) \subseteq V
    <2>1. Prog(<<o>>) /\ Entries(<<o>>) = {} /\ Leaves(<<o>>) \subseteq V BY <1>4, <1>7, <1>9, One1
    <2>2. Tidy(<<>>, {}) BY Plain0, PlainTidy
    <2> QED BY <2>1, <2>2 DEF Tidy
  <1>12. Prog(p) /\ Entries(p) = {} /\ Leaves(p) \subseteq W
    <2>1. p \in Seq({a, b, c, d, e, f, Poll})
      OBVIOUS
    <2>2. Prog(p) BY <2>1, ProgOf, Zenon
    <2>3. /\ DOMAIN p = {1, 2, 3, 4, 5, 6, 7} /\ p[1] = a /\ p[2] = b /\ p[3] = c /\ p[4] = d
          /\ p[5] = e /\ p[6] = f /\ p[7] = Poll
      OBVIOUS
    <2> HIDE DEF p
    <2>4. Entries(p) = {} BY <1>7, <1>8, <2>3 DEF Entries
    <2>5. Leaves(p) \subseteq W
      <3> SUFFICES ASSUME NEW u \in AllUnits, NEW i \in {1, 2, 3, 4, 5, 6, 7}, SwitchesOn(p[i], u),
                          \A j \in {1, 2, 3, 4, 5, 6, 7} : j > i => ~SwitchesOff(p[j], u)
                   PROVE  u \in W
        BY <2>3 DEF Leaves
      <3>1. i = 1 \/ i = 6 BY <1>5, <1>6, <2>3
      <3>2. i # 1 BY <1>4, <1>5, <2>3
      <3> QED BY <1>4, <1>9, <2>3, <3>1, <3>2
    <2> QED BY <2>2, <2>4, <2>5
  <1>13. Tidy(E, {})
    <2>1. Prog(<<e>>) /\ Entries(<<e>>) = {} /\ Leaves(<<e>>) = {} BY <1>5, <1>7, One1
    <2>2. Tidy(<<>>, {}) BY Plain0, PlainTidy
    <2> QED BY <2>1, <2>2 DEF Tidy
  <1>14. Tidy(z, {}) /\ V \subseteq Off(z) /\ W \subseteq Off(z)
    <2>1. z \in Seq({e, x, c})
      OBVIOUS
    <2>2. Prog(z) BY <2>1, ProgOf, Zenon
    <2>3. DOMAIN z = {1, 2, 3} /\ z[1] = e /\ z[2] = x /\ z[3] = c
      OBVIOUS
    <2> HIDE DEF z
    <2>4. Leaves(z) = {} /\ Entries(z) = {} BY <1>5, <1>6, <1>7, <1>8, <2>3 DEF Leaves, Entries
    <2>5. V \subseteq Off(z) /\ W \subseteq Off(z) BY <1>5, <1>9, <2>3 DEF Off
    <2> QED BY <2>2, <2>4, <2>5 DEF Tidy
  <1> HIDE DEF O, p, E, z
  <1> DEFINE q1 == <<s>> \o O
             q2 == q1 \o p
             q3 == q2 \o E
  <1>15. Prog(q1) /\ Entries(q1) = {} /\ Leaves(q1) \subseteq V
    BY <1>10, <1>11, LeavesJoin, ProgJoin DEF Tidy
  <1> HIDE DEF q1
  <1>16. Prog(q2) /\ Entries(q2) = {} /\ Leaves(q2) \subseteq V \cup W
    BY <1>12, <1>15, LeavesJoin, ProgJoin
  <1> HIDE DEF q2
  <1>17. Prog(q3) /\ Entries(q3) = {} /\ Leaves(q3) \subseteq V \cup W
    BY <1>13, <1>16, LeavesJoin, ProgJoin DEF Tidy
  <1> HIDE DEF q3
  <1>18. Tidy(q3 \o z, {}) BY <1>14, <1>17, LeavesJoin, ProgJoin DEF Tidy
  <1> QED BY <1>1, <1>18 DEF q1, q2, q3
-----------------------------------------------------------------------------
(***************************************************************************)
(* The set-ups enter the pins they are given, each once.                   *)
(***************************************************************************)
\* The entries of programs one after the other.
LEMMA FlattenEntries ==
    ASSUME NEW n \in Nat, NEW ss, ss = [i \in 1..n |-> ss[i]],
           \A i \in 1..n : Prog(ss[i]) /\ Leaves(ss[i]) = {}
    PROVE  /\ Prog(FlattenSeq(ss)) /\ Leaves(FlattenSeq(ss)) = {}
           /\ Entries(FlattenSeq(ss)) = UNION {Entries(ss[i]) : i \in 1..n}
  <1>1. Prog(FlattenSeq(ss)) /\ Leaves(FlattenSeq(ss)) = {}
    <2> DEFINE U == UNION {Entries(ss[i]) : i \in 1..n}
    <2>1. \A i \in 1..n : Tidy(ss[i], U) BY DEF Tidy
    <2> HIDE DEF U
    <2> QED BY <2>1, TidyFlatten DEF Tidy
  <1>2. CASE n = 0
    <2>1. ss = <<>> /\ Len(ss) = 0 BY <1>2
    <2>2. FlattenSeq(ss) = <<>> BY <2>1 DEF FlattenSeq
    <2> QED BY <1>1, <1>2, <2>2 DEF Entries
  <1>3. CASE n # 0
    <2>1. Len(ss) = n BY Fun
    <2>2. PICK f : Flat(ss, f, n) /\ FlattenSeq(ss) = f[n] BY <1>3, <2>1, FlattenIs
    <2> DEFINE Sofar(i) == UNION {Entries(ss[j]) : j \in 1..i}
               T == {i \in 1..n : ~(Prog(f[i]) /\ Entries(f[i]) = Sofar(i))}
    <2>3. T = {}
      <3> SUFFICES ASSUME T # {} PROVE FALSE
        OBVIOUS
      <3>1. PICK i \in T : \A j \in T : i <= j
        <4>1. T \subseteq Nat
          OBVIOUS
        <4> HIDE DEF T
        <4> QED BY <4>1, LeastInSet
      <3>2. i \in 1..n BY <3>1
      <3>3. f[i] = IF i = 1 THEN ss[i] ELSE f[i - 1] \o ss[i] BY <2>2, <3>2 DEF Flat
      <3>4. i # 1 => i - 1 \in 1..n /\ ~ (i <= i - 1) BY <3>2
      <3>5. i # 1 => Prog(f[i - 1]) /\ Entries(f[i - 1]) = Sofar(i - 1) BY <3>1, <3>4
      <3>6. CASE i = 1
        <4>1. Sofar(1) = Entries(ss[1])
          OBVIOUS
        <4> QED BY <3>1, <3>2, <3>3, <3>6, <4>1
      <3>7. CASE i # 1
        <4>1. Prog(f[i]) /\ Entries(f[i]) = Entries(f[i - 1]) \cup Entries(ss[i])
          BY <3>2, <3>3, <3>5, <3>7, ProgJoin, LeavesJoin
        <4>2. 1..i = 1..(i - 1) \cup {i} BY <3>2, <3>7
        <4>3. Sofar(i) = Sofar(i - 1) \cup Entries(ss[i]) BY <4>2
        <4> QED BY <3>1, <3>5, <3>7, <4>1, <4>3
      <3> QED BY <3>6, <3>7
    <2>4. n \in 1..n BY <1>3
    <2> QED BY <1>1, <2>2, <2>3, <2>4
  <1> QED BY <1>2, <1>3

LEMMA LastAndFront ==
    \A v, w : /\ Last(<<v, w>>) = w /\ Front(<<v, w>>) = <<v>>
             /\ Last(<<w>>) = w /\ Front(<<w>>) = <<>>
  <1> TAKE v, w
  <1> DEFINE s == <<v, w>>
             t == SubSeq(s, 1, 1)
  <1>1. s \in Seq({v, w}) /\ Len(s) = 2 /\ s[1] = v
    OBVIOUS
  <1>2. Front(s) = t BY DEF Front
  <1> HIDE DEF s
  <1>3. t \in Seq({v, w}) /\ Len(t) = 1 /\ t[1] = v BY <1>1
  <1> HIDE DEF t
  <1>4. t = [i \in 1..1 |-> v]
    <2>1. t = [i \in 1..1 |-> t[i]] BY <1>3
    <2> QED BY <1>3, <2>1
  <1>5. <<v>> = [i \in 1..1 |-> v]
    OBVIOUS
  <1>6. Last(<<v, w>>) = w /\ Last(<<w>>) = w /\ Front(<<w>>) = <<>> BY DEF Last, Front
  <1> QED BY <1>2, <1>4, <1>5, <1>6 DEF s

LEMMA CfgEntries ==
    ASSUME NEW p, NEW cfg, NEW name
    PROVE  LET g == GpioCfgSet(p, cfg, name)
           IN  Prog(g) /\ Leaves(g) = {} /\ Entries(g) = {EntryOf(p, cfg, name)}
  <1> DEFINE b == Hidden(p)
             Switch(kind, yes) == IF yes THEN BitSet(Half(kind, b), b) ELSE BitClr(Half(kind, b), b)
             x == Switch("PIODIR", "output" \in cfg)
             y == Switch("PIODRIVE", "strong" \in cfg)
             e == EntryOf(p, cfg, name)
             g == GpioCfgSet(p, cfg, name)
             Entry(a) == [a EXCEPT !.pin = e]
  <1>1. {"PIODIR", "PIODRIVE", "PIOUPDOWN", "PIOPULLENA"} \cap UnitNames = {}
    BY DEF UnitNames, AllUnits
  <1>2. \A kind \in {"PIODIR", "PIODRIVE", "PIOUPDOWN", "PIOPULLENA"} : \A yes : Plain(Switch(kind, yes))
    BY <1>1, PutPlain DEF Half
  <1>3. \A kind, yes : Switch(kind, yes) = [write |-> Switch(kind, yes).write, pin |-> <<>>]
    BY DEF BitSet, BitClr, On, Access
  <1>4. e # <<>> BY DEF EntryOf
  <1>5. \A kind \in {"PIODIR", "PIODRIVE", "PIOUPDOWN", "PIOPULLENA"} : \A yes :
            LET a == Entry(Switch(kind, yes))
            IN  Prog(<<a>>) /\ Leaves(<<a>>) = {} /\ Entries(<<a>>) = {e}
    <2> TAKE kind \in {"PIODIR", "PIODRIVE", "PIOUPDOWN", "PIOPULLENA"}
    <2> TAKE yes
    <2> DEFINE s == Switch(kind, yes)
               a == Entry(s)
    <2>1. Plain(s) /\ s = [write |-> s.write, pin |-> <<>>] BY <1>2, <1>3
    <2> HIDE DEF s, e
    <2>2. a.write = s.write /\ a.pin = e BY <2>1
    <2> HIDE DEF a
    <2>3. \A u \in AllUnits : ~SwitchesOn(a, u) BY <2>1, <2>2, PlainUnit DEF SwitchesOn
    <2>4. Entries(<<a>>) = {e}
      <3>1. DOMAIN <<a>> = {1} /\ <<a>>[1] = a
        OBVIOUS
      <3> QED BY <1>4, <2>2, <3>1 DEF Entries
    <2>5. Prog(<<a>>) /\ Leaves(<<a>>) = {} BY <2>3, One1
    <2> QED BY <2>4, <2>5 DEF a, s
  <1>6. \/ g = (<<x, y>> \o <<Switch("PIOUPDOWN", TRUE)>>) \o <<Entry(Switch("PIOPULLENA", TRUE))>>
        \/ g = (<<x, y>> \o <<Switch("PIOUPDOWN", FALSE)>>) \o <<Entry(Switch("PIOPULLENA", TRUE))>>
        \/ g = (<<x, y>> \o <<>>) \o <<Entry(Switch("PIOPULLENA", FALSE))>>
    BY LastAndFront DEF GpioCfgSet, EntryOf
  <1>7. Tidy(<<x, y>>, {}) BY <1>2, Plain2, PlainTidy
  <1>8. Tidy(<<>>, {}) /\ \A yes : Tidy(<<Switch("PIOUPDOWN", yes)>>, {})
    BY <1>2, Plain0, Plain1, PlainTidy
  <1>9. \A yes : LET a == Entry(Switch("PIOPULLENA", yes))
                 IN  Prog(<<a>>) /\ Leaves(<<a>>) = {} /\ Entries(<<a>>) = {e}
    BY <1>5
  <1> HIDE DEF x, y, Switch, g, Entry, e
  <1>10. \A f, a : Tidy(f, {}) /\ Prog(<<a>>) /\ Leaves(<<a>>) = {} /\ Entries(<<a>>) = {e}
            => LET h == (<<x, y>> \o f) \o <<a>> IN Prog(h) /\ Leaves(h) = {} /\ Entries(h) = {e}
    <2> SUFFICES ASSUME NEW f, NEW a, Tidy(f, {}), Prog(<<a>>), Leaves(<<a>>) = {}, Entries(<<a>>) = {e}
                 PROVE  LET h == (<<x, y>> \o f) \o <<a>> IN Prog(h) /\ Leaves(h) = {} /\ Entries(h) = {e}
      OBVIOUS
    <2> DEFINE k == <<x, y>> \o f
    <2>1. Tidy(k, {}) BY <1>7, TidyJoin
    <2> HIDE DEF k
    <2>2. Prog(k \o <<a>>) /\ Leaves(k \o <<a>>) = {} /\ Entries(k \o <<a>>) = {e}
      BY <2>1, ProgJoin, LeavesJoin DEF Tidy
    <2> QED BY <2>2 DEF k
  <1>11. Prog(g) /\ Leaves(g) = {} /\ Entries(g) = {e} BY <1>6, <1>8, <1>9, <1>10
  <1> QED BY <1>11 DEF g, e

LEMMA SetPinsEntries ==
    ASSUME NEW n \in Nat, NEW names, names = [i \in 1..n |-> names[i]]
    PROVE  /\ Prog(SetPins(names)) /\ Leaves(SetPins(names)) = {}
           /\ Entries(SetPins(names)) = {EntryOf(names[i][1], names[i][2], names[i][3]) : i \in 1..n}
  <1> DEFINE ss == [i \in DOMAIN names |-> GpioCfgSet(names[i][1], names[i][2], names[i][3])]
  <1>1. DOMAIN names = 1..n /\ ss = [i \in 1..n |-> ss[i]]
    OBVIOUS
  <1>2. \A i \in 1..n : /\ Prog(ss[i]) /\ Leaves(ss[i]) = {}
                        /\ Entries(ss[i]) = {EntryOf(names[i][1], names[i][2], names[i][3])}
    BY <1>1, CfgEntries
  <1>3. SetPins(names) = FlattenSeq(ss) BY DEF SetPins
  <1> HIDE DEF ss
  <1>4. /\ Prog(FlattenSeq(ss)) /\ Leaves(FlattenSeq(ss)) = {}
        /\ Entries(FlattenSeq(ss)) = UNION {Entries(ss[i]) : i \in 1..n}
    BY <1>1, <1>2, FlattenEntries
  <1>5. UNION {Entries(ss[i]) : i \in 1..n}
          = {EntryOf(names[i][1], names[i][2], names[i][3]) : i \in 1..n}
    <2> DEFINE e(i) == EntryOf(names[i][1], names[i][2], names[i][3])
    <2>1. \A i \in 1..n : Entries(ss[i]) = {e(i)} BY <1>2
    <2> HIDE DEF e
    <2>2. UNION {Entries(ss[i]) : i \in 1..n} = UNION {{e(i)} : i \in 1..n} BY <2>1
    <2>3. UNION {{e(i)} : i \in 1..n} = {e(i) : i \in 1..n}
      OBVIOUS
    <2> QED BY <2>2, <2>3 DEF e
  <1> QED BY <1>3, <1>4, <1>5

LEMMA HighTidy ==
    ASSUME NEW n \in Nat, NEW pins, pins = [i \in 1..n |-> pins[i]]
    PROVE  Tidy(High(pins), {})
  <1> DEFINE ss == [i \in DOMAIN pins |-> GpioSet(pins[i], TRUE)]
  <1>1. ss = [i \in 1..n |-> ss[i]] /\ \A i \in 1..n : Tidy(ss[i], {}) BY GpioSetTidy
  <1>2. High(pins) = FlattenSeq(ss) BY DEF High
  <1> HIDE DEF ss
  <1> QED BY <1>1, <1>2, TidyFlatten

LEMMA ReceiversTidy == Tidy(Receivers, {})
  <1> DEFINE ss == [i \in 1..6 |-> SetupErx(i - 1, 0, 0, 3, FALSE, TRUE)]
  <1>1. ss = [i \in 1..6 |-> ss[i]] /\ \A i \in 1..6 : Tidy(ss[i], {}) BY SetupErxTidy
  <1>2. Receivers = FlattenSeq(ss) BY DEF Receivers
  <1> HIDE DEF ss
  <1> QED BY <1>1, <1>2, TidyFlatten

LEMMA EntersFirst ==
    ASSUME NEW n \in Nat, NEW names, names = [i \in 1..n |-> names[i]]
    PROVE  Enters(SetPins(names), names)
  <1>1. DOMAIN names = 1..n
    OBVIOUS
  <1> QED BY <1>1, SetPinsEntries DEF Enters, EntriesOf

\* What follows the pins in a standard set-up makes no entry.
LEMMA EntersMore ==
    ASSUME NEW names, NEW p, NEW q, Enters(p, names), Tidy(q, {})
    PROVE  Enters(p \o q, names)
  <1>1. Prog(q) /\ Leaves(q) = {} /\ Entries(q) = {} /\ Prog(p) /\ Leaves(p) = {}
    BY DEF Tidy, Enters
  <1>2. Prog(p \o q) BY <1>1, ProgJoin
  <1>3. /\ Leaves(p \o q) \subseteq (Leaves(p) \ Off(q)) \cup Leaves(q)
        /\ Entries(p \o q) = Entries(p) \cup Entries(q)
    BY <1>1, LeavesJoin
  <1> QED BY <1>1, <1>2, <1>3 DEF Enters

\* The electrical links out and the clocks of a set-up.
LEMMA EtxAllTidy ==
    Tidy(FlattenSeq([i \in 1..7 |-> SetupEtx(i - 1, TRUE, FALSE, 4)]), {})
  <1> DEFINE ss == [i \in 1..7 |-> SetupEtx(i - 1, TRUE, FALSE, 4)]
  <1>1. ss = [i \in 1..7 |-> ss[i]] /\ \A i \in 1..7 : Tidy(ss[i], {}) BY SetupEtxTidy
  <1> HIDE DEF ss
  <1>2. Tidy(FlattenSeq(ss), {}) BY <1>1, TidyFlatten
  <1> QED BY <1>2 DEF ss

LEMMA DaqSetup == Enters(SetupHcalDaq, HcalDaqPins)
  <1> DEFINE s == SetPins(HcalDaqPins)
             h == High(<<0, 1, 2, 4, 8, 11>>)
             cs == [k \in 1..8 |-> LET i == <<0, 1, 2, 3, 4, 6, 5, 7>>[k]
                                   IN  SetupEclk(i, IF i = 7 THEN 40 ELSE 320)]
             c == FlattenSeq(cs)
             x == FlattenSeq([i \in 1..7 |-> SetupEtx(i - 1, TRUE, FALSE, 4)])
             r == SetupErx(0, 0, 0, 3, FALSE, TRUE)
             e == SetupEc(FALSE, 4, FALSE, 0, TRUE)
             f == FinalizeSetup
  <1>1. SetupHcalDaq = (((((s \o h) \o c) \o x) \o r) \o e) \o f BY DEF SetupHcalDaq
  <1>2. Enters(s, HcalDaqPins)
    <2> DEFINE n == HcalDaqPins
    <2>1. n = [i \in 1..6 |-> n[i]] BY DEF HcalDaqPins
    <2> HIDE DEF n
    <2>2. Enters(SetPins(n), n) BY <2>1, EntersFirst
    <2> QED BY <2>2 DEF n
  <1>3. Tidy(h, {})
    <2> DEFINE n == <<0, 1, 2, 4, 8, 11>>
    <2>1. n = [i \in 1..6 |-> n[i]]
      OBVIOUS
    <2> HIDE DEF n
    <2>2. Tidy(High(n), {}) BY <2>1, HighTidy
    <2> QED BY <2>2 DEF n
  <1>4. Tidy(c, {})
    <2>1. cs = [i \in 1..8 |-> cs[i]] /\ \A i \in 1..8 : Tidy(cs[i], {}) BY SetupEclkTidy
    <2> HIDE DEF cs
    <2> QED BY <2>1, TidyFlatten
  <1>5. Tidy(x, {}) /\ Tidy(r, {}) /\ Tidy(e, {}) /\ Tidy(f, {})
    BY EtxAllTidy, SetupErxTidy, SetupEcTidy, FinalizeTidy
  <1> HIDE DEF s, h, c, x, r, e, f
  <1> QED BY <1>1, <1>2, <1>3, <1>4, <1>5, EntersMore

LEMMA TrigSetup == Enters(SetupHcalTrig, HcalTrigPins)
  <1> DEFINE s == SetPins(HcalTrigPins)
             h == High(<<2, 3, 4, 6, 7, 8, 9, 11>>)
             r == Receivers
             f == FinalizeSetup
  <1>1. SetupHcalTrig = ((s \o h) \o r) \o f BY DEF SetupHcalTrig
  <1>2. Enters(s, HcalTrigPins)
    <2> DEFINE n == HcalTrigPins
    <2>1. n = [i \in 1..8 |-> n[i]] BY DEF HcalTrigPins
    <2> HIDE DEF n
    <2>2. Enters(SetPins(n), n) BY <2>1, EntersFirst
    <2> QED BY <2>2 DEF n
  <1>3. Tidy(h, {})
    <2> DEFINE n == <<2, 3, 4, 6, 7, 8, 9, 11>>
    <2>1. n = [i \in 1..8 |-> n[i]]
      OBVIOUS
    <2> HIDE DEF n
    <2>2. Tidy(High(n), {}) BY <2>1, HighTidy
    <2> QED BY <2>2 DEF n
  <1> HIDE DEF s, h, r, f
  <1> QED BY <1>1, <1>2, <1>3, ReceiversTidy, FinalizeTidy, EntersMore DEF r, f

LEMMA EcalSetup == \A daq : Enters(SetupEcal(daq), EcalPins)
  <1> TAKE daq
  <1> DEFINE s == SetPins(EcalPins)
             h == High(<<4, 5, 6, 7, 8>>)
             c == SetupEclk(0, 320)
             d == SetupEclk(7, 40)
             x == SetupEtx(0, TRUE, FALSE, 4)
             r == SetupErx(0, 0, 0, 3, FALSE, TRUE)
             e == SetupEc(FALSE, 4, FALSE, 0, TRUE)
             f == FinalizeSetup
             all == Receivers
  <1>1. SetupEcal(daq) = s \o IF daq THEN (((((h \o c) \o d) \o x) \o r) \o e) \o f ELSE all \o f
    BY DEF SetupEcal
  <1>2. Enters(s, EcalPins)
    <2> DEFINE n == EcalPins
    <2>1. n = [i \in 1..5 |-> n[i]] BY DEF EcalPins
    <2> HIDE DEF n
    <2>2. Enters(SetPins(n), n) BY <2>1, EntersFirst
    <2> QED BY <2>2 DEF n
  <1>3. Tidy(h, {})
    <2> DEFINE n == <<4, 5, 6, 7, 8>>
    <2>1. n = [i \in 1..5 |-> n[i]]
      OBVIOUS
    <2> HIDE DEF n
    <2>2. Tidy(High(n), {}) BY <2>1, HighTidy
    <2> QED BY <2>2 DEF n
  <1>4. /\ Tidy(c, {}) /\ Tidy(d, {}) /\ Tidy(x, {}) /\ Tidy(r, {}) /\ Tidy(e, {}) /\ Tidy(f, {})
        /\ Tidy(all, {})
    BY SetupEclkTidy, SetupEtxTidy, SetupErxTidy, SetupEcTidy, FinalizeTidy, ReceiversTidy
  <1> HIDE DEF s, h, c, d, x, r, e, f, all
  <1>5. Tidy((((((h \o c) \o d) \o x) \o r) \o e) \o f, {}) /\ Tidy(all \o f, {})
    BY <1>3, <1>4, TidyJoin
  <1> QED BY <1>1, <1>2, <1>5, EntersMore

\* The programs of the bench.
LEMMA TestAdcTidy == Tidy(TestAdc, {})
  <1> DEFINE v == <<Put("VREFTUNE", {7})>>
             a == AdcRead(0, 15, 1)
             ss == [i \in 1..4 |-> AdcRead(i - 1, 15, 1)]
             ts == [i \in 1..4 |-> AdcRead(i + 3, 15, 1)]
             b == Repeat(Grid * Grid, FlattenSeq(ss))
             c == Repeat(Grid * Grid, FlattenSeq(ts))
  <1>1. TestAdc = (((v \o a) \o a) \o b) \o c BY DEF TestAdc
  <1>2. Tidy(v, {})
    <2>1. "VREFTUNE" \notin UnitNames BY DEF UnitNames, AllUnits
    <2> QED BY <2>1, PutPlain, Plain1, PlainTidy
  <1>3. \A i : Tidy(AdcRead(i, 15, 1), {}) BY AdcReadTidy
  <1>4. /\ ss = [i \in 1..4 |-> ss[i]] /\ ts = [i \in 1..4 |-> ts[i]]
        /\ \A i \in 1..4 : Tidy(ss[i], {}) /\ Tidy(ts[i], {})
    BY <1>3
  <1>5. Tidy(a, {}) BY <1>3
  <1>6. Grid * Grid \in Nat BY BoardAssumption
  <1> HIDE DEF v, a, ss, ts
  <1>7. Tidy(FlattenSeq(ss), {}) /\ Tidy(FlattenSeq(ts), {}) BY <1>4, TidyFlatten
  <1>8. Tidy(b, {}) /\ Tidy(c, {}) BY <1>6, <1>7, RepeatTidy
  <1> HIDE DEF b, c
  <1> QED BY <1>1, <1>2, <1>5, <1>8, TidyJoin

LEMMA TestLinksTidy == Tidy(TestCtl, {}) /\ Tidy(TestEc, {}) /\ Tidy(TestElinks, {}) /\ Tidy(TestEclk, {})
  <1>1. Tidy(TestCtl, {}) BY EtxAllTidy DEF TestCtl
  <1>2. Tidy(TestEc, {})
    <2> DEFINE ss == [i \in 1..9 |-> SetupEc(TRUE, 4, TRUE, IF i = 1 THEN 0 ELSE i - 2, TRUE)]
    <2>1. ss = [i \in 1..9 |-> ss[i]] /\ \A i \in 1..9 : Tidy(ss[i], {}) BY SetupEcTidy
    <2> HIDE DEF ss
    <2>2. Tidy(FlattenSeq(ss), {}) BY <2>1, TidyFlatten
    <2> QED BY <2>2 DEF ss, TestEc
  <1>3. Tidy(TestElinks, {})
    <2> DEFINE ss == [i \in 1..6 |-> SetupErx(i - 1, 0, 0, 3, TRUE, TRUE)]
    <2>1. ss = [i \in 1..6 |-> ss[i]] /\ \A i \in 1..6 : Tidy(ss[i], {}) BY SetupErxTidy
    <2> HIDE DEF ss
    <2>2. Tidy(FlattenSeq(ss), {}) BY <2>1, TidyFlatten
    <2> QED BY <2>2 DEF ss, TestElinks
  <1>4. Tidy(TestEclk, {})
    <2> DEFINE ts(i) == [k \in 1..4 |-> SetupEclk(i - 1, 20 * 2^k) \o SetupEclk(i - 1, 0)]
               ss == [i \in 1..8 |-> FlattenSeq(ts(i))]
    <2>1. \A i \in 1..8 : \A k \in 1..4 : Tidy(SetupEclk(i - 1, 20 * 2^k) \o SetupEclk(i - 1, 0), {})
      BY SetupEclkTidy, TidyJoin
    <2>2. \A i \in 1..8 : ts(i) = [k \in 1..4 |-> ts(i)[k]] /\ \A k \in 1..4 : Tidy(ts(i)[k], {})
      BY <2>1
    <2> HIDE DEF ts
    <2>3. ss = [i \in 1..8 |-> ss[i]] /\ \A i \in 1..8 : Tidy(ss[i], {}) BY <2>2, TidyFlatten
    <2> HIDE DEF ss
    <2>4. Tidy(FlattenSeq(ss), {}) BY <2>3, TidyFlatten
    <2> QED BY <2>4 DEF ss, ts, TestEclk
  <1> QED BY <1>1, <1>2, <1>3, <1>4

LEMMA AdcAllTidy == Tidy(AdcAll, {})
  <1> DEFINE ss == [i \in 1..15 |-> AdcRead(i - 1, 15, 1)]
  <1>1. ss = [i \in 1..15 |-> ss[i]] /\ \A i \in 1..15 : Tidy(ss[i], {}) BY AdcReadTidy
  <1> HIDE DEF ss
  <1>2. Tidy(FlattenSeq(ss), {}) BY <1>1, TidyFlatten
  <1> QED BY <1>2 DEF ss, AdcAll

LEMMA I2cScanTidy == Tidy(I2cScan, {})
  <1> DEFINE p(a) == <<PutAt("I2CM0ADDRESS", 0, Bits(a - 1)), Put("I2CM0DATA0", {}),
                       Put("I2CM0CMD", {}), Put("I2CM0CMD", Bits(3)), Poll>>
             ss == [a \in 1..Addresses |-> p(a)]
  <1>1. {"I2CM0ADDRESS", "I2CM0DATA0", "I2CM0CMD"} \cap UnitNames = {} BY DEF UnitNames, AllUnits
  <1>2. \A a : Tidy(p(a), {})
    <2> TAKE a
    <2>1. PlainProg(p(a)) BY <1>1, PutPlain, PollPlain, Plain5
    <2> QED BY <2>1, PlainTidy
  <1> HIDE DEF p
  <1>3. ss = [a \in 1..Addresses |-> ss[a]] /\ \A a \in 1..Addresses : Tidy(ss[a], {}) BY <1>2
  <1> HIDE DEF ss
  <1>4. Tidy(FlattenSeq(ss), {}) BY <1>3, BoardAssumption, TidyFlatten
  <1>5. Tidy(SetupI2c(0, 100), {}) BY SetupI2cTidy
  <1> QED BY <1>4, <1>5, TidyJoin DEF I2cScan, ss, p

LEMMA ModeTidy ==
    ASSUME NEW d, NEW p, NEW m \in DOMAIN Modes
    PROVE  Tidy(SetupMode(d, p, m), {})
  <1>1. (AdKinds \cup {"DAC"}) \cap UnitNames = {} BY DEF UnitNames, AllUnits, AdKinds
  <1>2. \A k \in AdKinds : Plain(Set1(k, d, p)) /\ Plain(Clr1(k, d, p))
    BY <1>1, PutPlain DEF Set1, Clr1
  <1>3. Plain(PutAt("DAC", 8 * d + p, {})) BY <1>1, PutPlain
  <1>4. /\ Plain(Set1("GPO_ENABLE", d, p)) /\ Plain(Clr1("GPO_ENABLE", d, p))
        /\ Plain(Set1("GPI_ENABLE", d, p)) /\ Plain(Clr1("GPI_ENABLE", d, p))
        /\ Plain(Set1("ADC_PIN", d, p)) /\ Plain(Clr1("ADC_PIN", d, p))
        /\ Plain(Set1("DAC_PIN", d, p)) /\ Plain(Clr1("DAC_PIN", d, p))
        /\ Plain(Set1("PULLDOWN", d, p)) /\ Plain(Clr1("PULLDOWN", d, p))
        /\ Plain(Set1("GPO_WRITE", d, p)) /\ Plain(Clr1("GPO_WRITE", d, p))
    BY <1>2 DEF AdKinds
  <1>5. /\ PlainProg(ClearPin(d, p)) /\ PlainProg(SetupGpi(d, p)) /\ PlainProg(SetupDac(d, p))
        /\ PlainProg(SetupAdc(d, p))
    BY <1>3, <1>4, Plain4, Plain5, Plain6 DEF ClearPin, SetupGpi, SetupDac, SetupAdc
  <1>6. \A v \in {0, 1} : PlainProg(SetupGpo(d, p, v)) BY <1>4, Plain5 DEF SetupGpo
  <1>7. m \in {"gpi", "gpo0", "gpo1", "adc", "dac", "clear"} BY DEF Modes
  <1>8. PlainProg(SetupMode(d, p, m)) BY <1>5, <1>6, <1>7 DEF SetupMode
  <1> QED BY <1>8, PlainTidy

LEMMA SetAllTidy ==
    ASSUME NEW n \in Nat, NEW settings, settings = [i \in 1..n |-> settings[i]],
           \A i \in 1..n : settings[i][2] \in DOMAIN Modes
    PROVE  Tidy(SetAll(settings), {})
  <1> DEFINE ss == [i \in DOMAIN settings |-> SetupMode(1, settings[i][1], settings[i][2])]
  <1>1. ss = [i \in 1..n |-> ss[i]] /\ \A i \in 1..n : Tidy(ss[i], {}) BY ModeTidy
  <1>2. SetAll(settings) = FlattenSeq(ss) BY DEF SetAll
  <1> HIDE DEF ss
  <1> QED BY <1>1, <1>2, TidyFlatten

LEMMA VoltsTidy == Tidy(SetAll(Power), {}) /\ \A n : Tidy(SetAll(Volts(n)), {})
  <1>1. Tidy(SetAll(Power), {})
    <2> DEFINE s == Power
    <2>1. s = [i \in 1..8 |-> s[i]] /\ \A i \in 1..8 : s[i][2] \in DOMAIN Modes BY DEF Power, Modes
    <2> HIDE DEF s
    <2>2. Tidy(SetAll(s), {}) BY <2>1, SetAllTidy
    <2> QED BY <2>2 DEF s
  <1>2. ASSUME NEW n PROVE Tidy(SetAll(Volts(n)), {})
    <2> DEFINE s == Volts(n)
    <2>1. s = [i \in 1..3 |-> s[i]] /\ \A i \in 1..3 : s[i][2] \in DOMAIN Modes
      BY DEF Volts, Tune, Modes
    <2> HIDE DEF s
    <2>2. Tidy(SetAll(s), {}) BY <2>1, SetAllTidy
    <2> QED BY <2>2 DEF s
  <1> QED BY <1>1, <1>2

LEMMA FieldsTidy ==
    /\ \A i, ph : Tidy(<<On(R("WIRED_DELAY"), 7..24, {b + 16 : b \in Bits(ph)} \cup {b + 7 : b \in Bits(ph)}),
                         On(R("UPLINK_PHASE"), Field(i, 5) \cup {31}, {b + 5 * i : b \in Bits(ph)})>>, {})
    /\ \A i, n : Tidy(<<On(R("UPLINK_PATTERN"), Field(i, 4), {b + 4 * i : b \in Bits(n)})>>, {})
  <1>1. {"WIRED_DELAY", "UPLINK_PHASE", "UPLINK_PATTERN"} \cap UnitNames = {}
    BY DEF UnitNames, AllUnits
  <1>2. \A n \in {"WIRED_DELAY", "UPLINK_PHASE", "UPLINK_PATTERN"} : \A mask, val : Plain(On(R(n), mask, val))
    BY <1>1, OnPlain DEF R
  <1> QED BY <1>2, Plain1, Plain2, PlainTidy
-----------------------------------------------------------------------------
(***************************************************************************)
(* What a step does to the program that runs: it is started, makes its     *)
(* next access, skips it, breaks off, or a round of the pin test runs one  *)
(* to its end.                                                             *)
(***************************************************************************)
LEMMA PinCalls == CallPins => StartsPlain \/ StartsPins
  <1>1. ASSUME CallGpioCfgSet PROVE StartsPins
    <2>1. PICK p \in Pin, c \in Cfg, n \in Name :
              Serve(GpioCfgSet(p, c, n), AsFunction(AskedPins(<<<<p, c, n>>>>)))
      BY <1>1 DEF CallGpioCfgSet
    <2> DEFINE g == GpioCfgSet(p, c, n)
               names == <<<<p, c, n>>>>
    <2>2. DOMAIN names = {1} /\ names[1] = <<p, c, n>>
      OBVIOUS
    <2>3. PinList(names)
      <3>1. names = [i \in 1..1 |-> names[i]]
        OBVIOUS
      <3>2. p \in Pins12 BY ServiceAssumption DEF Pins12
      <3>3. \A i \in 1..1 : i = 1
        OBVIOUS
      <3> HIDE DEF names
      <3>4. \A i \in 1..1 : names[i][1] \in Pins12 BY <2>2, <3>2, <3>3
      <3> QED BY <3>1, <3>3, <3>4 DEF PinList, PinsOf
    <2>4. Enters(g, names)
      <3>1. Prog(g) /\ Leaves(g) = {} /\ Entries(g) = {EntryOf(p, c, n)} BY CfgEntries
      <3> HIDE DEF names
      <3>2. EntriesOf(names) = {EntryOf(p, c, n)} BY <2>2 DEF EntriesOf
      <3> QED BY <3>1, <3>2 DEF Enters
    <2>5. NoNames({x[1] : x \in {}}) /\ AskedPins(names) \cup {} = AskedPins(names) BY DEF NoNames
    <2> HIDE DEF g, names
    <2>6. Serve(g, AsFunction(AskedPins(names) \cup {})) BY <2>1, <2>5 DEF g, names
    <2> QED BY <2>3, <2>4, <2>5, <2>6 DEF StartsPins
  <1>2. ASSUME CallGpioSet PROVE StartsPlain
    <2>1. PICK p \in Pin, high \in BOOLEAN : Serve(GpioSet(p, high), One(<<"out", p>>, high))
      BY <1>2 DEF CallGpioSet
    <2>2. NoNames(DOMAIN One(<<"out", p>>, high)) BY DEF NoNames, One
    <2> QED BY <2>1, <2>2, GpioSetTidy DEF StartsPlain
  <1>3. ASSUME CallGpioSetAll PROVE StartsPlain
    <2>1. PICK S \in SUBSET Pin : Serve(GpioSetAll(S), [i \in {"out"} \X (0..11) |-> i[2] \in S])
      BY <1>3 DEF CallGpioSetAll
    <2>2. NoNames(DOMAIN [i \in {"out"} \X (0..11) |-> i[2] \in S]) BY DEF NoNames
    <2> QED BY <2>1, <2>2, GpioSetAllTidy DEF StartsPlain
  <1>4. ASSUME CallSetGPO PROVE StartsPlain
    <2>1. PICK n \in DOMAIN gpos, high \in BOOLEAN :
              Serve(GpioSet(gpos[n], high), One(<<"out", Shown(gpos[n])>>, high))
      BY <1>4 DEF CallSetGPO
    <2>2. NoNames(DOMAIN One(<<"out", Shown(gpos[n])>>, high)) BY DEF NoNames, One
    <2> QED BY <2>1, <2>2, GpioSetTidy DEF StartsPlain
  <1> QED BY <1>1, <1>2, <1>3, <1>4 DEF CallPins

LEMMA OneKind ==
    ASSUME NEW kind, kind # "name"
    PROVE  \A x, v : NoNames(DOMAIN One(<<kind, x>>, v))
  BY DEF NoNames, One

LEMMA NothingAsked == NoNames(DOMAIN <<>>)
  BY DEF NoNames

LEMMA LinkCalls == CallLinks => StartsPlain
  <1>1. ASSUME CallSetupEtx PROVE StartsPlain
    BY <1>1, SetupEtxTidy, OneKind, Zenon DEF CallSetupEtx, StartsPlain
  <1>2. ASSUME CallSetupEclk PROVE StartsPlain
    BY <1>2, SetupEclkTidy, OneKind, Zenon DEF CallSetupEclk, StartsPlain
  <1>3. ASSUME CallSetupErx PROVE StartsPlain
    BY <1>3, SetupErxTidy, OneKind, Zenon DEF CallSetupErx, StartsPlain
  <1>4. ASSUME CallSetupI2c PROVE StartsPlain
    BY <1>4, SetupI2cTidy, NothingAsked, Zenon DEF CallSetupI2c, StartsPlain
  <1> QED BY <1>1, <1>2, <1>3, <1>4 DEF CallLinks

LEMMA OtherCalls == CallOthers => StartsPlain
  <1>1. \A lines : NoNames(DOMAIN AskedOf(lines)) BY DEF NoNames, AskedOf
  <1>2. ASSUME CallWriteList PROVE StartsPlain
    BY <1>1, <1>2, WriteTidy, Zenon DEF CallWriteList, StartsPlain
  <1>3. ASSUME CallApplyTable PROVE StartsPlain
    BY <1>1, <1>3, ApplyTableTidy, Zenon DEF CallApplyTable, StartsPlain
  <1> QED BY <1>2, <1>3 DEF CallOthers

LEMMA MeasureCalls == CallMeasure \/ CallCheckPrbs => StartsPlain
  <1>1. ASSUME CallMeasure PROVE StartsPlain
    <2>1. PICK p \in {AdcRead(3, 15, 8), AdcRead(12, 15, 1), AdcResistanceRead(2, 100, 1), SerialNumber}
                     \cup {ReadInternalTempPrecise(t) : t \in Tunes} : Serve(p, <<>>)
      BY <1>1 DEF CallMeasure
    <2>2. /\ Tidy(AdcRead(3, 15, 8), {}) /\ Tidy(AdcRead(12, 15, 1), {})
          /\ Tidy(AdcResistanceRead(2, 100, 1), {}) /\ Tidy(SerialNumber, {})
      BY AdcReadTidy, AdcResistanceTidy, SerialTidy
    <2>3. Tidy(p, {}) BY <2>2, TempTidy
    <2> QED BY <2>1, <2>3, NothingAsked DEF StartsPlain
  <1>2. ASSUME CallCheckPrbs PROVE StartsPlain
    BY <1>2, PrbsTidy, OneKind, Zenon DEF CallCheckPrbs, StartsPlain
  <1> QED BY <1>1, <1>2

LEMMA KeyKind == \A kind, n, v : <<<<kind, n>>, v>>[1][1] = kind
  OBVIOUS

LEMMA KindOnly ==
    ASSUME NEW S, NEW kind, kind # "name", \A x \in S : x[1][1] = kind
    PROVE  NoNames({x[1] : x \in S})
  BY DEF NoNames

LEMMA KindsAsked ==
    /\ \A n : NoNames({x[1] : x \in AllErx(n)})
    /\ \A names : NoNames({x[1] : x \in AllHigh(names)})
  <1>1. \A n : \A x \in AllErx(n) : x[1][1] = "erx" BY KeyKind DEF AllErx
  <1>2. \A names : \A x \in AllHigh(names) : x[1][1] = "out"
    <2> TAKE names
    <2> DEFINE yes == TRUE
               S == {<<<<"out", y[1]>>, yes>> : y \in ToSet(names)}
    <2>1. AllHigh(names) = S BY DEF AllHigh
    <2> HIDE DEF yes
    <2>2. \A x \in S : x[1][1] = "out"
      OBVIOUS
    <2> QED BY <2>1, <2>2
  <1> QED BY <1>1, <1>2, KindOnly

LEMMA NoNamesUnion ==
    ASSUME NEW A, NEW B, NoNames({x[1] : x \in A}), NoNames({x[1] : x \in B})
    PROVE  NoNames({x[1] : x \in A \cup B})
  BY DEF NoNames

LEMMA SetupCalls == CallSetupHcalDaq \/ CallSetupHcalTrig \/ CallSetupEcal => StartsPins
  <1>1. ASSUME CallSetupHcalDaq PROVE StartsPins
    <2> DEFINE A == AskedPins(HcalDaqPins)
               B == AllHigh(HcalDaqPins)
               C == AllErx(1)
               D == {<<<<"eclk", i>>, IF i = 7 THEN 40 ELSE 320>> : i \in 0..7}
               E == {<<<<"etx", i>>, Straight>> : i \in 0..6}
    <2>1. Serve(SetupHcalDaq, AsFunction(A \cup B \cup C \cup D \cup E))
      BY <1>1 DEF CallSetupHcalDaq
    <2>2. NoNames({x[1] : x \in D}) /\ NoNames({x[1] : x \in E})
      <3> DEFINE yes == Straight
                 rate(i) == IF i = 7 THEN 40 ELSE 320
                 D2 == {<<<<"eclk", i>>, rate(i)>> : i \in 0..7}
                 E2 == {<<<<"etx", i>>, yes>> : i \in 0..6}
      <3>1. D = D2 /\ E = E2
        OBVIOUS
      <3> HIDE DEF yes, rate
      <3>2. (\A x \in D2 : x[1][1] = "eclk") /\ (\A x \in E2 : x[1][1] = "etx")
        OBVIOUS
      <3> HIDE DEF D, E, D2, E2
      <3> QED BY <3>1, <3>2, KindOnly
    <2>3. NoNames({x[1] : x \in B}) /\ NoNames({x[1] : x \in C}) BY KindsAsked
    <2>4. PinList(HcalDaqPins)
      <3> DEFINE n == HcalDaqPins
      <3>1. n = [i \in 1..6 |-> n[i]] BY DEF HcalDaqPins
      <3>2. \A i \in 1..6 : n[i][1] \in Pins12 BY DEF HcalDaqPins, Pins12
      <3>3. \A i, j \in 1..6 : i # j => n[i][1] # n[j][1] /\ n[i][3] # n[j][3] BY DEF HcalDaqPins
      <3> HIDE DEF n
      <3>4. PinList(n) BY <3>1, <3>2, <3>3 DEF PinList, PinsOf
      <3> QED BY <3>4 DEF n
    <2> HIDE DEF A, B, C, D, E
    <2>5. A \cup B \cup C \cup D \cup E = A \cup (B \cup C \cup D \cup E)
      OBVIOUS
    <2>6. NoNames({x[1] : x \in B \cup C \cup D \cup E}) BY <2>2, <2>3, NoNamesUnion
    <2> DEFINE O == B \cup C \cup D \cup E
    <2>7. Serve(SetupHcalDaq, AsFunction(A \cup O)) /\ NoNames({x[1] : x \in O}) BY <2>1, <2>5, <2>6
    <2> HIDE DEF O
    <2> QED BY <2>4, <2>7, DaqSetup DEF StartsPins, A
  <1>2. ASSUME CallSetupHcalTrig PROVE StartsPins
    <2> DEFINE A == AskedPins(HcalTrigPins)
               B == AllHigh(HcalTrigPins)
               C == AllErx(6)
    <2>1. Serve(SetupHcalTrig, AsFunction(A \cup B \cup C)) BY <1>2 DEF CallSetupHcalTrig
    <2>2. NoNames({x[1] : x \in B}) /\ NoNames({x[1] : x \in C}) BY KindsAsked
    <2>3. PinList(HcalTrigPins)
      <3> DEFINE n == HcalTrigPins
      <3>1. n = [i \in 1..8 |-> n[i]] BY DEF HcalTrigPins
      <3>2. \A i \in 1..8 : n[i][1] \in Pins12 BY DEF HcalTrigPins, Pins12
      <3>3. \A i, j \in 1..8 : i # j => n[i][1] # n[j][1] /\ n[i][3] # n[j][3] BY DEF HcalTrigPins
      <3> HIDE DEF n
      <3>4. PinList(n) BY <3>1, <3>2, <3>3 DEF PinList, PinsOf
      <3> QED BY <3>4 DEF n
    <2> HIDE DEF A, B, C
    <2>4. A \cup B \cup C = A \cup (B \cup C)
      OBVIOUS
    <2> DEFINE O == B \cup C
    <2>5. Serve(SetupHcalTrig, AsFunction(A \cup O)) /\ NoNames({x[1] : x \in O})
      BY <2>1, <2>2, <2>4, NoNamesUnion
    <2> HIDE DEF O
    <2> QED BY <2>3, <2>5, TrigSetup DEF StartsPins, A
  <1>3. ASSUME CallSetupEcal PROVE StartsPins
    <2>1. PICK daq \in BOOLEAN : Serve(SetupEcal(daq), AsFunction(
            AskedPins(EcalPins) \cup
            IF daq THEN AllHigh(EcalPins) \cup AllErx(1) \cup {<<<<"eclk", 0>>, 320>>,
                            <<<<"eclk", 7>>, 40>>, <<<<"etx", 0>>, Straight>>}
            ELSE AllErx(6)))
      BY <1>3 DEF CallSetupEcal
    <2> DEFINE B == AllHigh(EcalPins)
               C == AllErx(1)
               D == {<<<<"eclk", 0>>, 320>>, <<<<"eclk", 7>>, 40>>, <<<<"etx", 0>>, Straight>>}
               O == IF daq THEN B \cup C \cup D ELSE AllErx(6)
    <2>2. NoNames({x[1] : x \in D})
      <3> DEFINE a == <<<<"eclk", 0>>, 320>>
                 b == <<<<"eclk", 7>>, 40>>
                 c == <<<<"etx", 0>>, Straight>>
      <3>1. a[1][1] = "eclk" /\ b[1][1] = "eclk" /\ c[1][1] = "etx" /\ D = {a, b, c} BY KeyKind
      <3> HIDE DEF D, a, b, c
      <3> QED BY <3>1 DEF NoNames
    <2>3. NoNames({x[1] : x \in B}) /\ NoNames({x[1] : x \in C}) /\ NoNames({x[1] : x \in AllErx(6)})
      BY KindsAsked
    <2>4. PinList(EcalPins)
      <3> DEFINE n == EcalPins
      <3>1. n = [i \in 1..5 |-> n[i]] BY DEF EcalPins
      <3>2. \A i \in 1..5 : n[i][1] \in Pins12 BY DEF EcalPins, Pins12
      <3>3. \A i, j \in 1..5 : i # j => n[i][1] # n[j][1] /\ n[i][3] # n[j][3] BY DEF EcalPins
      <3> HIDE DEF n
      <3>4. PinList(n) BY <3>1, <3>2, <3>3 DEF PinList, PinsOf
      <3> QED BY <3>4 DEF n
    <2>5. Serve(SetupEcal(daq), AsFunction(AskedPins(EcalPins) \cup O)) BY <2>1
    <2> HIDE DEF B, C, D
    <2>6. NoNames({x[1] : x \in B \cup C \cup D}) BY <2>2, <2>3, NoNamesUnion
    <2>7. NoNames({x[1] : x \in O}) BY <2>3, <2>6
    <2> HIDE DEF O
    <2> QED BY <2>4, <2>5, <2>7, EcalSetup DEF StartsPins
  <1> QED BY <1>1, <1>2, <1>3

LEMMA LinksKind ==
    ASSUME NEW kind, kind # "name"
    PROVE  \A n, v : NoNames(DOMAIN Links(kind, n, v))
  BY DEF NoNames, Links

LEMMA BenchCalls == TestCalls \/ CallGpioWrite \/ CallReset \/ GetLpgbtTemps => StartsPlain
  <1>1. ASSUME TestCalls PROVE StartsPlain
    <2>1. CASE \E p \in {TestBasic, TestAdc, TestEc, AdcAll, I2cScan} : Serve(p, <<>>)
      <3>1. PICK p \in {TestBasic, TestAdc, TestEc, AdcAll, I2cScan} : Serve(p, <<>>) BY <2>1
      <3>2. Tidy(TestBasic, {}) BY SerialTidy DEF TestBasic
      <3>3. Tidy(p, {}) BY <3>2, TestAdcTidy, TestLinksTidy, AdcAllTidy, I2cScanTidy
      <3> QED BY <3>1, <3>3, NothingAsked DEF StartsPlain
    <2>2. CASE Serve(TestCtl, Links("etx", 7, Straight))
      <3>1. NoNames(DOMAIN Links("etx", 7, Straight)) BY LinksKind
      <3> QED BY <2>2, <3>1, TestLinksTidy DEF StartsPlain
    <2>3. CASE Serve(TestElinks, Links("erx", 6, 0))
      <3>1. NoNames(DOMAIN Links("erx", 6, 0)) BY LinksKind
      <3> QED BY <2>3, <3>1, TestLinksTidy DEF StartsPlain
    <2>4. CASE Serve(TestEclk, Links("eclk", 8, 0))
      <3>1. NoNames(DOMAIN Links("eclk", 8, 0)) BY LinksKind
      <3> QED BY <2>4, <3>1, TestLinksTidy DEF StartsPlain
    <2> QED BY <1>1, <2>1, <2>2, <2>3, <2>4 DEF TestCalls
  <1>2. ASSUME CallGpioWrite PROVE StartsPlain
    <2>1. PICK p \in Pin : Serve(GpioSetAll(GpioGetAll \cup {p}),
                                 [i \in {"out"} \X (0..11) |-> i[2] \in GpioGetAll \cup {p}])
      BY <1>2 DEF CallGpioWrite
    <2>2. NoNames(DOMAIN [i \in {"out"} \X (0..11) |-> i[2] \in GpioGetAll \cup {p}]) BY DEF NoNames
    <2> QED BY <2>1, <2>2, GpioSetAllTidy DEF StartsPlain
  <1>3. ASSUME CallReset PROVE StartsPlain
    <2>1. Serve(GpioSet(11, FALSE) \o GpioSet(11, TRUE), One(<<"out", 11>>, TRUE))
      BY <1>3 DEF CallReset
    <2>2. Tidy(GpioSet(11, FALSE) \o GpioSet(11, TRUE), {}) BY GpioSetTidy, TidyJoin
    <2>3. NoNames(DOMAIN One(<<"out", 11>>, TRUE)) BY OneKind
    <2> QED BY <2>1, <2>2, <2>3 DEF StartsPlain
  <1>4. ASSUME GetLpgbtTemps PROVE StartsPlain
    <2>1. Tidy(ReadEfuse(0) \o AdcAverage, {}) BY EfuseTidy, AverageTidy, TidyJoin
    <2>2. \A t : Tidy(IF cache' = "full" THEN ReadInternalTempPrecise(t) ELSE <<>>, {})
      BY TempTidy, Plain0, PlainTidy
    <2>3. \A t : Tidy(ReadEfuse(0) \o IF cache' = "full" THEN ReadInternalTempPrecise(t) ELSE <<>>, {})
      BY <2>2, EfuseTidy, TidyJoin
    <2>4. CASE Serve(ReadEfuse(0) \o AdcAverage, <<>>) BY <2>1, <2>4, NothingAsked DEF StartsPlain
    <2>5. CASE \E t : Serve(ReadEfuse(0) \o IF cache' = "full" THEN ReadInternalTempPrecise(t) ELSE <<>>, <<>>)
      BY <2>3, <2>5, NothingAsked, Zenon DEF StartsPlain
    <2> QED BY <1>4, <2>4, <2>5, Zenon DEF GetLpgbtTemps
  <1> QED BY <1>1, <1>2, <1>3, <1>4

LEMMA TesterCalls == CallPin \/ CallVolts \/ CallPhase \/ CallPattern => StartsPlain
  <1>1. ASSUME CallPin PROVE StartsPlain
    <2>1. PICK p \in {0, 7}, m \in DOMAIN Modes :
              Serve(SetupMode(0, p, m), [i \in {<<"mode", 0, p>>} |-> m])
      BY <1>1 DEF CallPin
    <2>2. NoNames(DOMAIN [i \in {<<"mode", 0, p>>} |-> m]) BY DEF NoNames
    <2> QED BY <2>1, <2>2, ModeTidy DEF StartsPlain
  <1>2. ASSUME CallVolts PROVE StartsPlain
    <2>1. \A settings, n : NoNames(DOMAIN AskedAll(settings, n))
      <3> TAKE settings, n
      <3> DEFINE S == {<<<<"mode", 1, x[1]>>, x[2]>> : x \in ToSet(settings)} \cup {<<<<"volts">>, n>>}
      <3>1. \A x \in S : x[1][1] # "name"
        OBVIOUS
      <3> HIDE DEF S
      <3>2. DOMAIN AsFunction(S) = {x[1] : x \in S} BY DEF AsFunction
      <3> QED BY <3>1, <3>2 DEF NoNames, AskedAll, S
    <2>2. \/ Serve(SetAll(Power), AskedAll(Power, 8))
          \/ \E n : Serve(SetAll(Volts(n)), AskedAll(Volts(n), n))
      BY <1>2, Zenon DEF CallVolts
    <2> QED BY <2>1, <2>2, VoltsTidy, Zenon DEF StartsPlain
  <1>3. ASSUME CallPhase PROVE StartsPlain
    <2>1. \A i, ph : NoNames(DOMAIN [x \in {<<"phase", i>>} |-> ph]) BY DEF NoNames
    <2> DEFINE p(i, ph) ==
          <<On(R("WIRED_DELAY"), 7..24, {b + 16 : b \in Bits(ph)} \cup {b + 7 : b \in Bits(ph)}),
            On(R("UPLINK_PHASE"), Field(i, 5) \cup {31}, {b + 5 * i : b \in Bits(ph)})>>
    <2>2. PICK i \in {0, 1, 5}, ph \in {3, 31} : Serve(p(i, ph), [x \in {<<"phase", i>>} |-> ph])
      BY <1>3 DEF CallPhase
    <2>3. Tidy(p(i, ph), {}) BY FieldsTidy
    <2> HIDE DEF p
    <2> QED BY <2>1, <2>2, <2>3 DEF StartsPlain
  <1>4. ASSUME CallPattern PROVE StartsPlain
    <2>1. \A i, n : NoNames(DOMAIN [x \in {<<"pattern", i>>} |-> n]) BY DEF NoNames
    <2> DEFINE p(i, n) == <<On(R("UPLINK_PATTERN"), Field(i, 4), {b + 4 * i : b \in Bits(n)})>>
    <2>2. PICK i \in {0, 1, 5}, n \in {1, 15} : Serve(p(i, n), [x \in {<<"pattern", i>>} |-> n])
      BY <1>4 DEF CallPattern
    <2>3. Tidy(p(i, n), {}) BY FieldsTidy
    <2> HIDE DEF p
    <2> QED BY <2>1, <2>2, <2>3 DEF StartsPlain
  <1> QED BY <1>1, <1>2, <1>3, <1>4

LEMMA DirectedRuns ==
    \A dir : Directed(dir) =>
        /\ \E p : Prog(p) /\ Leaves(p) = {} /\ reg' = After(p)
        /\ \E out \in BOOLEAN : AddPin(<<"", 11, out>>)
  <1> TAKE dir
  <1> SUFFICES ASSUME Directed(dir)
               PROVE  /\ \E p : Prog(p) /\ Leaves(p) = {} /\ reg' = After(p)
                      /\ \E out \in BOOLEAN : AddPin(<<"", 11, out>>)
    OBVIOUS
  <1> DEFINE ss == [i \in 1..12 |-> GpioCfgSet(i - 1, IF dir = "out" THEN {"output"} ELSE {}, "")]
  <1>1. reg' = After(FlattenSeq(ss)) /\ AddPin(<<"", 11, dir = "out">>) BY DEF Directed
  <1>2. ss = [i \in 1..12 |-> ss[i]] /\ \A i \in 1..12 : Prog(ss[i]) /\ Leaves(ss[i]) = {}
    BY CfgEntries
  <1> HIDE DEF ss
  <1>3. Prog(FlattenSeq(ss)) /\ Leaves(FlattenSeq(ss)) = {} BY <1>2, FlattenEntries
  <1>4. (dir = "out") \in BOOLEAN
    OBVIOUS
  <1> QED BY <1>1, <1>3, <1>4

LEMMA WalkRuns == Walk => RunsRound
  <1>1. ASSUME StartWalk \/ Turn PROVE RunsRound
    BY <1>1, DirectedRuns, Zenon DEF StartWalk, Turn, RunsRound
  <1>2. ASSUME WalkOut PROVE RunsRound
    <2>1. OnlyWalk /\ reg' = After(GpioSetAll(Pattern(walk.k))) /\ UNCHANGED <<gpos, gpis>>
      BY <1>2 DEF WalkOut
    <2>2. Tidy(GpioSetAll(Pattern(walk.k)), {}) BY GpioSetAllTidy
    <2> QED BY <2>1, <2>2 DEF RunsRound, Tidy
  <1>3. ASSUME WalkIn PROVE RunsRound BY <1>3 DEF WalkIn, RunsRound
  <1>4. ASSUME EndRound PROVE RunsRound
    <2>1. OnlyWalk /\ (Directed("out") \/ UNCHANGED <<reg, gpos, gpis>>) BY <1>4 DEF EndRound
    <2> QED BY <2>1, DirectedRuns DEF RunsRound
  <1> QED BY <1>1, <1>2, <1>3, <1>4 DEF Walk

LEMMA StepKinds ==
    [NextBench]_bvars =>
        StartsPlain \/ StartsPins \/ RunsRound \/ Unnoticed \/ Step \/ BreakOff \/ UNCHANGED cvars
  <1>1. Chip => StartsPlain \/ StartsPins
    BY PinCalls, LinkCalls, OtherCalls, MeasureCalls, SetupCalls DEF Chip, CallLong
  <1>2. Bench => StartsPlain BY BenchCalls DEF Bench
  <1>3. Tester => StartsPlain BY TesterCalls DEF Tester
  <1> QED BY <1>1, <1>2, <1>3, WalkRuns DEF NextBench, bvars
-----------------------------------------------------------------------------
(***************************************************************************)
(* Quiet.                                                                  *)
(***************************************************************************)
LEMMA EmptyProg == Prog(<<>>) /\ Leaves(<<>>) = {} /\ Off(<<>>) = {} /\ Entries(<<>>) = {}
  <1>1. Tidy(<<>>, {}) BY Plain0, PlainTidy
  <1>2. DOMAIN <<>> = {}
    OBVIOUS
  <1> QED BY <1>1, <1>2 DEF Tidy, Off

LEMMA UnitsAre ==
    /\ \A u : u \in Units <=> u \in AllUnits /\ u[2] \in Value(R(u[1]))
    /\ \A u : u \in Units' <=> u \in AllUnits /\ u[2] \in Value(R(u[1]))'
  BY DEF Units, AllUnits, Value, R

\* The first access of a program and the rest.
LEMMA HeadTail ==
    ASSUME NEW p, Prog(p), p # <<>>
    PROVE  /\ Prog(Tail(p))
           /\ \E n \in Nat : /\ n >= 1 /\ Len(p) = n /\ DOMAIN p = 1..n
                             /\ DOMAIN Tail(p) = 1..(n - 1)
                             /\ Head(p) = p[1]
                             /\ \A i \in 1..(n - 1) : Tail(p)[i] = p[i + 1]
  <1> DEFINE A == {p[i] : i \in DOMAIN p}
  <1>1. p \in Seq(A) BY DEF Prog
  <1> HIDE DEF A
  <1>2. /\ Len(p) \in Nat /\ Len(p) >= 1 /\ DOMAIN p = 1..Len(p) /\ Head(p) = p[1]
        /\ Tail(p) \in Seq(A) /\ Len(Tail(p)) = Len(p) - 1
        /\ DOMAIN Tail(p) = 1..(Len(p) - 1)
        /\ \A i \in 1..(Len(p) - 1) : Tail(p)[i] = p[i + 1]
    BY <1>1
  <1>3. Prog(Tail(p)) BY <1>2, ProgOf, Zenon
  <1> QED BY <1>2, <1>3

LEMMA TailLeaves ==
    ASSUME NEW p, Prog(p), p # <<>>, Leaves(p) = {}
    PROVE  /\ Leaves(Tail(p)) = {}
           /\ \A u \in Off(p) : SwitchesOff(Head(p), u) \/ u \in Off(Tail(p))
           /\ \A u \in AllUnits : SwitchesOn(Head(p), u) => u \in Off(Tail(p))
           /\ Entries(p) = Entries(Tail(p)) \cup (IF Head(p).pin = <<>> THEN {} ELSE {Head(p).pin})
  <1> DEFINE q == Tail(p)
  <1>1. PICK n \in Nat : /\ n >= 1 /\ DOMAIN p = 1..n /\ DOMAIN q = 1..(n - 1)
                         /\ Head(p) = p[1] /\ \A i \in 1..(n - 1) : q[i] = p[i + 1]
    BY HeadTail
  <1> HIDE DEF q
  <1>2. \A i \in 1..(n - 1) : i + 1 \in 1..n /\ i + 1 > 1 /\ q[i] = p[i + 1] BY <1>1
  <1>3. \A i \in 1..n : i = 1 \/ (i - 1 \in 1..(n - 1) /\ p[i] = q[i - 1]) BY <1>1
  <1>4. Leaves(q) = {}
    <2> SUFFICES ASSUME NEW u \in AllUnits, NEW i \in 1..(n - 1), SwitchesOn(q[i], u),
                        \A j \in 1..(n - 1) : j > i => ~SwitchesOff(q[j], u)
                 PROVE  FALSE
      BY <1>1 DEF Leaves
    <2>1. \A j \in 1..n : j > i + 1 => ~SwitchesOff(p[j], u)
      <3> TAKE j \in 1..n
      <3>1. j > i + 1 => j # 1 /\ j - 1 > i BY <1>1
      <3> QED BY <1>3, <3>1
    <2> QED BY <1>1, <1>2, <2>1 DEF Leaves
  <1>5. \A u \in Off(p) : SwitchesOff(Head(p), u) \/ u \in Off(q) BY <1>1, <1>3 DEF Off
  <1>6. \A u \in AllUnits : SwitchesOn(Head(p), u) => u \in Off(q)
    <2> SUFFICES ASSUME NEW u \in AllUnits, SwitchesOn(p[1], u) PROVE u \in Off(q) BY <1>1
    <2>1. PICK j \in 1..n : j > 1 /\ SwitchesOff(p[j], u) BY <1>1 DEF Leaves
    <2>2. j - 1 \in 1..(n - 1) /\ SwitchesOff(q[j - 1], u) BY <1>1, <1>3, <2>1
    <2> QED BY <1>1, <2>2 DEF Off
  <1>7. Entries(p) = Entries(q) \cup (IF Head(p).pin = <<>> THEN {} ELSE {Head(p).pin})
    <2>1. \A x \in Entries(p) : x \in Entries(q) \/ (Head(p).pin = x /\ x # <<>>)
      <3> SUFFICES ASSUME NEW i \in 1..n, p[i].pin # <<>>
                   PROVE  p[i].pin \in Entries(q) \/ Head(p).pin = p[i].pin
        BY <1>1 DEF Entries
      <3>1. i # 1 => i - 1 \in 1..(n - 1) /\ q[i - 1].pin = p[i].pin BY <1>3
      <3>2. i # 1 => p[i].pin \in Entries(q) BY <1>1, <3>1 DEF Entries
      <3> QED BY <1>1, <3>2
    <2>2. Entries(q) \subseteq Entries(p) BY <1>1, <1>2 DEF Entries
    <2>3. Head(p).pin # <<>> => Head(p).pin \in Entries(p) BY <1>1 DEF Entries
    <2> QED BY <2>1, <2>2, <2>3
  <1> QED BY <1>4, <1>5, <1>6, <1>7 DEF q

\* A program that leaves no unit on, run to its end, switches none on.
LEMMA AfterOff ==
    ASSUME NEW p, Prog(p), Leaves(p) = {}, reg' = After(p)
    PROVE  Units' \subseteq Units
  <1> SUFFICES ASSUME NEW u \in AllUnits, u[2] \in Value(R(u[1]))' PROVE u[2] \in Value(R(u[1]))
    BY UnitsAre
  <1> DEFINE x == R(u[1])
             b == u[2]
             hits == {i \in DOMAIN p : x \in DOMAIN p[i].write
                                       /\ b \in p[i].write[x].mask \cup p[i].write[x].val}
             last == CHOOSE i \in hits : \A j \in hits : j <= i
  <1>1. x \in DOMAIN reg' /\ b \in reg'[x] BY DEF Value, R
  <1>2. IF hits = {} THEN b \in Value(x) ELSE b \in p[last].write[x].val BY <1>1 DEF After
  <1>3. CASE hits # {}
    <2>1. PICK n \in Nat : DOMAIN p = 1..n
      <3>1. p \in Seq({p[i] : i \in DOMAIN p}) BY DEF Prog
      <3> QED BY <3>1
    <2>2. hits \subseteq 1..n BY <2>1
    <2>3. \E i \in hits : \A j \in hits : j <= i
      <3> DEFINE T == {n - i : i \in hits}
      <3>1. T \subseteq Nat /\ T # {} BY <1>3, <2>2
      <3>2. PICK t \in T : \A s \in T : t <= s
        <4> HIDE DEF T
        <4> QED BY <3>1, LeastInSet
      <3>3. PICK i \in hits : t = n - i BY <3>2
      <3> HIDE DEF hits
      <3>4. \A j \in hits : n - i <= n - j BY <3>2, <3>3
      <3>5. \A j \in hits : j \in Int /\ i \in Int BY <2>2
      <3>6. \A a, c \in Int : n - a <= n - c => c <= a BY <2>1
      <3> QED BY <3>4, <3>5, <3>6
    <2>4. last \in hits /\ \A j \in hits : j <= last BY <2>3
    <2>5. last \in DOMAIN p /\ SwitchesOn(p[last], u) BY <1>2, <1>3, <2>4 DEF SwitchesOn
    <2>6. \A j \in DOMAIN p : SwitchesOff(p[j], u) => j \in hits BY DEF SwitchesOff
    <2> HIDE DEF last, hits
    <2>7. \A j \in DOMAIN p : j > last => ~SwitchesOff(p[j], u)
      <3>1. \A j \in DOMAIN p : j > last => ~(j <= last) BY <2>1, <2>5
      <3> QED BY <2>4, <2>6, <3>1
    <2> QED BY <2>5, <2>7 DEF Leaves
  <1> QED BY <1>2, <1>3

LEMMA UnitsInit == InitBench => UnitsInv
  <1> SUFFICES ASSUME InitBench PROVE UnitsInv
    OBVIOUS
  <1>1. todo = <<>> /\ reg = <<>> BY DEF InitBench, InitChip
  <1>2. \A r : Value(r) = {} BY <1>1 DEF Value
  <1>3. Units = {} BY <1>2, UnitsAre
  <1> QED BY <1>1, <1>3, EmptyProg DEF UnitsInv

LEMMA UnitsNext == UnitsInv /\ [NextBench]_bvars => UnitsInv'
  <1> SUFFICES ASSUME UnitsInv, [NextBench]_bvars PROVE UnitsInv'
    OBVIOUS
  <1>0. Prog(todo) /\ Leaves(todo) = {} /\ Units \subseteq left \cup Off(todo) BY DEF UnitsInv
  <1>1. reg' = reg => Units' = Units BY DEF Units, Value
  <1>2. ASSUME NEW p, NEW what, Serve(p, what), Prog(p), Leaves(p) = {} PROVE UnitsInv'
    <2>1. todo = <<>> /\ todo' = p /\ left' = left /\ reg' = reg BY <1>2 DEF Serve
    <2>2. Units \subseteq left BY <1>0, <2>1, EmptyProg
    <2> QED BY <1>1, <1>2, <2>1, <2>2 DEF UnitsInv
  <1>3. CASE StartsPlain BY <1>2, <1>3 DEF StartsPlain, Tidy
  <1>4. CASE StartsPins BY <1>2, <1>4 DEF StartsPins, Enters
  <1>5. CASE RunsRound
    <2>1. todo = <<>> /\ todo' = todo /\ left' = left BY <1>5 DEF RunsRound, OnlyWalk
    <2>2. Units' \subseteq Units BY <1>1, <1>5, AfterOff DEF RunsRound
    <2> QED BY <1>0, <2>1, <2>2 DEF UnitsInv
  <1>6. CASE Unnoticed
    <2>1. /\ todo # <<>> /\ todo' = Tail(todo) /\ left' = left /\ reg' = reg
          /\ \A r \in DOMAIN Head(todo).write : r[1] \in AdKinds
      BY <1>6 DEF Unnoticed
    <2>2. \A u \in AllUnits : ~SwitchesOff(Head(todo), u)
      <3>1. \A u \in AllUnits : u[1] \notin AdKinds /\ R(u[1])[1] = u[1] BY DEF AllUnits, AdKinds, R
      <3> QED BY <2>1, <3>1 DEF SwitchesOff
    <2>3. Prog(Tail(todo)) BY <1>0, <2>1, HeadTail
    <2>4. /\ Leaves(Tail(todo)) = {}
          /\ \A u \in Off(todo) : SwitchesOff(Head(todo), u) \/ u \in Off(Tail(todo))
      BY <1>0, <2>1, TailLeaves
    <2>5. Off(todo) \subseteq AllUnits BY DEF Off
    <2> QED BY <1>0, <1>1, <2>1, <2>2, <2>3, <2>4, <2>5 DEF UnitsInv
  <1>7. CASE Step
    <2> DEFINE a == Head(todo)
    <2>1. /\ todo # <<>> /\ todo' = Tail(todo)
          /\ reg' = [r \in DOMAIN reg \cup DOMAIN a.write |->
                        IF r \in DOMAIN a.write
                        THEN (Value(r) \ a.write[r].mask) \cup a.write[r].val ELSE reg[r]]
          /\ \/ left' = left
             \/ left' = left \cap Units'
      BY <1>7 DEF Step
    <2>2. Prog(Tail(todo)) BY <1>0, <2>1, HeadTail
    <2>3. /\ Leaves(Tail(todo)) = {}
          /\ \A u \in Off(todo) : SwitchesOff(a, u) \/ u \in Off(Tail(todo))
          /\ \A u \in AllUnits : SwitchesOn(a, u) => u \in Off(Tail(todo))
      BY <1>0, <2>1, TailLeaves
    <2>4. ASSUME NEW u \in Units' PROVE u \in left' \cup Off(todo')
      <3>1. u \in AllUnits /\ u[2] \in Value(R(u[1]))' BY UnitsAre
      <3> DEFINE r == R(u[1])
      <3>2. Value(r)' = IF r \in DOMAIN a.write THEN (Value(r) \ a.write[r].mask) \cup a.write[r].val
                        ELSE Value(r)
        BY <2>1 DEF Value, R
      <3>3. SwitchesOn(a, u) \/ (u[2] \in Value(r) /\ ~SwitchesOff(a, u))
        BY <3>1, <3>2 DEF SwitchesOn, SwitchesOff, Value, R
      <3>4. u \in Units \/ SwitchesOn(a, u) BY <3>1, <3>3, UnitsAre
      <3>5. CASE SwitchesOn(a, u) BY <2>1, <2>3, <3>1, <3>5
      <3>6. CASE u \in Units /\ ~SwitchesOff(a, u)
        <4>1. u \in left \/ u \in Off(Tail(todo)) BY <1>0, <2>3, <3>6
        <4> QED BY <2>1, <2>4, <4>1
      <3> QED BY <3>3, <3>4, <3>5, <3>6
    <2> QED BY <2>1, <2>2, <2>3, <2>4 DEF UnitsInv
  <1>8. CASE BreakOff
    <2>1. todo' = <<>> /\ reg' = reg /\ left' = left \cup Units BY <1>8 DEF BreakOff
    <2> QED BY <1>1, <2>1, EmptyProg DEF UnitsInv
  <1>9. CASE UNCHANGED cvars BY <1>0, <1>1, <1>9 DEF cvars, UnitsInv
  <1> QED BY <1>3, <1>4, <1>5, <1>6, <1>7, <1>8, <1>9, StepKinds

\* QuietAlways: between calls no measurement, fuse access or bit-error test is left running
\* except by a call that broke off, whatever services ran and wherever they broke off.
THEOREM QuietAlways == SpecBench => []Quiet
  <1>1. UnitsInv => Quiet BY EmptyProg DEF UnitsInv, Quiet
  <1> QED BY <1>1, UnitsInit, UnitsNext, PTL DEF SpecBench
-----------------------------------------------------------------------------
(***************************************************************************)
(* NamesTrue.                                                              *)
(***************************************************************************)
LEMMA HiddenOne ==
    \A p, q \in Pins12 : Hidden(p) = Hidden(q) => p = q
  BY DEF Pins12, Hidden

\* What entering a pin does to the tables.
LEMMA AddPinTables ==
    ASSUME NEW e, e[3] \in BOOLEAN, TablesTrue, AddPin(e)
    PROVE  /\ TablesTrue'
           /\ \A n, b : n # e[1] => (At(n, b)' <=> At(n, b) /\ b # e[2])
           /\ \A n, v : n # e[1] /\ v # <<>> /\ Hidden(v[1]) # e[2] => (Named(n, v) => Named(n, v)')
           /\ \A v : v # <<>> /\ Hidden(v[1]) = e[2] /\ v[2] = e[3] => Named(e[1], v)'
           /\ \A n : n # e[1] /\ Named(n, <<>>) => Named(n, <<>>)'
           /\ \A n : n # e[1] /\ At(n, e[2]) => Named(n, <<>>)'
  <1> DEFINE out(t) == {n \in DOMAIN t : n # e[1] /\ t[n] # e[2]}
  <1>1. \A t : DOMAIN Without(t, e) = out(t) /\ \A n \in out(t) : Without(t, e)[n] = t[n]
    BY DEF Without
  <1>2. \A t : /\ DOMAIN With(t, e) = DOMAIN t \cup {e[1]} /\ With(t, e)[e[1]] = e[2]
               /\ \A n \in DOMAIN t : n # e[1] => With(t, e)[n] = t[n]
    BY DEF With
  <1>3. \A t : DOMAIN With(Without(t, e), e) = out(t) \cup {e[1]} /\ With(Without(t, e), e)[e[1]] = e[2]
               /\ \A n \in out(t) : With(Without(t, e), e)[n] = t[n]
    <2> TAKE t
    <2> DEFINE w == Without(t, e)
    <2>1. DOMAIN w = out(t) /\ e[1] \notin out(t) /\ \A n \in out(t) : w[n] = t[n] BY <1>1
    <2> HIDE DEF w, out
    <2>2. /\ DOMAIN With(w, e) = DOMAIN w \cup {e[1]} /\ With(w, e)[e[1]] = e[2]
          /\ \A n \in DOMAIN w : n # e[1] => With(w, e)[n] = w[n]
      BY <1>2
    <2> QED BY <2>1, <2>2 DEF w
  <1>4. /\ DOMAIN gpos' = IF e[3] THEN out(gpos) \cup {e[1]} ELSE out(gpos)
        /\ DOMAIN gpis' = IF e[3] THEN out(gpis) ELSE out(gpis) \cup {e[1]}
        /\ \A n \in out(gpos) : gpos'[n] = gpos[n]
        /\ \A n \in out(gpis) : gpis'[n] = gpis[n]
        /\ e[3] => gpos'[e[1]] = e[2]
        /\ ~e[3] => gpis'[e[1]] = e[2]
    BY <1>1, <1>3 DEF AddPin
  <1>5. /\ \A n : n \in out(gpos) <=> n \in DOMAIN gpos /\ n # e[1] /\ gpos[n] # e[2]
        /\ \A n : n \in out(gpis) <=> n \in DOMAIN gpis /\ n # e[1] /\ gpis[n] # e[2]
    OBVIOUS
  <1> HIDE DEF out
  <1>6. TablesTrue' BY <1>4, <1>5 DEF TablesTrue
  <1>7. ASSUME NEW n, NEW b, n # e[1] PROVE At(n, b)' <=> At(n, b) /\ b # e[2]
    BY <1>4, <1>5, <1>7 DEF At
  <1>8. ASSUME NEW n, NEW v, n # e[1], v # <<>>, Hidden(v[1]) # e[2], Named(n, v) PROVE Named(n, v)'
    BY <1>4, <1>5, <1>8 DEF Named
  <1>9. ASSUME NEW v, v # <<>>, Hidden(v[1]) = e[2], v[2] = e[3] PROVE Named(e[1], v)'
    BY <1>4, <1>9 DEF Named
  <1>10. ASSUME NEW n, n # e[1], Named(n, <<>>) PROVE Named(n, <<>>)' BY <1>4, <1>5, <1>10 DEF Named
  <1>11. ASSUME NEW n, n # e[1], At(n, e[2]) PROVE Named(n, <<>>)'
    BY <1>4, <1>5, <1>11 DEF Named, At, TablesTrue
  <1> QED BY <1>6, <1>7, <1>8, <1>9, <1>10, <1>11
\* A program without an entry leaves the pins that are asked for as they are.
LEMMA NamesInit == InitBench => NamesInv
  <1> SUFFICES ASSUME InitBench PROVE NamesInv
    OBVIOUS
  <1>1. /\ gpos = <<>> /\ gpis = <<>> /\ todo = <<>> /\ asked = <<>> /\ promise = <<>>
        /\ services = 0
    BY DEF InitBench, InitChip
  <1>2. DOMAIN <<>> = {}
    OBVIOUS
  <1>3. TablesTrue BY <1>1, <1>2 DEF TablesTrue
  <1>4. Names(promise) = {} /\ Names(asked) = {} /\ Entries(todo) = {}
    BY <1>1, <1>2, EmptyProg DEF Names
  <1> QED BY <1>1, <1>2, <1>3, <1>4 DEF NamesInv, Items

\* The tables do not change and no entry is added to those still to come.
LEMMA NamesKept ==
    ASSUME NamesInv, UNCHANGED <<gpos, gpis>>,
           \A e \in Entries(todo)' : e \in Entries(todo)
    PROVE  /\ TablesTrue'
           /\ \A n, v : (Named(n, v) => Named(n, v)') /\ (Spares(n, v) => Spares(n, v)')
           /\ \A n, b : At(n, b) => At(n, b)'
           /\ \A e, f \in Entries(todo)' : e # f => e[1] # f[1] /\ e[2] # f[2]
           /\ \A e \in Entries(todo)' : e[3] \in BOOLEAN
  <1>1. TablesTrue' BY DEF NamesInv, TablesTrue
  <1>2. ASSUME NEW n, NEW v, Named(n, v) PROVE Named(n, v)' BY <1>2 DEF Named
  <1>3. ASSUME NEW n, NEW v, Spares(n, v) PROVE Spares(n, v)' BY <1>3 DEF Spares
  <1>4. ASSUME NEW n, NEW b, At(n, b) PROVE At(n, b)' BY <1>4 DEF At
  <1> QED BY <1>1, <1>2, <1>3, <1>4 DEF NamesInv

LEMMA FewerPromises ==
    ASSUME NEW what,
           promise' = [i \in DOMAIN promise \ DOMAIN what |-> promise[i]], Items(promise)
    PROVE  /\ Items(promise)' /\ Names(promise)' = Names(promise) \ DOMAIN what
           /\ \A i \in Names(promise)' : promise'[i] = promise[i]
  BY DEF Items, Names

LEMMA PlainStart ==
    ASSUME NamesInv, NEW p, NEW what, Serve(p, what), Tidy(p, {}), NoNames(DOMAIN what)
    PROVE  NamesInv'
  <1>1. /\ todo' = p /\ asked' = what /\ UNCHANGED <<gpos, gpis>> /\ services' = services + 1
        /\ promise' = [i \in DOMAIN promise \ DOMAIN what |-> promise[i]]
    BY DEF Serve
  <1>2. Entries(todo)' = {} BY <1>1 DEF Tidy
  <1>3. /\ TablesTrue'
        /\ \A n, v : (Named(n, v) => Named(n, v)') /\ (Spares(n, v) => Spares(n, v)')
    BY <1>1, <1>2, NamesKept
  <1>4. /\ Items(promise)' /\ Names(promise)' \subseteq Names(promise)
        /\ \A i \in Names(promise)' : promise'[i] = promise[i]
    BY <1>1, FewerPromises DEF NamesInv
  <1>5. Names(asked)' = {} BY <1>1 DEF NoNames, Names
  <1>6. services' \in Nat /\ services' # 0 BY <1>1 DEF NamesInv
  <1>7. \A i \in Names(promise)' : Named(i[2], promise[i])' /\ Spares(i[2], promise[i])'
    <2> TAKE i \in Names(promise)'
    <2>1. PICK v : v = promise[i]
      OBVIOUS
    <2>2. Named(i[2], v) /\ Spares(i[2], v) /\ promise'[i] = v BY <1>4, <2>1 DEF NamesInv
    <2>3. Named(i[2], v)' /\ Spares(i[2], v)' BY <1>3, <2>2
    <2> QED BY <2>2, <2>3 DEF Named, Spares
  <1> QED BY <1>2, <1>3, <1>4, <1>5, <1>6, <1>7 DEF NamesInv, Items

LEMMA AskedNames ==
    ASSUME NEW n, NEW names, PinsOf(n, names), NEW others, NoNames({x[1] : x \in others})
    PROVE  AskedRight(AskedFor(names, others), n, names)
  <1> DEFINE Given == {<<<<"name", x[3]>>, <<x[1], Out(x[2])>>>> : x \in ToSet(names)}
             Gone == {<<<<"name", m>>, <<>>>> : m \in LostNames(names)}
             Cfgs == {<<<<"cfg", x[1]>>, x[2]>> : x \in ToSet(names)}
             S == AskedPins(names) \cup others
             w == AskedFor(names, others)
  <1>1. ToSet(names) = {names[k] : k \in 1..n} BY DEF ToSet, PinsOf
  <1>2. AskedPins(names) = Cfgs \cup Given \cup Gone BY DEF AskedPins, LostNames, Out
  <1>3. DOMAIN w = {x[1] : x \in S} /\ \A i \in DOMAIN w : w[i] = (CHOOSE x \in S : x[1] = i)[2]
    BY DEF AsFunction, AskedFor
  <1>4. \A x \in Cfgs \cup others : x[1][1] # "name" BY DEF NoNames
  <1>5. \A k \in 1..n : names[k][3] \notin LostNames(names) BY <1>1 DEF LostNames
  <1> DEFINE g(k) == <<<<"name", names[k][3]>>, <<names[k][1], Out(names[k][2])>>>>
             l(m) == <<<<"name", m>>, <<>>>>
  <1>6. Given = {g(k) : k \in 1..n} /\ Gone = {l(m) : m \in LostNames(names)}
    <2> DEFINE h(x) == <<<<"name", x[3]>>, <<x[1], Out(x[2])>>>>
    <2>1. Given = {h(x) : x \in ToSet(names)} /\ \A k : g(k) = h(names[k])
      OBVIOUS
    <2> HIDE DEF h, g, Given
    <2>2. Given = {g(k) : k \in 1..n}
      <3>1. ASSUME NEW y \in Given PROVE y \in {g(k) : k \in 1..n}
        <4>1. PICK x \in ToSet(names) : y = h(x) BY <2>1
        <4>2. PICK k \in 1..n : x = names[k] BY <1>1
        <4> QED BY <2>1, <4>1, <4>2
      <3>2. ASSUME NEW k \in 1..n PROVE g(k) \in Given
        <4>1. names[k] \in ToSet(names) BY <1>1
        <4> QED BY <2>1, <4>1
      <3> QED BY <3>1, <3>2
    <2> QED BY <2>2
  <1>7. \A k \in 1..n : /\ g(k)[1] = <<"name", names[k][3]>>
                        /\ g(k)[2] = <<names[k][1], Out(names[k][2])>>
    OBVIOUS
  <1>8. \A m : l(m)[1] = <<"name", m>> /\ l(m)[2] = <<>>
    OBVIOUS
  <1>9. /\ \A x \in S : x \in Cfgs \cup others \/ x \in Given \/ x \in Gone
        /\ Given \subseteq S /\ Gone \subseteq S
    BY <1>2
  <1> HIDE DEF Given, Gone, Cfgs, S, w, g, l
  <1>10. \A i \in DOMAIN w : \E x \in S : x[1] = i /\ w[i] = x[2] BY <1>3
  <1>11. ASSUME NEW k \in 1..n
         PROVE  /\ <<"name", names[k][3]>> \in DOMAIN w
                /\ w[<<"name", names[k][3]>>] = <<names[k][1], Out(names[k][2])>>
    <2> DEFINE i == <<"name", names[k][3]>>
    <2>1. i \in DOMAIN w
      <3>1. g(k) \in S /\ g(k)[1] = i BY <1>6, <1>7, <1>9
      <3> QED BY <1>3, <3>1
    <2>2. PICK x \in S : x[1] = i /\ w[i] = x[2] BY <1>10, <2>1
    <2>3. x \in Given
      <3>1. x \notin Cfgs \cup others BY <1>4, <2>2
      <3>2. x \notin Gone BY <1>5, <1>6, <1>8, <2>2
      <3> QED BY <1>9, <3>1, <3>2
    <2>4. PICK j \in 1..n : x[1] = <<"name", names[j][3]>> /\ x[2] = <<names[j][1], Out(names[j][2])>>
      BY <1>6, <1>7, <2>3
    <2>5. j = k BY <2>2, <2>4 DEF PinsOf
    <2> QED BY <2>1, <2>2, <2>4, <2>5
  <1>12. ASSUME NEW m \in LostNames(names)
         PROVE  <<"name", m>> \in DOMAIN w /\ w[<<"name", m>>] = <<>>
    <2> DEFINE i == <<"name", m>>
    <2>1. i \in DOMAIN w
      <3>1. l(m) \in S /\ l(m)[1] = i BY <1>6, <1>8, <1>9
      <3> QED BY <1>3, <3>1
    <2>2. PICK x \in S : x[1] = i /\ w[i] = x[2] BY <1>10, <2>1
    <2>3. x \in Gone
      <3>1. x \notin Cfgs \cup others BY <1>4, <2>2
      <3>2. x \notin Given BY <1>5, <1>6, <1>7, <2>2
      <3> QED BY <1>9, <3>1, <3>2
    <2> QED BY <1>6, <1>8, <2>1, <2>2, <2>3
  <1>13. ASSUME NEW i \in DOMAIN w, i[1] = "name"
         PROVE  \/ \E k \in 1..n : i = <<"name", names[k][3]>>
                \/ \E m \in LostNames(names) : i = <<"name", m>>
    <2>1. PICK x \in S : x[1] = i BY <1>10
    <2>2. x \in Given \/ x \in Gone BY <1>4, <1>9, <1>13, <2>1
    <2>3. CASE x \in Given BY <1>6, <1>7, <2>1, <2>3
    <2>4. CASE x \in Gone BY <1>6, <1>8, <2>1, <2>4
    <2> QED BY <2>2, <2>3, <2>4
  <1> QED BY <1>11, <1>12, <1>13 DEF w, AskedRight

LEMMA OutIs == \A cfg : Out(cfg) \in BOOLEAN
  BY DEF Out

LEMMA PinsStart ==
    ASSUME NamesInv, NEW p, NEW names, NEW others,
           Serve(p, AsFunction(AskedPins(names) \cup others)),
           Enters(p, names), PinList(names), NoNames({x[1] : x \in others})
    PROVE  NamesInv'
  <1> DEFINE w == AskedFor(names, others)
             ent(k) == EntryOf(names[k][1], names[k][2], names[k][3])
  <1>1. /\ todo' = p /\ asked' = w /\ UNCHANGED <<gpos, gpis>> /\ services' = services + 1
        /\ todo = <<>> /\ promise' = [i \in DOMAIN promise \ DOMAIN w |-> promise[i]]
    BY DEF Serve, AskedFor
  <1>0. PICK n : PinsOf(n, names) BY DEF PinList
  <1>2. /\ n \in Nat /\ names = [i \in 1..n |-> names[i]] /\ \A i \in 1..n : names[i][1] \in Pins12
        /\ \A i, j \in 1..n : i # j => names[i][1] # names[j][1] /\ names[i][3] # names[j][3]
    BY <1>0 DEF PinsOf
  <1>3. Entries(todo)' = {ent(k) : k \in 1..n}
    <2>1. DOMAIN names = 1..n BY <1>2
    <2> QED BY <1>1, <2>1 DEF Enters, EntriesOf
  <1>4. \A k : /\ ent(k)[1] = names[k][3] /\ ent(k)[2] = Hidden(names[k][1])
               /\ ent(k)[3] = Out(names[k][2])
               /\ ent(k) = <<names[k][3], Hidden(names[k][1]), Out(names[k][2])>>
    BY DEF EntryOf, Out
  <1>5. /\ \A k \in 1..n : /\ <<"name", names[k][3]>> \in DOMAIN w
                           /\ w[<<"name", names[k][3]>>] = <<names[k][1], Out(names[k][2])>>
        /\ \A m \in LostNames(names) : <<"name", m>> \in DOMAIN w /\ w[<<"name", m>>] = <<>>
        /\ \A i \in DOMAIN w : i[1] = "name" =>
              \/ \E k \in 1..n : i = <<"name", names[k][3]>>
              \/ \E m \in LostNames(names) : i = <<"name", m>>
    BY <1>0, AskedNames DEF AskedRight
  <1>6. ToSet(names) = {names[k] : k \in 1..n} BY <1>2 DEF ToSet
  <1>7. \A m \in LostNames(names) :
            /\ \A k \in 1..n : names[k][3] # m
            /\ \E i \in Names(promise) : i[2] = m /\ promise[i] # <<>>
                                         /\ \E k \in 1..n : promise[i][1] = names[k][1]
    BY <1>6 DEF LostNames, Names
  <1>8. \A i \in Names(promise) : \A k \in 1..n :
            promise[i] # <<>> /\ promise[i][1] = names[k][1]
                => i[2] \in LostNames(names) \/ \E j \in 1..n : i[2] = names[j][3]
    BY <1>6 DEF LostNames, Names
  <1>9. /\ Items(promise)' /\ Names(promise)' = Names(promise) \ DOMAIN w
        /\ \A i \in Names(promise)' : promise'[i] = promise[i]
    BY <1>1, FewerPromises DEF NamesInv
  <1>10. \A i \in Names(promise) : i = <<"name", i[2]>> /\ promise[i] \in NameValues
    BY DEF NamesInv, Items
  <1>11. \A v \in NameValues : v # <<>> => v[1] \in Pins12 BY DEF NameValues
  <1> HIDE DEF w, ent
  <1>12. TablesTrue' BY <1>1 DEF NamesInv, TablesTrue
  <1>13. services' \in Nat /\ services' # 0 BY <1>1 DEF NamesInv
  <1>14. \A i \in Names(promise)' : Named(i[2], promise[i])' /\ Spares(i[2], promise[i])'
    <2> TAKE i \in Names(promise)'
    <2>1. PICK v : v = promise[i]
      OBVIOUS
    <2>2. i \in Names(promise) /\ i \notin DOMAIN w /\ promise'[i] = v /\ i = <<"name", i[2]>>
          /\ v \in NameValues
      BY <1>9, <1>10, <2>1
    <2>3. Named(i[2], v) BY <2>1, <2>2 DEF NamesInv
    <2>4. Named(i[2], v)' BY <1>1, <2>3 DEF Named
    <2>5. ASSUME NEW k \in 1..n
          PROVE  ent(k)[1] # i[2] /\ (v # <<>> => ent(k)[2] # Hidden(v[1]))
      <3>1. names[k][3] # i[2] BY <1>5, <2>2
      <3>2. v # <<>> => names[k][1] # v[1] BY <1>5, <1>8, <2>1, <2>2
      <3>3. v # <<>> => Hidden(names[k][1]) # Hidden(v[1]) BY <1>2, <1>11, <2>2, <3>2, HiddenOne
      <3> QED BY <1>4, <3>1, <3>3
    <2>6. Spares(i[2], v)' BY <1>3, <2>5 DEF Spares
    <2> QED BY <2>2, <2>4, <2>6 DEF Named, Spares
  <1>15. \A e, f \in Entries(todo)' : e # f => e[1] # f[1] /\ e[2] # f[2]
    <2> SUFFICES ASSUME NEW k \in 1..n, NEW j \in 1..n, ent(k) # ent(j)
                 PROVE  ent(k)[1] # ent(j)[1] /\ ent(k)[2] # ent(j)[2]
      BY <1>3
    <2>1. k # j
      OBVIOUS
    <2>2. names[k][1] # names[j][1] /\ names[k][3] # names[j][3] BY <1>2, <2>1
    <2>3. Hidden(names[k][1]) # Hidden(names[j][1]) BY <1>2, <2>2, HiddenOne
    <2> QED BY <1>4, <2>2, <2>3
  <1>16. \A e \in Entries(todo)' : e[3] \in BOOLEAN BY <1>3, <1>4, OutIs
  <1>17. Items(asked)' /\ \A i \in Names(asked)' : Right(i[2], asked[i])'
    <2>1. Names(asked)' = {i \in DOMAIN w : i[1] = "name"} BY <1>1 DEF Names
    <2>2. ASSUME NEW k \in 1..n, NEW i, i = <<"name", names[k][3]>>
          PROVE  /\ i = <<"name", i[2]>> /\ w[i] \in NameValues /\ w[i] # <<>>
                 /\ <<i[2], Hidden(w[i][1]), w[i][2]>> \in Entries(todo)'
      <3> DEFINE a == names[k][1]
                 b == Out(names[k][2])
      <3>1. w[i] = <<a, b>> /\ a \in Pins12 /\ b \in BOOLEAN BY <1>2, <1>5, <2>2, OutIs
      <3>2. ent(k) = <<names[k][3], Hidden(a), b>> /\ ent(k) \in Entries(todo)' BY <1>3, <1>4
      <3> HIDE DEF a, b
      <3>3. w[i] \in NameValues /\ w[i] # <<>> /\ w[i][1] = a /\ w[i][2] = b BY <3>1 DEF NameValues
      <3> QED BY <2>2, <3>2, <3>3
    <2>3. ASSUME NEW m \in LostNames(names), NEW i, i = <<"name", m>>
          PROVE  /\ i = <<"name", i[2]>> /\ w[i] \in NameValues /\ w[i] = <<>>
                 /\ Spares(i[2], <<>>)' /\ \E e \in Entries(todo)' : At(i[2], e[2])'
      <3>1. w[i] = <<>> /\ i[2] = m BY <1>5, <2>3
      <3>2. Spares(m, <<>>)'
        <4>1. \A k \in 1..n : ent(k)[1] # m BY <1>4, <1>7
        <4> QED BY <1>3, <4>1 DEF Spares
      <3>3. PICK j \in Names(promise), k \in 1..n :
                j[2] = m /\ promise[j] # <<>> /\ promise[j][1] = names[k][1]
        BY <1>7
      <3>4. Named(m, promise[j]) BY <3>3 DEF NamesInv
      <3>5. At(m, ent(k)[2]) BY <1>4, <3>3, <3>4 DEF Named, At
      <3>6. At(m, ent(k)[2])' BY <1>1, <3>5 DEF At, ent
      <3> QED BY <1>3, <2>3, <3>1, <3>2, <3>6 DEF NameValues
    <2>4. \A i \in Names(asked)' : \/ \E k \in 1..n : i = <<"name", names[k][3]>>
                                   \/ \E m \in LostNames(names) : i = <<"name", m>>
      BY <1>5, <2>1
    <2>5. Items(asked)'
      <3>1. \A i \in Names(asked)' : i = <<"name", i[2]>> /\ w[i] \in NameValues
        <4> TAKE i \in Names(asked)'
        <4>1. CASE \E k \in 1..n : i = <<"name", names[k][3]>> BY <2>2, <4>1
        <4>2. CASE \E m \in LostNames(names) : i = <<"name", m>> BY <2>3, <4>2
        <4> QED BY <2>4, <4>1, <4>2
      <3> QED BY <1>1, <3>1 DEF Items
    <2>6. \A i \in Names(asked)' : Right(i[2], asked[i])'
      <3> TAKE i \in Names(asked)'
      <3>1. CASE \E k \in 1..n : i = <<"name", names[k][3]>> BY <1>1, <2>2, <3>1 DEF Right
      <3>2. CASE \E m \in LostNames(names) : i = <<"name", m>> BY <1>1, <2>3, <3>2 DEF Right
      <3> QED BY <2>4, <3>1, <3>2
    <2> QED BY <2>5, <2>6
  <1> QED BY <1>9, <1>12, <1>13, <1>14, <1>15, <1>16, <1>17 DEF NamesInv

\* One access of a program: what is right stays or becomes right.
LEMMA NamesMove ==
    ASSUME NamesInv, Prog(todo), Leaves(todo) = {}, todo # <<>>, todo' = Tail(todo),
           IF Head(todo).pin = <<>> THEN UNCHANGED <<gpos, gpis>> ELSE AddPin(Head(todo).pin)
    PROVE  /\ TablesTrue'
           /\ \A n, v : Named(n, v) /\ Spares(n, v) => Named(n, v)' /\ Spares(n, v)'
           /\ \A n, v : Right(n, v) => Right(n, v)'
           /\ \A e, f \in Entries(todo)' : e # f => e[1] # f[1] /\ e[2] # f[2]
           /\ \A e \in Entries(todo)' : e[3] \in BOOLEAN
  <1> DEFINE e == Head(todo).pin
             E == Entries(todo)
             T == Entries(Tail(todo))
  <1>1. E = T \cup (IF e = <<>> THEN {} ELSE {e}) /\ Entries(todo)' = T BY TailLeaves
  <1>2. (\A f, g \in E : f # g => f[1] # g[1] /\ f[2] # g[2]) /\ \A f \in E : f[3] \in BOOLEAN
    BY DEF NamesInv
  <1> HIDE DEF e, E, T
  <1>3. \A n, v : Spares(n, v) => Spares(n, v)' BY <1>1 DEF Spares, E
  <1>4. CASE e = <<>>
    <2>1. E = T /\ UNCHANGED <<gpos, gpis>> BY <1>1, <1>4 DEF e
    <2>2. TablesTrue' BY <2>1 DEF NamesInv, TablesTrue
    <2>3. ASSUME NEW n, NEW v, Named(n, v) PROVE Named(n, v)' BY <2>1, <2>3 DEF Named
    <2>4. ASSUME NEW n, NEW v, Right(n, v) PROVE Right(n, v)'
      <3>1. CASE Named(n, v) /\ Spares(n, v) BY <1>3, <2>3, <3>1 DEF Right
      <3>2. CASE v # <<>> /\ <<n, Hidden(v[1]), v[2]>> \in Entries(todo)
        BY <1>1, <2>1, <3>2 DEF Right, E
      <3>3. CASE v = <<>> /\ Spares(n, v) /\ \E f \in Entries(todo) : At(n, f[2])
        <4>1. PICK f \in T : At(n, f[2]) BY <2>1, <3>3 DEF E
        <4>2. At(n, f[2])' BY <2>1, <4>1 DEF At
        <4> QED BY <1>1, <1>3, <3>3, <4>2 DEF Right
      <3> QED BY <2>4, <3>1, <3>2, <3>3 DEF Right
    <2> QED BY <1>1, <1>2, <1>3, <2>1, <2>2, <2>3, <2>4
  <1>5. CASE e # <<>>
    <2>1. PICK d : d = e
      OBVIOUS
    <2>2. d \in E /\ T \subseteq E /\ E = T \cup {d} /\ AddPin(d) /\ d[3] \in BOOLEAN /\ TablesTrue
      BY <1>1, <1>2, <1>5, <2>1 DEF e, NamesInv
    <2>3. /\ TablesTrue'
          /\ \A n, b : n # d[1] => (At(n, b)' <=> At(n, b) /\ b # d[2])
          /\ \A n, v : n # d[1] /\ v # <<>> /\ Hidden(v[1]) # d[2] => (Named(n, v) => Named(n, v)')
          /\ \A v : v # <<>> /\ Hidden(v[1]) = d[2] /\ v[2] = d[3] => Named(d[1], v)'
          /\ \A n : n # d[1] /\ Named(n, <<>>) => Named(n, <<>>)'
          /\ \A n : n # d[1] /\ At(n, d[2]) => Named(n, <<>>)'
      BY <2>2, AddPinTables
    <2>4. ASSUME NEW n, NEW v, Named(n, v), Spares(n, v) PROVE Named(n, v)'
      <3>1. d[1] # n /\ (v # <<>> => d[2] # Hidden(v[1])) BY <2>2, <2>4 DEF Spares, E
      <3> QED BY <2>3, <2>4, <3>1
    <2>5. ASSUME NEW n, NEW v, Right(n, v) PROVE Right(n, v)'
      <3>1. CASE Named(n, v) /\ Spares(n, v) BY <1>3, <2>4, <3>1 DEF Right
      <3>2. CASE v # <<>> /\ <<n, Hidden(v[1]), v[2]>> \in Entries(todo)
        <4> DEFINE f == <<n, Hidden(v[1]), v[2]>>
        <4>1. f[1] = n /\ f[2] = Hidden(v[1]) /\ f[3] = v[2] /\ f \in E BY <3>2 DEF E
        <4>2. CASE f \in T BY <1>1, <3>2, <4>2 DEF Right
        <4>3. CASE f \notin T
          <5>1. f = d BY <2>2, <4>1, <4>3
          <5>2. Named(n, v)' BY <2>3, <3>2, <4>1, <5>1
          <5>3. \A g \in T : g[1] # n /\ g[2] # Hidden(v[1])
            <6>1. \A g \in T : g # f BY <4>3
            <6> QED BY <1>2, <2>2, <4>1, <6>1
          <5>4. Spares(n, v)' BY <1>1, <5>3 DEF Spares
          <5> QED BY <5>2, <5>4 DEF Right
        <4> QED BY <4>2, <4>3
      <3>3. CASE v = <<>> /\ Spares(n, v) /\ \E f \in Entries(todo) : At(n, f[2])
        <4>1. PICK f \in E : At(n, f[2]) BY <3>3 DEF E
        <4>2. n # d[1] /\ Spares(n, v)' BY <1>3, <2>2, <3>3 DEF Spares, E
        <4>3. CASE f = d
          <5>1. Named(n, v)' BY <2>3, <3>3, <4>1, <4>2, <4>3
          <5> QED BY <4>2, <5>1 DEF Right
        <4>4. CASE f # d
          <5>1. f \in T /\ f[2] # d[2] BY <1>2, <2>2, <4>1, <4>4
          <5>2. At(n, f[2])' BY <2>3, <4>1, <4>2, <5>1
          <5> QED BY <1>1, <3>3, <4>2, <5>1, <5>2 DEF Right
        <4> QED BY <4>3, <4>4
      <3> QED BY <2>5, <3>1, <3>2, <3>3 DEF Right
    <2> QED BY <1>1, <1>2, <1>3, <2>2, <2>3, <2>4, <2>5
  <1> QED BY <1>4, <1>5

LEMMA NamesStep == NamesInv /\ UnitsInv /\ Step => NamesInv'
  <1> SUFFICES ASSUME NamesInv, UnitsInv, Step PROVE NamesInv'
    OBVIOUS
  <1>1. /\ todo # <<>> /\ todo' = Tail(todo) /\ services' = services
        /\ IF Head(todo).pin = <<>> THEN UNCHANGED <<gpos, gpis>> ELSE AddPin(Head(todo).pin)
    BY DEF Step
  <1>2. Prog(todo) /\ Leaves(todo) = {} BY DEF UnitsInv
  <1>3. /\ TablesTrue'
        /\ \A n, v : Named(n, v) /\ Spares(n, v) => Named(n, v)' /\ Spares(n, v)'
        /\ \A n, v : Right(n, v) => Right(n, v)'
        /\ \A e, f \in Entries(todo)' : e # f => e[1] # f[1] /\ e[2] # f[2]
        /\ \A e \in Entries(todo)' : e[3] \in BOOLEAN
    BY <1>1, <1>2, NamesMove
  <1>4. \/ UNCHANGED <<asked, promise>>
        \/ promise' = MergedPromise /\ asked' = <<>> /\ ~(Len(todo) > 1)
    BY DEF Step, MergedPromise
  <1>5. CASE UNCHANGED <<asked, promise>>
    <2>1. Items(promise)' /\ Items(asked)' /\ Names(promise)' = Names(promise) /\ Names(asked)' = Names(asked)
      BY <1>5 DEF NamesInv, Items, Names
    <2>2. \A i \in Names(promise)' : Named(i[2], promise[i])' /\ Spares(i[2], promise[i])'
      <3> TAKE i \in Names(promise)'
      <3>1. PICK v : v = promise[i] /\ v = promise'[i] BY <1>5
      <3>2. Named(i[2], v)' /\ Spares(i[2], v)' BY <1>3, <2>1, <3>1 DEF NamesInv
      <3> QED BY <3>1, <3>2 DEF Named, Spares
    <2>3. \A i \in Names(asked)' : Right(i[2], asked[i])'
      <3> TAKE i \in Names(asked)'
      <3>1. PICK v : v = asked[i] /\ v = asked'[i] BY <1>5
      <3>2. Right(i[2], v)' BY <1>3, <2>1, <3>1 DEF NamesInv
      <3> QED BY <3>1, <3>2 DEF Right, Named, Spares
    <2>4. services' \in Nat /\ (services' = 0 => DOMAIN promise' = {} /\ DOMAIN asked' = {})
      BY <1>1, <1>5 DEF NamesInv
    <2> QED BY <1>3, <2>1, <2>2, <2>3, <2>4 DEF NamesInv
  <1>6. CASE promise' = MergedPromise /\ asked' = <<>> /\ ~(Len(todo) > 1)
    <2>1. Entries(todo)' = {}
      <3>1. PICK n \in Nat : n >= 1 /\ Len(todo) = n /\ DOMAIN Tail(todo) = 1..(n - 1)
        BY <1>1, <1>2, HeadTail
      <3>2. n = 1 BY <1>6, <3>1
      <3>3. DOMAIN Tail(todo) = {} BY <3>1, <3>2
      <3> QED BY <1>1, <3>3 DEF Entries
    <2>2. \A n, v : Right(n, v)' => Named(n, v)' /\ Spares(n, v)' BY <2>1 DEF Right
    <2>3. /\ DOMAIN promise' = DOMAIN asked \cup DOMAIN promise
          /\ \A i \in DOMAIN asked : promise'[i] = asked[i]
          /\ \A i \in DOMAIN promise \ DOMAIN asked : promise'[i] = promise[i]
      BY <1>6 DEF MergedPromise
    <2>4. DOMAIN asked' = {} BY <1>6
    <2>5. Items(promise)' /\ Items(asked)' /\ Names(asked)' = {}
      BY <2>3, <2>4 DEF NamesInv, Items, Names
    <2>6. \A i \in Names(promise)' : Named(i[2], promise[i])' /\ Spares(i[2], promise[i])'
      <3> TAKE i \in Names(promise)'
      <3>1. PICK v : v = promise'[i]
        OBVIOUS
      <3>2. CASE i \in DOMAIN asked
        <4>1. i \in Names(asked) /\ v = asked[i] BY <2>3, <3>1, <3>2 DEF Names
        <4>2. Right(i[2], v)' BY <1>3, <4>1 DEF NamesInv
        <4>3. Named(i[2], v)' /\ Spares(i[2], v)' BY <2>2, <4>2
        <4> QED BY <3>1, <4>3 DEF Named, Spares
      <3>3. CASE i \notin DOMAIN asked
        <4>1. i \in Names(promise) /\ v = promise[i] BY <2>3, <3>1, <3>3 DEF Names
        <4>2. Named(i[2], v)' /\ Spares(i[2], v)' BY <1>3, <4>1 DEF NamesInv
        <4> QED BY <3>1, <4>2 DEF Named, Spares
      <3> QED BY <3>2, <3>3
    <2>7. services' \in Nat /\ (services' = 0 => DOMAIN promise' = {} /\ DOMAIN asked' = {})
      BY <1>1, <2>3, <2>4 DEF NamesInv
    <2> QED BY <1>3, <2>5, <2>6, <2>7 DEF NamesInv
  <1> QED BY <1>4, <1>5, <1>6

LEMMA NamesCut ==
    ASSUME NamesInv, UNCHANGED <<gpos, gpis, promise, services>>, asked' = <<>>,
           \A e \in Entries(todo)' : e \in Entries(todo)
    PROVE  NamesInv'
  <1>1. /\ TablesTrue'
        /\ \A n, v : (Named(n, v) => Named(n, v)') /\ (Spares(n, v) => Spares(n, v)')
        /\ \A e, f \in Entries(todo)' : e # f => e[1] # f[1] /\ e[2] # f[2]
        /\ \A e \in Entries(todo)' : e[3] \in BOOLEAN
    BY NamesKept
  <1>2. Items(promise)' /\ Names(promise)' = Names(promise) BY DEF NamesInv, Items, Names
  <1>3. DOMAIN asked' = {}
    OBVIOUS
  <1>4. Items(asked)' /\ Names(asked)' = {} BY <1>3 DEF Items, Names
  <1>5. \A i \in Names(promise)' : Named(i[2], promise[i])' /\ Spares(i[2], promise[i])'
    <2> TAKE i \in Names(promise)'
    <2>1. PICK v : v = promise[i] /\ v = promise'[i]
      OBVIOUS
    <2>2. Named(i[2], v)' /\ Spares(i[2], v)' BY <1>1, <1>2, <2>1 DEF NamesInv
    <2> QED BY <2>1, <2>2 DEF Named, Spares
  <1>6. services' \in Nat /\ (services' = 0 => DOMAIN promise' = {} /\ DOMAIN asked' = {})
    BY <1>3 DEF NamesInv
  <1> QED BY <1>1, <1>2, <1>4, <1>5, <1>6 DEF NamesInv

LEMMA NamesNext == NamesInv /\ UnitsInv /\ [NextBench]_bvars => NamesInv'
  <1> SUFFICES ASSUME NamesInv, UnitsInv, [NextBench]_bvars PROVE NamesInv'
    OBVIOUS
  <1>0. Prog(todo) /\ Leaves(todo) = {} BY DEF UnitsInv
  <1>1. CASE StartsPlain BY <1>1, PlainStart DEF StartsPlain
  <1>2. CASE StartsPins BY <1>2, PinsStart DEF StartsPins
  <1>3. CASE RunsRound
    <2>1. /\ todo = <<>> /\ services = 0 /\ UNCHANGED <<todo, asked, promise, services>>
          /\ DOMAIN promise = {} /\ DOMAIN asked = {}
      BY <1>3 DEF RunsRound, OnlyWalk, NamesInv
    <2>2. TablesTrue'
      <3>1. CASE UNCHANGED <<gpos, gpis>> BY <3>1 DEF NamesInv, TablesTrue
      <3>2. ASSUME NEW out \in BOOLEAN, AddPin(<<"", 11, out>>) PROVE TablesTrue'
        <4> DEFINE e == <<"", 11, out>>
        <4>1. e[3] \in BOOLEAN /\ AddPin(e) /\ TablesTrue BY <3>2 DEF NamesInv
        <4> HIDE DEF e
        <4> QED BY <4>1, AddPinTables
      <3> QED BY <1>3, <3>1, <3>2 DEF RunsRound
    <2>3. Entries(todo)' = {} BY <2>1, EmptyProg
    <2> QED BY <2>1, <2>2, <2>3 DEF NamesInv, Items, Names
  <1>4. CASE Unnoticed
    <2>1. /\ todo # <<>> /\ todo' = Tail(todo) /\ asked' = <<>>
          /\ UNCHANGED <<gpos, gpis, promise, services>>
      BY <1>4 DEF Unnoticed
    <2>2. \A e \in Entries(todo)' : e \in Entries(todo) BY <1>0, <2>1, TailLeaves
    <2> QED BY <2>1, <2>2, NamesCut
  <1>5. CASE Step BY <1>5, NamesStep
  <1>6. CASE BreakOff
    <2>1. /\ todo' = <<>> /\ asked' = <<>> /\ UNCHANGED <<gpos, gpis, promise, services>>
      BY <1>6 DEF BreakOff
    <2>2. \A e \in Entries(todo)' : e \in Entries(todo) BY <2>1, EmptyProg
    <2> QED BY <2>1, <2>2, NamesCut
  <1>7. CASE UNCHANGED cvars
    <2>1. UNCHANGED <<gpos, gpis, todo, asked, promise, services>> BY <1>7 DEF cvars
    <2> QED BY <2>1 DEF NamesInv, TablesTrue, Items, Names, Named, Spares, Right, At
  <1> QED BY <1>1, <1>2, <1>3, <1>4, <1>5, <1>6, <1>7, StepKinds

LEMMA NamesTold == NamesInv => NamesTrue
  <1> SUFFICES ASSUME NamesInv PROVE NamesTrue
    OBVIOUS
  <1>1. ASSUME NEW i \in DOMAIN promise, i[1] = "name"
        PROVE  IF promise[i] = <<>> THEN i[2] \notin DOMAIN gpos \cup DOMAIN gpis
               ELSE LET table == IF promise[i][2] THEN gpos ELSE gpis IN
                    i[2] \in DOMAIN table /\ table[i[2]] = Hidden(promise[i][1])
    <2>1. Named(i[2], promise[i]) BY <1>1 DEF NamesInv, Names
    <2> QED BY <2>1 DEF Named
  <1> QED BY <1>1 DEF NamesInv, TablesTrue, NamesTrue

\* NamesAlways: in every state a name leads to the pin it was last given to, whatever
\* services renamed it and wherever one of them broke off.
THEOREM NamesAlways == SpecBench => []NamesTrue
  <1>1. InitBench => NamesInv /\ UnitsInv BY NamesInit, UnitsInit
  <1>2. NamesInv /\ UnitsInv /\ [NextBench]_bvars => (NamesInv /\ UnitsInv)' BY NamesNext, UnitsNext
  <1> QED BY <1>1, <1>2, NamesTold, PTL DEF SpecBench
-----------------------------------------------------------------------------
(***************************************************************************)
(* Kept.  Where a program ends with a bit.                                 *)
(***************************************************************************)
LEMMA ToIs == \A b : To(b) \in {"set", "clear"}
  BY DEF To

LEMMA EndsNone == \A x : Ends(<<>>, x, "keep")
  <1>1. DOMAIN <<>> = {}
    OBVIOUS
  <1> QED BY <1>1 DEF Ends

LEMMA EndsOne ==
    ASSUME NEW a, NEW x
    PROVE  Ends(<<a>>, x, Effect(a, x))
  <1>1. DOMAIN <<a>> = {1} /\ <<a>>[1] = a /\ ~ (1 > 1)
    OBVIOUS
  <1> QED BY <1>1 DEF Ends

LEMMA EndsJoin ==
    ASSUME NEW p, NEW q, Prog(p), Prog(q), NEW x, NEW v
    PROVE  /\ v # "keep" /\ Ends(q, x, v) => Ends(p \o q, x, v)
           /\ Ends(p, x, v) /\ Ends(q, x, "keep") => Ends(p \o q, x, v)
  <1> DEFINE r == p \o q
             m == Len(p)
             n == Len(q)
             e(i) == Effect(r[i], x)
  <1>1. /\ m \in Nat /\ n \in Nat /\ DOMAIN p = 1..m /\ DOMAIN q = 1..n /\ DOMAIN r = 1..(m + n)
        /\ \A i \in 1..(m + n) : r[i] = IF i <= m THEN p[i] ELSE q[i - m]
    BY ProgJoin
  <1>2. \A i \in 1..m : i \in 1..(m + n) /\ e(i) = Effect(p[i], x) BY <1>1
  <1>3. \A i \in 1..n : i + m \in 1..(m + n) /\ e(i + m) = Effect(q[i], x) BY <1>1
  <1>4. \A i \in 1..(m + n) : i \in 1..m \/ (i - m \in 1..n /\ e(i) = Effect(q[i - m], x)) BY <1>1
  <1>5. Ends(r, x, v) <=> \/ v = "keep" /\ \A i \in 1..(m + n) : e(i) = "keep"
                          \/ v # "keep" /\ \E i \in 1..(m + n) :
                                e(i) = v /\ \A j \in 1..(m + n) : j > i => e(j) = "keep"
    BY <1>1 DEF Ends
  <1>6. \A w : Ends(q, x, w) => \/ w = "keep" /\ \A i \in 1..n : e(i + m) = "keep"
                                \/ w # "keep" /\ \E i \in 1..n :
                                      e(i + m) = w /\ \A j \in 1..n : j > i => e(j + m) = "keep"
    BY <1>1, <1>3 DEF Ends
  <1>7. Ends(p, x, v) => \/ v = "keep" /\ \A i \in 1..m : e(i) = "keep"
                         \/ v # "keep" /\ \E i \in 1..m :
                               e(i) = v /\ \A j \in 1..m : j > i => e(j) = "keep"
    BY <1>1, <1>2 DEF Ends
  <1>8. \A i \in 1..(m + n) : i \in 1..m \/ (i - m \in 1..n /\ e(i) = e((i - m) + m)) BY <1>1
  <1> HIDE DEF e, r, m, n
  <1>9. ASSUME v # "keep", Ends(q, x, v) PROVE Ends(r, x, v)
    <2>1. PICK i \in 1..n : e(i + m) = v /\ \A j \in 1..n : j > i => e(j + m) = "keep" BY <1>6, <1>9
    <2>2. i + m \in 1..(m + n) /\ \A j \in 1..(m + n) : j > i + m => j - m \in 1..n /\ j - m > i /\ (j - m) + m = j
      BY <1>1
    <2> QED BY <1>5, <1>9, <2>1, <2>2
  <1>10. ASSUME Ends(p, x, v), Ends(q, x, "keep") PROVE Ends(r, x, v)
    <2>1. \A j \in 1..n : e(j + m) = "keep" BY <1>6, <1>10
    <2>2. \A j \in 1..(m + n) : j \in 1..m \/ e(j) = "keep" BY <1>8, <2>1
    <2>3. CASE v = "keep" BY <1>5, <1>7, <1>10, <2>2, <2>3
    <2>4. CASE v # "keep" BY <1>2, <1>5, <1>7, <1>10, <2>2, <2>4
    <2> QED BY <2>3, <2>4
  <1> QED BY <1>9, <1>10 DEF r

\* The first access is made.
LEMMA EndsTail ==
    ASSUME NEW p, Prog(p), p # <<>>, NEW x, NEW v, Ends(p, x, v)
    PROVE  /\ Prog(Tail(p))
           /\ \/ v # "keep" /\ Ends(Tail(p), x, v)
              \/ Ends(Tail(p), x, "keep") /\ Effect(Head(p), x) = v
  <1> DEFINE A == {p[i] : i \in DOMAIN p}
             t == Tail(p)
  <1>1. p \in Seq(A) BY DEF Prog
  <1> HIDE DEF A
  <1>2. t \in Seq(A) /\ Len(t) = Len(p) - 1 /\ Len(p) \in Nat /\ Len(p) > 0 /\ DOMAIN p = 1..Len(p)
        /\ DOMAIN t = 1..(Len(p) - 1) /\ Head(p) = p[1] /\ \A i \in 1..(Len(p) - 1) : t[i] = p[i + 1]
    BY <1>1
  <1>3. Prog(t) BY <1>2, ProgOf
  <1> DEFINE n == Len(p)
  <1>4. \A i \in 1..n : i = 1 \/ (i - 1 \in 1..(n - 1) /\ t[i - 1] = p[i]) BY <1>2
  <1>5. \A i \in 1..(n - 1) : i + 1 \in 1..n /\ t[i] = p[i + 1] BY <1>2
  <1>6. 1 \in 1..n BY <1>2
  <1>7. n \in Nat BY <1>2
  <1>8. DOMAIN p = 1..n /\ DOMAIN t = 1..(n - 1) /\ Head(p) = p[1] BY <1>2
  <1> HIDE DEF n, t
  <1>9. CASE v = "keep"
    <2>1. \A i \in 1..n : Effect(p[i], x) = "keep" BY <1>8, <1>9 DEF Ends
    <2>2. \A i \in 1..(n - 1) : Effect(t[i], x) = "keep" BY <1>5, <2>1
    <2>3. Ends(t, x, "keep") /\ Effect(Head(p), x) = v BY <1>6, <1>8, <1>9, <2>1, <2>2 DEF Ends
    <2> QED BY <1>3, <2>3 DEF t
  <1>10. CASE v # "keep"
    <2>1. PICK i \in 1..n : Effect(p[i], x) = v /\ \A j \in 1..n : j > i => Effect(p[j], x) = "keep"
      BY <1>8, <1>10 DEF Ends
    <2>2. \A j \in 1..(n - 1) : j + 1 > i => Effect(t[j], x) = "keep" BY <1>5, <2>1
    <2>3. CASE i = 1
      <3>1. \A j \in 1..(n - 1) : Effect(t[j], x) = "keep" BY <1>7, <2>2, <2>3
      <3> QED BY <1>3, <1>8, <2>1, <2>3, <3>1 DEF Ends, t
    <2>4. CASE i # 1
      <3>1. i - 1 \in 1..(n - 1) /\ Effect(t[i - 1], x) = v BY <1>4, <2>1, <2>4
      <3>2. \A j \in 1..(n - 1) : j > i - 1 => j + 1 > i BY <1>7
      <3> QED BY <1>3, <1>8, <1>10, <2>2, <3>1, <3>2 DEF Ends, t
    <2> QED BY <2>3, <2>4
  <1> QED BY <1>9, <1>10

LEMMA ProgFlatten ==
    ASSUME NEW n \in Nat, NEW ss, ss = [i \in 1..n |-> ss[i]], \A i \in 1..n : Prog(ss[i])
    PROVE  \A f, k : Flat(ss, f, n) /\ k \in 1..n => Prog(f[k])
  <1> SUFFICES ASSUME NEW f, Flat(ss, f, n), NEW k0 \in 1..n, ~Prog(f[k0])
               PROVE  FALSE
    OBVIOUS
  <1> DEFINE T == {k \in 1..n : ~Prog(f[k])}
  <1>1. T \subseteq Nat /\ T # {}
    OBVIOUS
  <1>2. PICK k \in T : \A m \in T : k <= m
    <2> HIDE DEF T
    <2> QED BY <1>1, LeastInSet
  <1>3. f[k] = IF k = 1 THEN ss[k] ELSE f[k - 1] \o ss[k] BY <1>2 DEF Flat
  <1>6. ~Prog(f[k]) /\ Prog(ss[k]) /\ k \in 1..n /\ \A m \in 1..n : ~Prog(f[m]) => k <= m BY <1>2
  <1> HIDE DEF T
  <1>4. CASE k = 1 BY <1>3, <1>4, <1>6
  <1>5. CASE k # 1
    <2>1. k - 1 \in 1..n /\ ~ (k <= k - 1) BY <1>5, <1>6
    <2>2. Prog(f[k - 1]) BY <1>6, <2>1
    <2>3. Prog(f[k - 1] \o ss[k]) BY <1>6, <2>2, ProgJoin
    <2> QED BY <1>3, <1>5, <1>6, <2>3
  <1> QED BY <1>4, <1>5

\* Of the parts of a program the last that writes the bit decides.
LEMMA EndsFlatten ==
    ASSUME NEW n \in Nat, NEW ss, ss = [i \in 1..n |-> ss[i]], \A i \in 1..n : Prog(ss[i]), NEW x
    PROVE  /\ Prog(FlattenSeq(ss))
           /\ (\A i \in 1..n : Ends(ss[i], x, "keep")) => Ends(FlattenSeq(ss), x, "keep")
           /\ \A v : \A i \in 1..n :
                 v # "keep" /\ Ends(ss[i], x, v) /\ (\A j \in 1..n : j > i => Ends(ss[j], x, "keep"))
                 => Ends(FlattenSeq(ss), x, v)
  <1>1. Len(ss) = n BY Fun
  <1>2. CASE n = 0
    <2>1. ss = <<>> BY <1>2
    <2>2. FlattenSeq(<<>>) = <<>> BY DEF FlattenSeq
    <2> QED BY <1>2, <2>1, <2>2, EndsNone, EmptyProg
  <1>3. CASE n # 0
    <2>1. PICK f : Flat(ss, f, n) /\ FlattenSeq(ss) = f[n] BY <1>1, <1>3, FlattenIs
    <2>2. \A k \in 1..n : Prog(f[k]) BY <2>1, ProgFlatten
    <2>3. \A k \in 1..n : f[k] = IF k = 1 THEN ss[k] ELSE f[k - 1] \o ss[k] BY <2>1 DEF Flat
    <2>4. n \in 1..n BY <1>3
    <2>5. ASSUME NEW v, NEW i \in 1..n, Ends(ss[i], x, v),
                 \A j \in 1..n : j > i => Ends(ss[j], x, "keep"),
                 v = "keep" => \A j \in 1..n : Ends(ss[j], x, "keep")
          PROVE  Ends(f[n], x, v)
      <3> DEFINE T == {k \in i..n : ~Ends(f[k], x, v)}
      <3> SUFFICES ASSUME T # {} PROVE FALSE BY <2>4
      <3>1. T \subseteq Nat
        OBVIOUS
      <3>2. PICK k \in T : \A m \in T : k <= m
        <4> HIDE DEF T
        <4> QED BY <3>1, LeastInSet
      <3>3. k \in 1..n /\ (k # 1 => k - 1 \in 1..n) /\ k >= i BY <3>2
      <3>4. CASE k = i /\ k = 1 BY <2>3, <2>5, <3>2, <3>3, <3>4
      <3>5. CASE k = i /\ k # 1
        <4>1. f[k] = f[k - 1] \o ss[k] /\ Prog(f[k - 1]) /\ Prog(ss[k]) BY <2>2, <2>3, <3>3, <3>5
        <4>2. CASE v # "keep" BY <2>5, <3>2, <3>5, <4>1, <4>2, EndsJoin
        <4>3. CASE v = "keep"
          <5> DEFINE U == {m \in 1..n : ~Ends(f[m], x, "keep")}
          <5>1. U \subseteq Nat /\ k \in U BY <3>2, <3>3, <4>3
          <5>2. PICK m \in U : \A l \in U : m <= l
            <6> HIDE DEF U
            <6> QED BY <5>1, LeastInSet
          <5>3. CASE m = 1 BY <2>3, <2>5, <4>3, <5>2, <5>3
          <5>4. CASE m # 1
            <6>1. m - 1 \in 1..n /\ ~ (m <= m - 1) BY <5>2, <5>4
            <6>2. Ends(f[m - 1], x, "keep") /\ Prog(f[m - 1]) /\ Prog(ss[m]) /\ Ends(ss[m], x, "keep")
              BY <2>2, <2>5, <4>3, <5>2, <6>1
            <6>3. f[m] = f[m - 1] \o ss[m] BY <2>3, <5>2, <5>4
            <6> QED BY <5>2, <6>2, <6>3, EndsJoin
          <5> QED BY <5>3, <5>4
        <4> QED BY <4>2, <4>3
      <3>6. CASE k # i
        <4>1. k - 1 \in i..n /\ ~ (k <= k - 1) /\ k # 1 /\ k > i BY <3>2, <3>6
        <4>2. Ends(f[k - 1], x, v) /\ Ends(ss[k], x, "keep") /\ f[k] = f[k - 1] \o ss[k]
          BY <2>3, <2>5, <3>2, <3>3, <4>1
        <4>3. Prog(f[k - 1]) /\ Prog(ss[k]) BY <2>2, <3>3, <4>1
        <4> QED BY <3>2, <4>2, <4>3, EndsJoin
      <3> QED BY <3>4, <3>5, <3>6
    <2>6. (\A i \in 1..n : Ends(ss[i], x, "keep")) => Ends(f[n], x, "keep") BY <2>4, <2>5
    <2>7. ASSUME NEW v, NEW i \in 1..n, Ends(ss[i], x, v), \A j \in 1..n : j > i => Ends(ss[j], x, "keep"),
                 v # "keep"
          PROVE  Ends(f[n], x, v)
      BY <2>5, <2>7
    <2> QED BY <2>1, <2>2, <2>4, <2>6, <2>7
  <1> QED BY <1>2, <1>3
-----------------------------------------------------------------------------
(***************************************************************************)
(* Programs that write registers of some kinds only.                       *)
(***************************************************************************)
\* A bit of another kind is kept.
LEMMA EndsElse ==
    ASSUME NEW p, NEW K, WritesIn(p, K), NEW x, Label(x[1]) \notin K
    PROVE  Prog(p) /\ Ends(p, x, "keep")
  <1>1. \A i \in DOMAIN p : Effect(p[i], x) = "keep" BY DEF WritesIn, FitsIn, Effect
  <1> QED BY <1>1 DEF WritesIn, Ends

LEMMA InJoin ==
    ASSUME NEW p, NEW q, NEW K, WritesIn(p, K), WritesIn(q, K)
    PROVE  WritesIn(p \o q, K)
  <1> DEFINE r == p \o q
             m == Len(p)
             n == Len(q)
  <1>1. Prog(p) /\ Prog(q) BY DEF WritesIn
  <1>2. /\ m \in Nat /\ n \in Nat /\ DOMAIN p = 1..m /\ DOMAIN q = 1..n /\ DOMAIN r = 1..(m + n)
        /\ \A i \in 1..(m + n) : r[i] = IF i <= m THEN p[i] ELSE q[i - m]
        /\ Prog(r)
    BY <1>1, ProgJoin
  <1> HIDE DEF r, m, n
  <1>3. \A i \in 1..(m + n) : FitsIn(r[i], K)
    <2> TAKE i \in 1..(m + n)
    <2>1. CASE i <= m BY <1>2, <2>1 DEF WritesIn
    <2>2. CASE ~ (i <= m)
      <3>1. i - m \in 1..n /\ r[i] = q[i - m] BY <1>2, <2>2
      <3> QED BY <1>2, <3>1 DEF WritesIn
    <2> QED BY <2>1, <2>2
  <1> QED BY <1>2, <1>3 DEF WritesIn, r

LEMMA InNone == \A K : WritesIn(<<>>, K)
  <1>1. DOMAIN <<>> = {}
    OBVIOUS
  <1> QED BY <1>1, EmptyProg DEF WritesIn

LEMMA InFlatten ==
    ASSUME NEW K, NEW n \in Nat, NEW ss, ss = [i \in 1..n |-> ss[i]],
           \A i \in 1..n : WritesIn(ss[i], K)
    PROVE  WritesIn(FlattenSeq(ss), K)
  <1> DEFINE A == UNION {{ss[i][j] : j \in DOMAIN ss[i]} : i \in 1..n}
             C == {p \in Seq(A) : WritesIn(p, K)}
  <1>1. \A i \in 1..n : ss[i] \in Seq(A)
    <2> TAKE i \in 1..n
    <2> DEFINE B == {ss[i][j] : j \in DOMAIN ss[i]}
    <2>1. ss[i] \in Seq(B) BY DEF WritesIn, Prog
    <2>2. B \subseteq A
      OBVIOUS
    <2> HIDE DEF A, B
    <2> QED BY <2>1, <2>2
  <1>2. ss \in [1..n -> C] BY <1>1
  <1> HIDE DEF A
  <1>3. Closed(C) BY InJoin DEF Closed
  <1>4. <<>> \in C BY InNone
  <1> HIDE DEF C
  <1>5. FlattenSeq(ss) \in C BY <1>2, <1>3, <1>4, FlattenStays
  <1> QED BY <1>5 DEF C

LEMMA InRepeat ==
    ASSUME NEW K, NEW n \in Nat, NEW p, WritesIn(p, K)
    PROVE  WritesIn(Repeat(n, p), K)
  <1> DEFINE ss == [i \in 1..n |-> p]
  <1>1. ss = [i \in 1..n |-> ss[i]] /\ \A i \in 1..n : WritesIn(ss[i], K)
    OBVIOUS
  <1> HIDE DEF ss
  <1>2. WritesIn(FlattenSeq(ss), K) BY <1>1, InFlatten
  <1> QED BY <1>2 DEF ss, Repeat

\* A few accesses.
LEMMA In1 ==
    ASSUME NEW K, NEW a, FitsIn(a, K)
    PROVE  WritesIn(<<a>>, K)
  <1>1. <<a>> \in Seq({a})
    OBVIOUS
  <1>2. Prog(<<a>>) BY <1>1, ProgOf, Zenon
  <1>3. DOMAIN <<a>> = {1}
    OBVIOUS
  <1> QED BY <1>2, <1>3 DEF WritesIn

LEMMA In2 ==
    ASSUME NEW K, NEW a, NEW b, FitsIn(a, K), FitsIn(b, K)
    PROVE  WritesIn(<<a, b>>, K)
  <1>1. <<a, b>> \in Seq({a, b})
    OBVIOUS
  <1>2. Prog(<<a, b>>) BY <1>1, ProgOf, Zenon
  <1>3. DOMAIN <<a, b>> = {1, 2}
    OBVIOUS
  <1> QED BY <1>2, <1>3 DEF WritesIn

LEMMA In3 ==
    ASSUME NEW K, NEW a, NEW b, NEW c, FitsIn(a, K), FitsIn(b, K), FitsIn(c, K)
    PROVE  WritesIn(<<a, b, c>>, K)
  <1>1. <<a, b, c>> = <<a, b>> \o <<c>>
    OBVIOUS
  <1> QED BY <1>1, In1, In2, InJoin

LEMMA In6 ==
    ASSUME NEW K, NEW a, NEW b, NEW c, NEW d, NEW e, NEW f, FitsIn(a, K), FitsIn(b, K), FitsIn(c, K),
           FitsIn(d, K), FitsIn(e, K), FitsIn(f, K)
    PROVE  WritesIn(<<a, b, c, d, e, f>>, K)
  <1>1. <<a, b, c, d, e, f>> = <<a, b, c>> \o <<d, e, f>>
    OBVIOUS
  <1>2. WritesIn(<<a, b, c>>, K) /\ WritesIn(<<d, e, f>>, K) BY In3
  <1> QED BY <1>1, <1>2, InJoin

\* One access to one register.
LEMMA OnIs ==
    ASSUME NEW r, NEW mask, NEW val
    PROVE  /\ On(r, mask, val).pin = <<>>
           /\ \A K : Label(r) \in K /\ (r[1] \in Slim => val \subseteq Byte) => FitsIn(On(r, mask, val), K)
           /\ \A x : Effect(On(r, mask, val), x) =
                 IF x[1] # r THEN "keep" ELSE IF x[2] \in val THEN "set"
                 ELSE IF x[2] \in mask THEN "clear" ELSE "keep"
  <1> DEFINE a == On(r, mask, val)
  <1>1. DOMAIN a.write = {r} /\ a.write[r].mask = mask /\ a.write[r].val = val /\ a.pin = <<>>
    BY DEF On, Access
  <1> HIDE DEF a
  <1>2. \A K : Label(r) \in K /\ (r[1] \in Slim => val \subseteq Byte) => FitsIn(a, K)
    BY <1>1 DEF FitsIn
  <1>3. \A x : Effect(a, x) = IF x[1] # r THEN "keep" ELSE IF x[2] \in val THEN "set"
                              ELSE IF x[2] \in mask THEN "clear" ELSE "keep"
    BY <1>1 DEF Effect
  <1> QED BY <1>1, <1>2, <1>3 DEF a

LEMMA LabelIs ==
    \A n, k : Label(<<n, k>>) = IF n = "EPRXCONTROL" /\ k = 7 THEN "EC" ELSE n
  BY DEF Label

\* Registers that no item is about, and whose values may be of any width.
LEMMA PutFits ==
    ASSUME NEW n, n \notin Slim, n # "EPRXCONTROL", NEW K, n \in K
    PROVE  /\ \A k, mask, val : FitsIn(On(<<n, k>>, mask, val), K)
           /\ \A k, val : FitsIn(PutAt(n, k, val), K)
           /\ \A val : FitsIn(Put(n, val), K)
           /\ \A k, b : FitsIn(BitSet(<<n, k>>, b), K) /\ FitsIn(BitClr(<<n, k>>, b), K)
           /\ \A mask, val : FitsIn(On(R(n), mask, val), K)
           /\ \A b : FitsIn(BitSet(R(n), b), K) /\ FitsIn(BitClr(R(n), b), K)
  <1>1. \A k, mask, val : FitsIn(On(<<n, k>>, mask, val), K)
    <2> TAKE k, mask, val
    <2>1. Label(<<n, k>>) = n /\ <<n, k>>[1] = n BY LabelIs
    <2> HIDE DEF Slim
    <2> QED BY <2>1, OnIs
  <1> QED BY <1>1, Zenon DEF PutAt, Put, BitSet, BitClr, R

LEMMA PollFits == \A K : FitsIn(Poll, K)
  BY DEF FitsIn, Poll, Access
-----------------------------------------------------------------------------
(***************************************************************************)
(* The measurements, the fuses and the set-ups of other buses write no bit *)
(* of an item.                                                             *)
(***************************************************************************)
LEMMA KindsApart == OtherKinds \cap ItemKinds = {}
  BY DEF OtherKinds, ItemKinds, PinKinds, ModeKinds

Aside(p) == WritesIn(p, OtherKinds)

LEMMA PutAside ==
    ASSUME NEW n \in OtherKinds
    PROVE  /\ \A k, mask, val : FitsIn(On(<<n, k>>, mask, val), OtherKinds)
           /\ \A k, val : FitsIn(PutAt(n, k, val), OtherKinds)
           /\ \A val : FitsIn(Put(n, val), OtherKinds)
           /\ \A k, b : FitsIn(BitSet(<<n, k>>, b), OtherKinds) /\ FitsIn(BitClr(<<n, k>>, b), OtherKinds)
           /\ \A mask, val : FitsIn(On(R(n), mask, val), OtherKinds)
           /\ \A b : FitsIn(BitSet(R(n), b), OtherKinds) /\ FitsIn(BitClr(R(n), b), OtherKinds)
  <1>1. n \notin Slim /\ n # "EPRXCONTROL" BY DEF OtherKinds, Slim
  <1> QED BY <1>1, PutFits

LEMMA AsideAdcRead == \A ipos, ineg, gain : Aside(AdcRead(ipos, ineg, gain))
  <1> TAKE ipos, ineg, gain
  <1> DEFINE monitor == ipos \in 10..13
             Mon(val) == IF monitor THEN <<Put("ADCMON", val)>> ELSE <<>>
             a == Put("ADC_SELECT", Bits(16 * ipos + ineg))
             b == Put("ADC_CONFIG", Bits(4 + Gain(gain)))
             c == Put("VREFCNTR", {7})
             d == Put("ADC_CONFIG", Bits(128 + 4 + Gain(gain)))
             e == Put("ADC_CONFIG", {2} \cup Bits(gain))
             z == Put("VREFCNTR", {})
             m == <<a, b, c, d, Poll, e>>
  <1>1. AdcRead(ipos, ineg, gain) = ((Mon(Bits(31)) \o m) \o Mon({})) \o <<z>>
    <2>1. AdcRead(ipos, ineg, gain) = Mon(Bits(31)) \o m \o Mon({}) \o <<z>> BY DEF AdcRead
    <2> QED BY <2>1
  <1>2. {"ADCMON", "ADC_SELECT", "ADC_CONFIG", "VREFCNTR"} \subseteq OtherKinds BY DEF OtherKinds
  <1>3. /\ FitsIn(a, OtherKinds) /\ FitsIn(b, OtherKinds) /\ FitsIn(c, OtherKinds)
        /\ FitsIn(d, OtherKinds) /\ FitsIn(e, OtherKinds) /\ FitsIn(z, OtherKinds)
        /\ \A val : FitsIn(Put("ADCMON", val), OtherKinds)
    BY <1>2, PutAside
  <1> HIDE DEF a, b, c, d, e, z
  <1>4. Aside(m) /\ Aside(<<z>>) BY <1>3, PollFits, In1, In6 DEF Aside
  <1>5. \A val : Aside(Mon(val)) BY <1>3, In1, InNone DEF Aside
  <1> HIDE DEF m, Mon
  <1>6. Aside(((Mon(Bits(31)) \o m) \o Mon({})) \o <<z>>) BY <1>4, <1>5, InJoin DEF Aside
  <1> QED BY <1>1, <1>6

LEMMA AsideMeasures ==
    /\ \A ipos, current, gain : Aside(AdcResistanceRead(ipos, current, gain))
    /\ Aside(AdcAverage)
    /\ \A tune : Aside(ReadInternalTempPrecise(tune))
  <1>0. {"DAC_CONFIG_H", "CURDAC_VALUE", "CURDAC_CHN", "ADCMON", "VREFTUNE"} \subseteq OtherKinds
    BY DEF OtherKinds
  <1>1. ASSUME NEW ipos, NEW current, NEW gain
        PROVE  Aside(AdcResistanceRead(ipos, current, gain))
    <2> DEFINE a == BitSet(R("DAC_CONFIG_H"), 6)
               b == Put("CURDAC_VALUE", Bits(current))
               c == Put("CURDAC_CHN", {ipos})
               z == BitClr(R("DAC_CONFIG_H"), 6)
               q == AdcRead(ipos, 15, gain)
    <2>1. AdcResistanceRead(ipos, current, gain) = (<<a, b, c>> \o q) \o <<z>>
      BY DEF AdcResistanceRead
    <2>2. FitsIn(a, OtherKinds) /\ FitsIn(b, OtherKinds) /\ FitsIn(c, OtherKinds) /\ FitsIn(z, OtherKinds)
      BY <1>0, PutAside
    <2> HIDE DEF a, b, c, z
    <2>3. Aside(<<a, b, c>>) /\ Aside(<<z>>) /\ Aside(q) BY <2>2, In1, In3, AsideAdcRead DEF Aside
    <2> HIDE DEF q
    <2>4. Aside((<<a, b, c>> \o q) \o <<z>>) BY <2>3, InJoin DEF Aside
    <2> QED BY <2>1, <2>4
  <1>2. Aside(AdcAverage) BY AsideAdcRead, InRepeat, ServiceAssumption DEF AdcAverage, Aside
  <1>3. ASSUME NEW tune PROVE Aside(ReadInternalTempPrecise(tune))
    <2> DEFINE a == Put("ADCMON", {5})
               b == Put("ADCMON", {})
               x == Put("VREFTUNE", {})
               y == Put("VREFTUNE", Bits(tune))
               q == AdcAverage
    <2>1. ReadInternalTempPrecise(tune) = (<<a, b>> \o ((<<x>> \o q) \o <<y>>)) \o q
      BY DEF ReadInternalTempPrecise, FindVrefTune
    <2>2. FitsIn(a, OtherKinds) /\ FitsIn(b, OtherKinds) /\ FitsIn(x, OtherKinds) /\ FitsIn(y, OtherKinds)
      BY <1>0, PutAside
    <2> HIDE DEF a, b, x, y
    <2>3. Aside(<<a, b>>) /\ Aside(<<x>>) /\ Aside(<<y>>) /\ Aside(q)
      BY <1>2, <2>2, In1, In2 DEF Aside
    <2> HIDE DEF q
    <2>4. Aside((<<x>> \o q) \o <<y>>) BY <2>3, InJoin DEF Aside
    <2>5. Aside((<<a, b>> \o ((<<x>> \o q) \o <<y>>)) \o q) BY <2>3, <2>4, InJoin DEF Aside
    <2> QED BY <2>1, <2>5
  <1> QED BY <1>1, <1>2, <1>3

LEMMA AsideFuses == (\A addr : Aside(ReadEfuse(addr))) /\ Aside(SerialNumber)
  <1>1. ASSUME NEW addr PROVE Aside(ReadEfuse(addr))
    <2> DEFINE a == BitSet(R("FUSECONTROL"), 1)
               b == Put("FUSEADDRH", Bits(addr \div 256))
               c == Put("FUSEADDRL", Bits(addr % 256))
               d == BitClr(R("FUSECONTROL"), 1)
               e == BitClr(R("FUSECONTROL"), 0)
    <2>1. ReadEfuse(addr) = <<a, Poll, b, c, d, e>> BY DEF ReadEfuse
    <2>2. {"FUSECONTROL", "FUSEADDRH", "FUSEADDRL"} \subseteq OtherKinds BY DEF OtherKinds
    <2>3. /\ FitsIn(a, OtherKinds) /\ FitsIn(b, OtherKinds) /\ FitsIn(c, OtherKinds)
          /\ FitsIn(d, OtherKinds) /\ FitsIn(e, OtherKinds)
      BY <2>2, PutAside
    <2> HIDE DEF a, b, c, d, e
    <2> QED BY <2>1, <2>3, PollFits, In6 DEF Aside
  <1>2. Aside(SerialNumber)
    <2> DEFINE ss == [i \in 1..5 |-> ReadEfuse(<<0, 8, 12, 16, 20>>[i])]
    <2>1. ss = [i \in 1..5 |-> ss[i]] /\ \A i \in 1..5 : Aside(ss[i]) BY <1>1
    <2> HIDE DEF ss
    <2>2. Aside(FlattenSeq(ss)) BY <2>1, InFlatten DEF Aside
    <2> QED BY <2>2 DEF ss, SerialNumber
  <1> QED BY <1>1, <1>2

LEMMA AsideSetups ==
    /\ \A bus, khz : Aside(SetupI2c(bus, khz))
    /\ Aside(FinalizeSetup)
    /\ \A invert_tx, drive, fixed, phase, pullup : Aside(SetupEc(invert_tx, drive, fixed, phase, pullup))
  <1>1. ASSUME NEW bus, NEW khz PROVE Aside(SetupI2c(bus, khz))
    <2> DEFINE D == {<<"I2CMCONFIG", bus>>, <<"ctl_reg", bus>>}
               speed == IF khz \in 126..299 THEN 1 ELSE IF khz \in 301..499 THEN 2
                        ELSE IF khz \in 501..1999 THEN 3 ELSE 0
               f == [r \in D |-> IF r[1] = "ctl_reg" THEN [mask |-> Byte, val |-> Bits(speed)]
                                 ELSE [mask |-> Byte, val |-> {3, 5}]]
               a == Access(f)
    <2>1. SetupI2c(bus, khz) = <<a>> BY DEF SetupI2c
    <2>2. DOMAIN a.write = D BY DEF Access
    <2>3. \A r \in D : Label(r) \in OtherKinds /\ r[1] \notin Slim BY LabelIs DEF OtherKinds, Slim
    <2> HIDE DEF a, D
    <2>4. FitsIn(a, OtherKinds) BY <2>2, <2>3 DEF FitsIn
    <2> QED BY <2>1, <2>4, In1 DEF Aside
  <1>2. Aside(FinalizeSetup)
    <2>1. "POWERUP2" \in OtherKinds BY DEF OtherKinds
    <2> QED BY <2>1, PutAside, In1 DEF FinalizeSetup, Aside
  <1>3. ASSUME NEW invert_tx, NEW drive, NEW fixed, NEW phase, NEW pullup
        PROVE  Aside(SetupEc(invert_tx, drive, fixed, phase, pullup))
    <2> DEFINE v == {4} \cup Flag(fixed, 0)
               a == PutAt("EPRXCONTROL", 7, v)
               b == PutAt("EPRXCHN", 28, Bits(16 * (phase % 8)) \cup {1} \cup Flag(pullup, 0))
               c == Put("EPTXECCHNCNTR", Bits(32 * (drive % 8) + 1) \cup Flag(invert_tx, 2))
    <2>1. SetupEc(invert_tx, drive, fixed, phase, pullup) = <<a, b, c>> BY DEF SetupEc
    <2>2. {"EC", "EPRXCHN", "EPTXECCHNCNTR"} \subseteq OtherKinds BY DEF OtherKinds
    <2>3. FitsIn(b, OtherKinds) /\ FitsIn(c, OtherKinds) BY <2>2, PutAside
    <2>4. FitsIn(a, OtherKinds)
      <3>1. Label(<<"EPRXCONTROL", 7>>) = "EC" /\ "EPRXCONTROL" \notin Slim BY DEF Label, Slim
      <3> HIDE DEF v
      <3>2. a = On(<<"EPRXCONTROL", 7>>, Byte, v) BY DEF PutAt
      <3> HIDE DEF a
      <3> QED BY <2>2, <3>1, <3>2, OnIs
    <2> HIDE DEF a, b, c
    <2> QED BY <2>1, <2>3, <2>4, In3 DEF Aside
  <1> QED BY <1>1, <1>2, <1>3

LEMMA AsideTests ==
    Aside(TestBasic) /\ Aside(TestAdc) /\ Aside(TestEc) /\ Aside(AdcAll) /\ Aside(I2cScan)
  <1>1. Aside(TestBasic) BY AsideFuses DEF TestBasic
  <1>2. Aside(TestAdc)
    <2> DEFINE v == <<Put("VREFTUNE", {7})>>
               a == AdcRead(0, 15, 1)
               ss == [i \in 1..4 |-> AdcRead(i - 1, 15, 1)]
               ts == [i \in 1..4 |-> AdcRead(i + 3, 15, 1)]
               b == Repeat(Grid * Grid, FlattenSeq(ss))
               c == Repeat(Grid * Grid, FlattenSeq(ts))
    <2>1. TestAdc = (((v \o a) \o a) \o b) \o c BY DEF TestAdc
    <2>2. "VREFTUNE" \in OtherKinds BY DEF OtherKinds
    <2>3. Aside(v) /\ Aside(a) BY <2>2, PutAside, In1, AsideAdcRead DEF Aside
    <2>4. /\ ss = [i \in 1..4 |-> ss[i]] /\ \A i \in 1..4 : Aside(ss[i])
          /\ ts = [i \in 1..4 |-> ts[i]] /\ \A i \in 1..4 : Aside(ts[i])
      BY AsideAdcRead
    <2> HIDE DEF v, a, ss, ts
    <2>5. Aside(FlattenSeq(ss)) /\ Aside(FlattenSeq(ts)) BY <2>4, InFlatten DEF Aside
    <2>6. Grid * Grid \in Nat BY BoardAssumption
    <2>7. Aside(b) /\ Aside(c) BY <2>5, <2>6, InRepeat DEF Aside
    <2> HIDE DEF b, c
    <2>8. Aside((((v \o a) \o a) \o b) \o c) BY <2>3, <2>7, InJoin DEF Aside
    <2> QED BY <2>1, <2>8
  <1>3. Aside(TestEc)
    <2> DEFINE ss == [i \in 1..9 |-> SetupEc(TRUE, 4, TRUE, IF i = 1 THEN 0 ELSE i - 2, TRUE)]
    <2>1. ss = [i \in 1..9 |-> ss[i]] /\ \A i \in 1..9 : Aside(ss[i]) BY AsideSetups
    <2> HIDE DEF ss
    <2>2. Aside(FlattenSeq(ss)) BY <2>1, InFlatten DEF Aside
    <2> QED BY <2>2 DEF ss, TestEc
  <1>4. Aside(AdcAll)
    <2> DEFINE ss == [i \in 1..15 |-> AdcRead(i - 1, 15, 1)]
    <2>1. ss = [i \in 1..15 |-> ss[i]] /\ \A i \in 1..15 : Aside(ss[i]) BY AsideAdcRead
    <2> HIDE DEF ss
    <2>2. Aside(FlattenSeq(ss)) BY <2>1, InFlatten DEF Aside
    <2> QED BY <2>2 DEF ss, AdcAll
  <1>5. Aside(I2cScan)
    <2> DEFINE p(a) == <<PutAt("I2CM0ADDRESS", 0, Bits(a - 1)), Put("I2CM0DATA0", {}),
                         Put("I2CM0CMD", {}), Put("I2CM0CMD", Bits(3)), Poll>>
               ss == [a \in 1..Addresses |-> p(a)]
    <2>1. {"I2CM0ADDRESS", "I2CM0DATA0", "I2CM0CMD"} \subseteq OtherKinds BY DEF OtherKinds
    <2>2. \A a : Aside(p(a))
      <3> TAKE a
      <3> DEFINE r == PutAt("I2CM0ADDRESS", 0, Bits(a - 1))
                 s == Put("I2CM0DATA0", {})
                 t == Put("I2CM0CMD", {})
                 u == Put("I2CM0CMD", Bits(3))
      <3>1. FitsIn(r, OtherKinds) /\ FitsIn(s, OtherKinds) /\ FitsIn(t, OtherKinds) /\ FitsIn(u, OtherKinds)
        BY <2>1, PutAside
      <3> HIDE DEF r, s, t, u
      <3>2. <<r, s, t, u, Poll>> = <<r, s, t>> \o <<u, Poll>>
        OBVIOUS
      <3>3. WritesIn(<<r, s, t>>, OtherKinds) /\ WritesIn(<<u, Poll>>, OtherKinds)
        BY <3>1, PollFits, In2, In3
      <3>4. Aside(<<r, s, t, u, Poll>>) BY <3>2, <3>3, InJoin DEF Aside
      <3> QED BY <3>4 DEF r, s, t, u
    <2> HIDE DEF p
    <2>3. ss = [a \in 1..Addresses |-> ss[a]] /\ \A a \in 1..Addresses : Aside(ss[a]) BY <2>2
    <2> HIDE DEF ss
    <2>4. Aside(FlattenSeq(ss)) BY <2>3, BoardAssumption, InFlatten DEF Aside
    <2>5. Aside(SetupI2c(0, 100)) BY AsideSetups
    <2>6. I2cScan = SetupI2c(0, 100) \o FlattenSeq(ss) BY DEF I2cScan, ss, p
    <2> QED BY <2>4, <2>5, <2>6, InJoin DEF Aside
  <1> QED BY <1>1, <1>2, <1>3, <1>4, <1>5
-----------------------------------------------------------------------------
(***************************************************************************)
(* The bits of pins, links and clocks that the services write.             *)
(***************************************************************************)
LEMMA BitIs ==
    ASSUME NEW r, NEW b \in Nat
    PROVE  /\ \A x : Effect(BitSet(r, b), x) = IF x[1] = r /\ x[2] = b % 8 THEN "set" ELSE "keep"
           /\ \A x : Effect(BitClr(r, b), x) = IF x[1] = r /\ x[2] = b % 8 THEN "clear" ELSE "keep"
           /\ \A K : Label(r) \in K => FitsIn(BitSet(r, b), K) /\ FitsIn(BitClr(r, b), K)
           /\ BitSet(r, b).pin = <<>> /\ BitClr(r, b).pin = <<>>
  <1> DEFINE z == {}
             o == {b % 8}
  <1>1. (\A y : y \notin z) /\ (\A y : y \in o <=> y = b % 8) /\ z \subseteq Byte /\ o \subseteq Byte
    BY DEF Byte
  <1>2. BitSet(r, b) = On(r, z, o) /\ BitClr(r, b) = On(r, o, z) BY DEF BitSet, BitClr
  <1> HIDE DEF z, o
  <1>3. \A x : Effect(On(r, z, o), x) = IF x[1] # r THEN "keep" ELSE IF x[2] \in o THEN "set"
                                        ELSE IF x[2] \in z THEN "clear" ELSE "keep"
    BY OnIs
  <1>4. \A x : Effect(On(r, o, z), x) = IF x[1] # r THEN "keep" ELSE IF x[2] \in z THEN "set"
                                        ELSE IF x[2] \in o THEN "clear" ELSE "keep"
    BY OnIs
  <1>5. \A K : Label(r) \in K => FitsIn(On(r, z, o), K) /\ FitsIn(On(r, o, z), K) BY <1>1, OnIs
  <1>6. On(r, z, o).pin = <<>> /\ On(r, o, z).pin = <<>> BY OnIs
  <1> QED BY <1>1, <1>2, <1>3, <1>4, <1>5, <1>6

LEMMA BitsByte == \A n : Bits(n) \subseteq Byte
  BY DEF Bits

LEMMA EndsTwo ==
    ASSUME NEW a, NEW b, NEW x
    PROVE  /\ Effect(b, x) # "keep" => Ends(<<a, b>>, x, Effect(b, x))
           /\ Effect(b, x) = "keep" => Ends(<<a, b>>, x, Effect(a, x))
  <1>1. DOMAIN <<a, b>> = {1, 2} /\ <<a, b>>[1] = a /\ <<a, b>>[2] = b /\ 2 > 1 /\ ~ (1 > 1) /\ ~ (1 > 2) /\ ~ (2 > 2)
    OBVIOUS
  <1> QED BY <1>1 DEF Ends

LEMMA PutAtIs ==
    ASSUME NEW n, NEW k, NEW val
    PROVE  /\ \A x : Effect(PutAt(n, k, val), x) =
                 IF x[1] # <<n, k>> THEN "keep" ELSE IF x[2] \in val THEN "set"
                 ELSE IF x[2] \in Byte THEN "clear" ELSE "keep"
           /\ \A K : Label(<<n, k>>) \in K /\ val \subseteq Byte => FitsIn(PutAt(n, k, val), K)
  <1>1. PutAt(n, k, val) = On(<<n, k>>, Byte, val) BY DEF PutAt
  <1> QED BY <1>1, OnIs

LEMMA HiddenRange == \A p \in Pins12 : Hidden(p) \in 0..15
  BY DEF Pins12, Hidden

\* Places of pins.
LEMMA PlaceOne ==
    ASSUME NEW k, NEW l, NEW p \in Pins12, NEW q \in Pins12, Place(k, Hidden(p)) = Place(l, Hidden(q))
    PROVE  k = l /\ p = q
  <1> DEFINE b == Hidden(p)
             c == Hidden(q)
  <1>1. b \in 0..15 /\ c \in 0..15 BY HiddenRange
  <1>2. (b = c) => p = q BY HiddenOne
  <1> HIDE DEF b, c
  <1>3. Place(k, b) = Place(l, c) BY DEF b, c
  <1>4. k = l /\ (b < 8 <=> c < 8) /\ b % 8 = c % 8 BY <1>3 DEF Place, Half
  <1>5. \A d \in 0..7 : d % 8 = d
    OBVIOUS
  <1>6. \A d \in 8..15 : d % 8 = d - 8
    OBVIOUS
  <1>7. b = c BY <1>1, <1>4, <1>5, <1>6
  <1> QED BY <1>2, <1>4, <1>7

LEMMA PlaceLabel ==
    \A k, b : k # "EPRXCONTROL" => Label(Place(k, b)[1]) = k /\ Place(k, b)[1][1] = k
  BY LabelIs DEF Place, Half

LEMMA GpioSetEnds ==
    ASSUME NEW p \in Pins12, NEW high \in BOOLEAN
    PROVE  /\ WritesIn(GpioSet(p, high), {"PIOOUT"})
           /\ Ends(GpioSet(p, high), Place("PIOOUT", Hidden(p)), To(high))
           /\ \A q \in Pins12 : q # p => Ends(GpioSet(p, high), Place("PIOOUT", Hidden(q)), "keep")
  <1> DEFINE b == Hidden(p)
             r == Half("PIOOUT", b)
             a == IF high THEN BitSet(r, b) ELSE BitClr(r, b)
  <1>1. b \in Nat /\ b \in 0..15 BY HiddenRange
  <1>2. GpioSet(p, high) = <<a>> BY DEF GpioSet
  <1>3. Label(r) = "PIOOUT" BY LabelIs DEF Half
  <1>4. Place("PIOOUT", b) = <<r, b % 8>> BY DEF Place
  <1> HIDE DEF r
  <1>5. \A x : Effect(a, x) = IF x[1] = r /\ x[2] = b % 8 THEN To(high) ELSE "keep"
    BY <1>1, BitIs DEF To
  <1>6. FitsIn(a, {"PIOOUT"}) BY <1>1, <1>3, BitIs
  <1> HIDE DEF a
  <1>7. WritesIn(<<a>>, {"PIOOUT"}) BY <1>6, In1
  <1>8. Effect(a, Place("PIOOUT", b)) = To(high) BY <1>4, <1>5
  <1>9. ASSUME NEW q \in Pins12, q # p PROVE Effect(a, Place("PIOOUT", Hidden(q))) = "keep"
    <2>1. Place("PIOOUT", Hidden(q)) # <<r, b % 8>> BY <1>4, <1>9, PlaceOne
    <2>2. Place("PIOOUT", Hidden(q)) = <<Place("PIOOUT", Hidden(q))[1], Place("PIOOUT", Hidden(q))[2]>>
      BY DEF Place
    <2> QED BY <1>5, <2>1, <2>2
  <1> QED BY <1>2, <1>7, <1>8, <1>9, EndsOne DEF b

LEMMA GpioSetAllEnds ==
    ASSUME NEW S \in SUBSET Pins12
    PROVE  /\ WritesIn(GpioSetAll(S), {"PIOOUT"})
           /\ \A p \in Pins12 : Ends(GpioSetAll(S), Place("PIOOUT", Hidden(p)), To(p \in S))
  <1> DEFINE vh == {b \in Byte : b + 8 \in S} \cup IF 3 \in S THEN {7} ELSE {}
             vl == S \cap Byte
             h == PutAt("PIOOUT", 0, vh)
             l == PutAt("PIOOUT", 1, vl)
  <1>1. GpioSetAll(S) = <<h, l>> BY DEF GpioSetAll
  <1>2. vh \subseteq Byte /\ vl \subseteq Byte BY DEF Byte
  <1>3. \A p \in Pins12 :
            LET x == Place("PIOOUT", Hidden(p))
            IN  /\ x[2] \in Byte
                /\ \/ x[1] = <<"PIOOUT", 1>> /\ (x[2] \in vl <=> p \in S)
                   \/ x[1] = <<"PIOOUT", 0>> /\ (x[2] \in vh <=> p \in S)
    <2> TAKE p \in Pins12
    <2>1. CASE p \in 0..7 /\ p # 3
      <3>1. Hidden(p) = p /\ p % 8 = p /\ p < 8 /\ p \in Byte BY <2>1 DEF Hidden, Byte
      <3> QED BY <3>1 DEF Place, Half
    <2>2. CASE p = 3
      <3>1. Hidden(p) = 15 /\ 15 % 8 = 7 /\ ~ (15 < 8) /\ 7 \in Byte /\ 7 + 8 = 15
        BY <2>2 DEF Hidden, Byte
      <3>2. 15 \notin S BY DEF Pins12
      <3>3. 7 \in vh <=> 3 \in S BY <3>1, <3>2
      <3> QED BY <2>2, <3>1, <3>3 DEF Place, Half
    <2>3. CASE p \in 8..11
      <3>1. Hidden(p) = p /\ p % 8 = p - 8 /\ ~ (p < 8) /\ p - 8 \in Byte /\ (p - 8) + 8 = p /\ p - 8 # 7
        BY <2>3 DEF Hidden, Byte
      <3>2. p - 8 \in vh <=> p \in S BY <3>1
      <3> QED BY <3>1, <3>2 DEF Place, Half
    <2> QED BY <2>1, <2>2, <2>3 DEF Pins12
  <1> HIDE DEF vh, vl
  <1>4. Label(<<"PIOOUT", 0>>) = "PIOOUT" /\ Label(<<"PIOOUT", 1>>) = "PIOOUT" /\ <<"PIOOUT", 0>> # <<"PIOOUT", 1>>
    BY LabelIs
  <1>5. FitsIn(h, {"PIOOUT"}) /\ FitsIn(l, {"PIOOUT"}) BY <1>2, <1>4, PutAtIs
  <1>6. \A k, val, x : Effect(PutAt("PIOOUT", k, val), x) =
            IF x[1] # <<"PIOOUT", k>> THEN "keep" ELSE IF x[2] \in val THEN "set"
            ELSE IF x[2] \in Byte THEN "clear" ELSE "keep"
    <2> TAKE k, val, x
    <2>1. PutAt("PIOOUT", k, val) = On(<<"PIOOUT", k>>, Byte, val) BY DEF PutAt
    <2> QED BY <2>1, OnIs
  <1>7. ASSUME NEW p \in Pins12 PROVE Ends(<<h, l>>, Place("PIOOUT", Hidden(p)), To(p \in S))
    <2> DEFINE x == Place("PIOOUT", Hidden(p))
    <2>1. /\ x[2] \in Byte
          /\ \/ x[1] = <<"PIOOUT", 1>> /\ (x[2] \in vl <=> p \in S)
             \/ x[1] = <<"PIOOUT", 0>> /\ (x[2] \in vh <=> p \in S)
      BY <1>3
    <2> HIDE DEF x
    <2>2. CASE x[1] = <<"PIOOUT", 1>> /\ (x[2] \in vl <=> p \in S)
      <3>1. Effect(l, x) = To(p \in S) BY <1>6, <2>1, <2>2 DEF To
      <3> HIDE DEF h, l
      <3> QED BY <3>1, ToIs, EndsTwo DEF x
    <2>3. CASE x[1] = <<"PIOOUT", 0>> /\ (x[2] \in vh <=> p \in S)
      <3>1. Effect(h, x) = To(p \in S) /\ Effect(l, x) = "keep" BY <1>4, <1>6, <2>1, <2>3 DEF To
      <3> HIDE DEF h, l
      <3> QED BY <3>1, EndsTwo DEF x
    <2> QED BY <2>1, <2>2, <2>3
  <1> HIDE DEF h, l
  <1>8. WritesIn(<<h, l>>, {"PIOOUT"}) BY <1>5, In2
  <1> QED BY <1>1, <1>7, <1>8
-----------------------------------------------------------------------------
(***************************************************************************)
(* What programs do of items; a program after another one, and several.    *)
(***************************************************************************)
LEMMA FootIs ==
    \A i :
        /\ i[1] = "cfg" => Foot(i) = {Place(kind, Hidden(i[2])) : kind \in PinKinds}
        /\ i[1] = "out" => Foot(i) = {Place("PIOOUT", Hidden(i[2]))}
        /\ i[1] = "etx" => Foot(i) = {EtxBit(i[2])} \cup {x \in {Sole} : i[2] = 2}
        /\ i[1] = "eclk" => Foot(i) = {<<<<"ECLK", 2 * MapEclk(i[2])>>, b>> : b \in Byte}
        /\ i[1] = "erx" => Foot(i) = {<<Receiver(i[2]), b>> : b \in 0..1}
        /\ i[1] = "aux" => Foot(i) = {<<<<"AUX", i[2]>>, i[3]>>}
        /\ i[1] = "mode" => Foot(i) = {<<<<kind, i[2]>>, i[3]>> : kind \in ModeKinds}
        /\ i[1] = "volts" => Foot(i) = {<<<<kind, 1>>, p>> : kind \in {"GPO_ENABLE", "GPO_WRITE"}, p \in 5..7}
        /\ i[1] = "phase" => Foot(i) = {<<R("UPLINK_PHASE"), b>> : b \in Field(i[2], 5)}
        /\ i[1] = "pattern" => Foot(i) = {<<R("UPLINK_PATTERN"), b>> : b \in Field(i[2], 4)}
        /\ i[1] = "name" => Foot(i) = {}
  <1> TAKE i
  <1>1. i[1] = "cfg" => Foot(i) = {Place(kind, Hidden(i[2])) : kind \in PinKinds} BY DEF Foot
  <1>2. i[1] = "out" => Foot(i) = {Place("PIOOUT", Hidden(i[2]))} BY DEF Foot
  <1>3. i[1] = "etx" => Foot(i) = {EtxBit(i[2])} \cup {x \in {Sole} : i[2] = 2} BY DEF Foot
  <1>4. i[1] = "eclk" => Foot(i) = {<<<<"ECLK", 2 * MapEclk(i[2])>>, b>> : b \in Byte} BY DEF Foot
  <1>5. i[1] = "erx" => Foot(i) = {<<Receiver(i[2]), b>> : b \in 0..1} BY DEF Foot
  <1>6. i[1] = "aux" => Foot(i) = {<<<<"AUX", i[2]>>, i[3]>>} BY DEF Foot
  <1>7. i[1] = "mode" => Foot(i) = {<<<<kind, i[2]>>, i[3]>> : kind \in ModeKinds} BY DEF Foot
  <1>8. i[1] = "volts" => Foot(i) = {<<<<kind, 1>>, p>> : kind \in {"GPO_ENABLE", "GPO_WRITE"}, p \in 5..7}
    BY DEF Foot
  <1>9. i[1] = "phase" => Foot(i) = {<<R("UPLINK_PHASE"), b>> : b \in Field(i[2], 5)} BY DEF Foot
  <1>10. i[1] = "pattern" => Foot(i) = {<<R("UPLINK_PATTERN"), b>> : b \in Field(i[2], 4)}
    BY DEF Foot
  <1>11. i[1] = "name" => Foot(i) = {} BY DEF Foot
  <1> QED BY <1>1, <1>2, <1>3, <1>4, <1>5, <1>6, <1>7, <1>8, <1>9, <1>10, <1>11

LEMMA GoalIs ==
    \A i, v, x :
        /\ i[1] = "cfg" => Goal(i, v, x) = CfgGoal(v, x[1][1])
        /\ i[1] \in {"out", "aux"} => Goal(i, v, x) = To(v)
        /\ i[1] = "etx" => Goal(i, v, x) = IF x[1][1] = "EPTXENABLE" THEN To(v[1])
                                           ELSE IF v[1] THEN To(v[2]) ELSE "any"
        /\ i[1] = "eclk" => Goal(i, v, x) = To(x[2] \in Bits(RateCode(v) + 32))
        /\ i[1] = "erx" => Goal(i, v, x) = To(x[2] \in Bits(v))
        /\ i[1] = "mode" => Goal(i, v, x) = ModeGoal(v, x[1][1])
        /\ i[1] = "volts" => Goal(i, v, x) = VoltsGoal(v, x[1][1], x[2])
        /\ i[1] = "phase" => Goal(i, v, x) = To(x[2] \in {b + 5 * i[2] : b \in Bits(v)})
        /\ i[1] = "pattern" => Goal(i, v, x) = To(x[2] \in {b + 4 * i[2] : b \in Bits(v)})
  <1> TAKE i, v, x
  <1>1. /\ i[1] = "cfg" => Goal(i, v, x) = CfgGoal(v, x[1][1])
        /\ i[1] \in {"out", "aux"} => Goal(i, v, x) = To(v)
        /\ i[1] = "etx" => Goal(i, v, x) = IF x[1][1] = "EPTXENABLE" THEN To(v[1])
                                           ELSE IF v[1] THEN To(v[2]) ELSE "any"
        /\ i[1] = "mode" => Goal(i, v, x) = ModeGoal(v, x[1][1])
        /\ i[1] = "volts" => Goal(i, v, x) = VoltsGoal(v, x[1][1], x[2])
    BY DEF Goal
  <1>2. i[1] = "eclk" => Goal(i, v, x) = To(x[2] \in Bits(RateCode(v) + 32)) BY DEF Goal
  <1>3. i[1] = "erx" => Goal(i, v, x) = To(x[2] \in Bits(v)) BY DEF Goal
  <1>4. i[1] = "phase" => Goal(i, v, x) = To(x[2] \in {b + 5 * i[2] : b \in Bits(v)}) BY DEF Goal
  <1>5. i[1] = "pattern" => Goal(i, v, x) = To(x[2] \in {b + 4 * i[2] : b \in Bits(v)}) BY DEF Goal
  <1> QED BY <1>1, <1>2, <1>3, <1>4, <1>5

\* A goal is never to keep.
LEMMA GoalNotKeep == \A i, v, x : Goal(i, v, x) # "keep"
  <1> TAKE i, v, x
  <1>1. \A b : To(b) # "keep" BY ToIs
  <1>2. \A c, kind : CfgGoal(c, kind) # "keep" BY <1>1 DEF CfgGoal
  <1>3. \A m, kind : ModeGoal(m, kind) # "keep" BY <1>1 DEF ModeGoal
  <1>4. \A n, kind, p : VoltsGoal(n, kind, p) # "keep" BY <1>1 DEF VoltsGoal
  <1> QED BY <1>1, <1>2, <1>3, <1>4 DEF Goal

\* The label of a bit tells the kind of its items.
LEMMA FootLabel ==
    ASSUME NEW i, NEW v, IsItem(i, v), NEW x \in Foot(i)
    PROVE  /\ Label(x[1]) \in ItemKinds
           /\ Label(x[1]) \in PinKinds => i[1] = "cfg"
           /\ Label(x[1]) = "PIOOUT" => i[1] = "out"
           /\ Label(x[1]) \in {"EPTXENABLE", "EPTXPAIR"} => i[1] = "etx"
           /\ Label(x[1]) = "ECLK" => i[1] = "eclk"
           /\ Label(x[1]) = "EPRXCONTROL" => i[1] = "erx"
           /\ Label(x[1]) = "AUX" => i[1] = "aux"
           /\ Label(x[1]) \in ModeKinds => i[1] \in {"mode", "volts"}
           /\ Label(x[1]) = "UPLINK_PHASE" => i[1] = "phase"
           /\ Label(x[1]) = "UPLINK_PATTERN" => i[1] = "pattern"
  <1> DEFINE l == Label(x[1])
  <1>1. /\ i[1] = "cfg" => l \in PinKinds
        /\ i[1] = "out" => l = "PIOOUT"
    <2>1. \A kind \in PinKinds \cup {"PIOOUT"} : kind # "EPRXCONTROL" BY DEF PinKinds
    <2> QED BY <2>1, FootIs, PlaceLabel
  <1>2. i[1] = "etx" => l \in {"EPTXENABLE", "EPTXPAIR"} BY FootIs, LabelIs DEF EtxBit, Sole
  <1>3. i[1] = "eclk" => l = "ECLK" BY FootIs, LabelIs
  <1>4. i[1] = "erx" => l = "EPRXCONTROL"
    <2>1. i[1] = "erx" => x[1] = Receiver(i[2]) /\ i[2] \in 0..5 BY FootIs DEF IsItem
    <2> QED BY <2>1, LabelIs DEF Receiver
  <1>5. i[1] = "aux" => l = "AUX" BY FootIs, LabelIs
  <1>6. i[1] \in {"mode", "volts"} => l \in ModeKinds BY FootIs, LabelIs DEF ModeKinds
  <1>7. /\ i[1] = "phase" => l = "UPLINK_PHASE"
        /\ i[1] = "pattern" => l = "UPLINK_PATTERN"
    BY FootIs, LabelIs DEF R
  <1>8. i[1] # "name" BY FootIs
  <1>9. i[1] \in {"cfg", "out", "etx", "eclk", "erx", "aux", "mode", "volts", "phase", "pattern"}
    <2>1. i = <<"volts">> => i[1] = "volts"
      OBVIOUS
    <2> QED BY <1>8, <2>1 DEF IsItem
  <1> HIDE DEF l
  <1>10. /\ l \in ItemKinds
         /\ l \in PinKinds => i[1] = "cfg"
         /\ l = "PIOOUT" => i[1] = "out"
         /\ l \in {"EPTXENABLE", "EPTXPAIR"} => i[1] = "etx"
         /\ l = "ECLK" => i[1] = "eclk"
         /\ l = "EPRXCONTROL" => i[1] = "erx"
         /\ l = "AUX" => i[1] = "aux"
         /\ l \in ModeKinds => i[1] \in {"mode", "volts"}
         /\ l = "UPLINK_PHASE" => i[1] = "phase"
         /\ l = "UPLINK_PATTERN" => i[1] = "pattern"
    BY <1>1, <1>2, <1>3, <1>4, <1>5, <1>6, <1>7, <1>9 DEF ItemKinds, PinKinds, ModeKinds
  <1> QED BY <1>10 DEF l

LEMMA DoesOf ==
    ASSUME NEW p, NEW K, WritesIn(p, K), NEW W,
           \A w \in W : IsItem(w[1], w[2]) /\ Done(p, w[1], w[2]),
           \A i, v : IsItem(i, v) /\ (\A w \in W : w[1] # i) =>
               \A x \in Foot(i) : Label(x[1]) \in K => Ends(p, x, "keep")
    PROVE  Does(p, W)
  <1>1. Prog(p) /\ \A k \in DOMAIN p : Narrow(p[k]) BY DEF WritesIn, FitsIn, Narrow
  <1>2. \A x : Label(x[1]) \notin K => Ends(p, x, "keep") BY EndsElse
  <1>3. \A i, v : IsItem(i, v) /\ (\A w \in W : w[1] # i) => Spared(p, i) BY <1>2 DEF Spared
  <1> QED BY <1>1, <1>3 DEF Does

LEMMA DoesOne ==
    ASSUME NEW p, NEW K, WritesIn(p, K), NEW i, NEW v, IsItem(i, v), Done(p, i, v),
           \A j, u : IsItem(j, u) /\ j # i => \A x \in Foot(j) : Label(x[1]) \in K => Ends(p, x, "keep")
    PROVE  Does(p, {<<i, v>>})
  <1> DEFINE W == {<<i, v>>}
  <1>1. \A w \in W : w[1] = i /\ w[2] = v
    OBVIOUS
  <1>2. \A j : (\A w \in W : w[1] # j) => j # i
    OBVIOUS
  <1> HIDE DEF W
  <1>3. \A w \in W : IsItem(w[1], w[2]) /\ Done(p, w[1], w[2]) BY <1>1
  <1>4. Does(p, W) BY <1>2, <1>3, DoesOf
  <1> QED BY <1>4 DEF W

LEMMA DoesNothing == \A p : Aside(p) => Does(p, {})
  <1> SUFFICES ASSUME NEW p, Aside(p) PROVE Does(p, {})
    OBVIOUS
  <1>1. \A i, v : IsItem(i, v) => \A x \in Foot(i) : Label(x[1]) \notin OtherKinds
    BY FootLabel, KindsApart
  <1> QED BY <1>1, DoesOf DEF Aside

\* Of two programs the second decides what both are asked for.
LEMMA DoesJoin ==
    ASSUME NEW p, NEW q, NEW U, NEW V, NEW W, Does(p, U), Does(q, V),
           \A w \in W : w \in V \/ (w \in U /\ \A u \in V : u[1] # w[1]),
           \A u \in U \cup V : \E w \in W : w[1] = u[1]
    PROVE  Does(p \o q, W)
  <1>1. Prog(p) /\ Prog(q) BY DEF Does
  <1>2. \A x, v : /\ v # "keep" /\ Ends(q, x, v) => Ends(p \o q, x, v)
                  /\ Ends(p, x, v) /\ Ends(q, x, "keep") => Ends(p \o q, x, v)
    BY <1>1, EndsJoin
  <1>3. Prog(p \o q) /\ \A k \in DOMAIN (p \o q) : Narrow((p \o q)[k])
    <2> DEFINE r == p \o q
               m == Len(p)
               n == Len(q)
    <2>1. /\ m \in Nat /\ n \in Nat /\ DOMAIN p = 1..m /\ DOMAIN q = 1..n /\ DOMAIN r = 1..(m + n)
          /\ \A i \in 1..(m + n) : r[i] = IF i <= m THEN p[i] ELSE q[i - m]
          /\ Prog(r)
      BY <1>1, ProgJoin
    <2> HIDE DEF r, m, n
    <2>2. \A i \in 1..(m + n) : i \in 1..m \/ (i - m \in 1..n /\ ~ (i <= m)) BY <2>1
    <2>3. \A i \in 1..m : i <= m BY <2>1
    <2>4. \A i \in 1..(m + n) : Narrow(r[i]) BY <2>1, <2>2, <2>3 DEF Does
    <2> QED BY <2>1, <2>4 DEF r
  <1>4. ASSUME NEW w \in W PROVE IsItem(w[1], w[2]) /\ Done(p \o q, w[1], w[2])
    <2>1. CASE w \in V BY <1>2, <2>1, GoalNotKeep DEF Does, Done
    <2>2. CASE w \in U /\ \A u \in V : u[1] # w[1]
      <3>1. IsItem(w[1], w[2]) /\ Done(p, w[1], w[2]) BY <2>2 DEF Does
      <3>2. Spared(q, w[1]) BY <2>2, <3>1 DEF Does
      <3> QED BY <1>2, <3>1, <3>2 DEF Done, Spared
    <2> QED BY <2>1, <2>2
  <1>5. ASSUME NEW i, NEW v, IsItem(i, v), \A w \in W : w[1] # i PROVE Spared(p \o q, i)
    <2>1. Spared(p, i) /\ Spared(q, i) BY <1>5 DEF Does
    <2> QED BY <1>2, <2>1 DEF Spared
  <1> QED BY <1>3, <1>4, <1>5 DEF Does

LEMMA DoesUnion ==
    ASSUME NEW p, NEW q, NEW U, NEW V, Does(p, U), Does(q, V),
           \A u \in U, w \in V : u[1] # w[1]
    PROVE  Does(p \o q, U \cup V)
  <1> DEFINE W == U \cup V
  <1>1. \A w \in W : w \in V \/ (w \in U /\ \A u \in V : u[1] # w[1])
    OBVIOUS
  <1>2. \A u \in U \cup V : \E w \in W : w[1] = u[1]
    OBVIOUS
  <1> HIDE DEF W
  <1>3. Does(p \o q, W) BY <1>1, <1>2, DoesJoin
  <1> QED BY <1>3 DEF W

\* Of several programs the last that is about an item decides.
Decides(n, ss, Ws, W) ==
    /\ n \in Nat /\ ss = [k \in 1..n |-> ss[k]]
    /\ \A k \in 1..n : Does(ss[k], Ws[k])
    /\ \A w \in W : \E k \in 1..n : w \in Ws[k] /\ \A l \in 1..n : l > k => \A u \in Ws[l] : u[1] # w[1]
    /\ \A k \in 1..n : \A u \in Ws[k] : \E w \in W : w[1] = u[1]

LEMMA DoesFlatten ==
    ASSUME NEW n, NEW ss, NEW Ws, NEW W, Decides(n, ss, Ws, W)
    PROVE  Does(FlattenSeq(ss), W)
  <1> USE DEF Decides
  <1> DEFINE p == FlattenSeq(ss)
             C == {q \in {FlattenSeq(ss)} : TRUE}
  <1>1. \A k \in 1..n : Prog(ss[k]) BY DEF Does
  <1>2. \A x : /\ Prog(p)
               /\ (\A i \in 1..n : Ends(ss[i], x, "keep")) => Ends(p, x, "keep")
               /\ \A v : \A i \in 1..n :
                     v # "keep" /\ Ends(ss[i], x, v) /\ (\A j \in 1..n : j > i => Ends(ss[j], x, "keep"))
                     => Ends(p, x, v)
    BY <1>1, EndsFlatten
  <1>3. Prog(p) BY <1>2
  <1>4. \A k \in DOMAIN p : Narrow(p[k])
    <2> DEFINE A == {a \in UNION {{ss[i][j] : j \in DOMAIN ss[i]} : i \in 1..n} : Narrow(a)}
    <2>1. \A i \in 1..n : ss[i] \in Seq(A)
      <3> TAKE i \in 1..n
      <3> DEFINE B == {ss[i][j] : j \in DOMAIN ss[i]}
      <3>1. ss[i] \in Seq(B) BY <1>1 DEF Prog
      <3>2. \A b \in B : Narrow(b) BY DEF Does
      <3>3. B \subseteq A BY <3>2
      <3> HIDE DEF A, B
      <3> QED BY <3>1, <3>3
    <2>2. \A a \in A : Narrow(a)
      OBVIOUS
    <2> HIDE DEF A
    <2>3. ss \in [1..n -> Seq(A)] BY <2>1
    <2>4. Closed(Seq(A)) /\ <<>> \in Seq(A) BY DEF Closed
    <2>5. p \in Seq(A) BY <2>3, <2>4, FlattenStays
    <2> HIDE DEF p
    <2>6. \A k \in DOMAIN p : p[k] \in A BY <2>5
    <2> QED BY <2>2, <2>6
  <1> HIDE DEF p
  <1>5. ASSUME NEW w \in W PROVE IsItem(w[1], w[2]) /\ Done(p, w[1], w[2])
    <2>1. PICK k \in 1..n : w \in Ws[k] /\ \A l \in 1..n : l > k => \A u \in Ws[l] : u[1] # w[1]
      BY <1>5
    <2>2. IsItem(w[1], w[2]) /\ Done(ss[k], w[1], w[2]) BY <2>1 DEF Does
    <2>3. \A l \in 1..n : l > k => Spared(ss[l], w[1]) BY <2>1, <2>2 DEF Does
    <2>4. ASSUME NEW x \in Foot(w[1]) PROVE Goal(w[1], w[2], x) = "any" \/ Ends(p, x, Goal(w[1], w[2], x))
      <3>1. \A l \in 1..n : l > k => Ends(ss[l], x, "keep") BY <2>3 DEF Spared
      <3>2. Goal(w[1], w[2], x) = "any" \/ Ends(ss[k], x, Goal(w[1], w[2], x)) BY <2>2 DEF Done
      <3> DEFINE g == Goal(w[1], w[2], x)
      <3>3. g # "keep" BY GoalNotKeep
      <3> HIDE DEF g
      <3>4. Ends(ss[k], x, g) => Ends(p, x, g) BY <1>2, <3>1, <3>3
      <3> QED BY <3>2, <3>4 DEF g
    <2> QED BY <2>2, <2>4 DEF Done
  <1>6. ASSUME NEW i, NEW v, IsItem(i, v), \A w \in W : w[1] # i PROVE Spared(p, i)
    <2>1. \A k \in 1..n : \A u \in Ws[k] : u[1] # i BY <1>6
    <2>2. \A k \in 1..n : Spared(ss[k], i) BY <1>6, <2>1 DEF Does
    <2> QED BY <1>2, <2>2 DEF Spared
  <1>7. Does(p, W) BY <1>3, <1>4, <1>5, <1>6 DEF Does
  <1> QED BY <1>7 DEF p
-----------------------------------------------------------------------------
(***************************************************************************)
(* What the services of pins do.                                           *)
(***************************************************************************)
LEMMA ItemIs ==
    ASSUME NEW j, NEW u, IsItem(j, u)
    PROVE  /\ j[1] = "cfg" => j = <<"cfg", j[2]>> /\ j[2] \in Pins12
           /\ j[1] = "out" => j = <<"out", j[2]>> /\ j[2] \in Pins12 /\ u \in BOOLEAN
           /\ j[1] = "etx" => j = <<"etx", j[2]>> /\ j[2] \in 0..6 /\ u \in BOOLEAN \X BOOLEAN
           /\ j[1] = "eclk" => j = <<"eclk", j[2]>> /\ j[2] \in 0..7
           /\ j[1] = "erx" => j = <<"erx", j[2]>> /\ j[2] \in 0..5 /\ u \in 0..1
           /\ j[1] = "aux" => j = <<"aux", j[2], j[3]>> /\ j[2] \in Nat /\ j[3] \in Byte /\ u \in BOOLEAN
           /\ j[1] = "mode" => j = <<"mode", j[2], j[3]>> /\ j[2] \in 0..1 /\ j[3] \in Byte /\ u \in DOMAIN Modes
           /\ j[1] = "volts" => j = <<"volts">> /\ u \in {1, 8, 12}
           /\ j[1] = "phase" => j = <<"phase", j[2]>> /\ j[2] \in {0, 1, 5} /\ u \in {3, 31}
           /\ j[1] = "pattern" => j = <<"pattern", j[2]>> /\ j[2] \in {0, 1, 5} /\ u \in {1, 15}
  <1>1. j = <<"volts">> => j[1] = "volts"
    OBVIOUS
  <1>2. \/ j[1] = "name"
        \/ j[1] = "cfg" /\ j = <<"cfg", j[2]>> /\ j[2] \in Pins12
        \/ j[1] = "out" /\ j = <<"out", j[2]>> /\ j[2] \in Pins12 /\ u \in BOOLEAN
        \/ j[1] = "etx" /\ j = <<"etx", j[2]>> /\ j[2] \in 0..6 /\ u \in BOOLEAN \X BOOLEAN
        \/ j[1] = "eclk" /\ j = <<"eclk", j[2]>> /\ j[2] \in 0..7
        \/ j[1] = "erx" /\ j = <<"erx", j[2]>> /\ j[2] \in 0..5 /\ u \in 0..1
        \/ j[1] = "aux" /\ j = <<"aux", j[2], j[3]>> /\ j[2] \in Nat /\ j[3] \in Byte /\ u \in BOOLEAN
        \/ j[1] = "mode" /\ j = <<"mode", j[2], j[3]>> /\ j[2] \in 0..1 /\ j[3] \in Byte /\ u \in DOMAIN Modes
        \/ j[1] = "volts" /\ j = <<"volts">> /\ u \in {1, 8, 12}
        \/ j[1] = "phase" /\ j = <<"phase", j[2]>> /\ j[2] \in {0, 1, 5} /\ u \in {3, 31}
        \/ j[1] = "pattern" /\ j = <<"pattern", j[2]>> /\ j[2] \in {0, 1, 5} /\ u \in {1, 15}
    BY <1>1 DEF IsItem
  <1> QED BY <1>2

LEMMA DoesSet ==
    ASSUME NEW p \in Pins12, NEW high \in BOOLEAN
    PROVE  Does(GpioSet(p, high), {<<<<"out", p>>, high>>})
  <1> DEFINE g == GpioSet(p, high)
             i == <<"out", p>>
  <1>1. /\ WritesIn(g, {"PIOOUT"}) /\ Ends(g, Place("PIOOUT", Hidden(p)), To(high))
        /\ \A q \in Pins12 : q # p => Ends(g, Place("PIOOUT", Hidden(q)), "keep")
    BY GpioSetEnds
  <1>2. IsItem(i, high) BY DEF IsItem
  <1> HIDE DEF g
  <1>3. Done(g, i, high)
    <2>1. Foot(i) = {Place("PIOOUT", Hidden(p))} /\ \A x : Goal(i, high, x) = To(high)
      BY FootIs, GoalIs
    <2> QED BY <1>1, <2>1 DEF Done
  <1>4. ASSUME NEW j, NEW u, IsItem(j, u), j # i, NEW x \in Foot(j), Label(x[1]) \in {"PIOOUT"}
        PROVE  Ends(g, x, "keep")
    <2>1. j[1] = "out" BY <1>4, FootLabel
    <2>2. j = <<"out", j[2]>> /\ j[2] \in Pins12 /\ x = Place("PIOOUT", Hidden(j[2]))
      BY <1>4, <2>1, ItemIs, FootIs
    <2> QED BY <1>1, <1>4, <2>2
  <1> HIDE DEF i
  <1>5. Does(g, {<<i, high>>}) BY <1>1, <1>2, <1>3, <1>4, DoesOne
  <1> QED BY <1>5 DEF g, i

LEMMA DoesSetAll ==
    ASSUME NEW S \in SUBSET Pins12
    PROVE  Does(GpioSetAll(S), {<<<<"out", p>>, p \in S>> : p \in Pins12})
  <1> DEFINE g == GpioSetAll(S)
             on(p) == p \in S
             W == {<<<<"out", p>>, on(p)>> : p \in Pins12}
  <1>1. /\ WritesIn(g, {"PIOOUT"})
        /\ \A p \in Pins12 : Ends(g, Place("PIOOUT", Hidden(p)), To(on(p)))
    BY GpioSetAllEnds
  <1>2. \A p \in Pins12 : on(p) \in BOOLEAN
    OBVIOUS
  <1> HIDE DEF g, on
  <1>3. ASSUME NEW w \in W PROVE IsItem(w[1], w[2]) /\ Done(g, w[1], w[2])
    <2>1. PICK p \in Pins12 : w = <<<<"out", p>>, on(p)>>
      OBVIOUS
    <2>2. w[1] = <<"out", p>> /\ w[2] = on(p) /\ w[1][1] = "out" /\ w[1][2] = p BY <2>1
    <2>3. IsItem(w[1], w[2]) BY <1>2, <2>2 DEF IsItem
    <2>4. Foot(w[1]) = {Place("PIOOUT", Hidden(p))} /\ \A x : Goal(w[1], w[2], x) = To(on(p))
      BY <2>2, FootIs, GoalIs
    <2> QED BY <1>1, <2>3, <2>4 DEF Done
  <1>4. \A p \in Pins12 : <<<<"out", p>>, on(p)>> \in W /\ <<<<"out", p>>, on(p)>>[1] = <<"out", p>>
    OBVIOUS
  <1> HIDE DEF W
  <1>5. ASSUME NEW j, NEW u, IsItem(j, u), \A w \in W : w[1] # j,
               NEW x \in Foot(j), Label(x[1]) \in {"PIOOUT"}
        PROVE  Ends(g, x, "keep")
    <2>1. j[1] = "out" BY <1>5, FootLabel
    <2>2. j = <<"out", j[2]>> /\ j[2] \in Pins12 BY <1>5, <2>1, ItemIs
    <2> QED BY <1>4, <1>5, <2>2
  <1>6. Does(g, W) BY <1>1, <1>3, <1>5, DoesOf
  <1> QED BY <1>6 DEF g, W, on

LEMMA CfgEnds ==
    ASSUME NEW p \in Pins12, NEW c, NEW name
    PROVE  LET g == GpioCfgSet(p, c, name)
           IN  /\ WritesIn(g, PinKinds)
               /\ \A k \in PinKinds, q \in Pins12 :
                     \/ q = p /\ CfgGoal(c, k) = "any"
                     \/ Ends(g, Place(k, Hidden(q)), IF q = p THEN CfgGoal(c, k) ELSE "keep")
  <1> DEFINE b == Hidden(p)
             Switch(kind, yes) == IF yes THEN BitSet(Half(kind, b), b) ELSE BitClr(Half(kind, b), b)
             x == Switch("PIODIR", "output" \in c)
             y == Switch("PIODRIVE", "strong" \in c)
             e == <<name, b, "output" \in c>>
             g == GpioCfgSet(p, c, name)
             Named2(a) == [a EXCEPT !.pin = e]
             does(a, kind, yes) ==
                 /\ FitsIn(a, PinKinds)
                 /\ \A k \in PinKinds, q \in Pins12 :
                       Effect(a, Place(k, Hidden(q))) = IF k = kind /\ q = p THEN To(yes) ELSE "keep"
  <1>1. \A kind \in PinKinds : \A yes \in BOOLEAN :
            does(Switch(kind, yes), kind, yes) /\ does(Named2(Switch(kind, yes)), kind, yes)
    <2> TAKE kind \in PinKinds
    <2> TAKE yes \in BOOLEAN
    <2> DEFINE s == Switch(kind, yes)
               r == Half(kind, b)
    <2>1. b \in Nat BY HiddenRange
    <2>2. Label(r) \in PinKinds BY LabelIs DEF Half, PinKinds
    <2>3. \A k \in PinKinds, q \in Pins12 :
              Place(k, Hidden(q))[1] = r /\ Place(k, Hidden(q))[2] = b % 8 <=> k = kind /\ q = p
      <3> TAKE k \in PinKinds, q \in Pins12
      <3>1. Place(k, Hidden(q)) = <<Half(k, Hidden(q)), Hidden(q) % 8>> /\ Place(kind, Hidden(p)) = <<r, b % 8>>
        BY DEF Place
      <3>2. Place(k, Hidden(q)) = Place(kind, Hidden(p)) => k = kind /\ q = p BY PlaceOne
      <3> HIDE DEF b, r
      <3>3. Place(k, Hidden(q)) = <<Place(k, Hidden(q))[1], Place(k, Hidden(q))[2]>> BY <3>1
      <3>4. k = kind /\ q = p => Place(k, Hidden(q))[1] = r /\ Place(k, Hidden(q))[2] = b % 8
        BY <3>1 DEF b, r
      <3> QED BY <3>1, <3>2, <3>3, <3>4
    <2> HIDE DEF r, b
    <2>4. \A X : Effect(s, X) = IF X[1] = r /\ X[2] = b % 8 THEN To(yes) ELSE "keep"
      BY <2>1, BitIs DEF To, r
    <2>5. FitsIn(s, PinKinds) /\ s = [write |-> s.write, pin |-> <<>>]
      <3>1. FitsIn(s, PinKinds) BY <2>1, <2>2, BitIs DEF r
      <3>2. s = [write |-> s.write, pin |-> <<>>] BY DEF BitSet, BitClr, On, Access
      <3> QED BY <3>1, <3>2
    <2> HIDE DEF s
    <2>6. \A k \in PinKinds, q \in Pins12 :
              Effect(s, Place(k, Hidden(q))) = IF k = kind /\ q = p THEN To(yes) ELSE "keep"
      BY <2>3, <2>4
    <2>7. Named2(s).write = s.write BY <2>5
    <2> DEFINE t == Named2(s)
    <2>8. t.write = s.write BY <2>7
    <2> HIDE DEF t
    <2>9. FitsIn(t, PinKinds) /\ \A X : Effect(t, X) = Effect(s, X) BY <2>5, <2>8 DEF FitsIn, Effect
    <2> QED BY <2>5, <2>6, <2>9 DEF s, t
  <1>2. \/ g = (<<x, y>> \o <<Switch("PIOUPDOWN", TRUE)>>) \o <<Named2(Switch("PIOPULLENA", TRUE))>>
           /\ c \cap {"up", "down"} = {"up"}
        \/ g = (<<x, y>> \o <<Switch("PIOUPDOWN", FALSE)>>) \o <<Named2(Switch("PIOPULLENA", TRUE))>>
           /\ c \cap {"up", "down"} = {"down"}
        \/ g = (<<x, y>> \o <<>>) \o <<Named2(Switch("PIOPULLENA", FALSE))>>
           /\ c \cap {"up", "down"} \notin {{"up"}, {"down"}}
    BY LastAndFront DEF GpioCfgSet
  <1>3. {"PIODIR", "PIODRIVE", "PIOUPDOWN", "PIOPULLENA"} = PinKinds BY DEF PinKinds
  <1>4. does(x, "PIODIR", "output" \in c) /\ does(y, "PIODRIVE", "strong" \in c)
    <2>1. \A kind \in PinKinds : \A yes \in BOOLEAN : does(Switch(kind, yes), kind, yes) BY <1>1
    <2>2. "PIODIR" \in PinKinds /\ "PIODRIVE" \in PinKinds BY <1>3
    <2>3. ("output" \in c) \in BOOLEAN /\ ("strong" \in c) \in BOOLEAN
      OBVIOUS
    <2> HIDE DEF does, Switch
    <2> QED BY <2>1, <2>2, <2>3, Zenon
  <1>5. \A yes \in BOOLEAN : does(Switch("PIOUPDOWN", yes), "PIOUPDOWN", yes)
                             /\ does(Named2(Switch("PIOPULLENA", yes)), "PIOPULLENA", yes)
    <2> HIDE DEF does, Switch, Named2
    <2> QED BY <1>1, <1>3
  <1> DEFINE up == Switch("PIOUPDOWN", TRUE)
             dn == Switch("PIOUPDOWN", FALSE)
             en == Named2(Switch("PIOPULLENA", TRUE))
             no == Named2(Switch("PIOPULLENA", FALSE))
  <1>6. does(up, "PIOUPDOWN", TRUE) /\ does(dn, "PIOUPDOWN", FALSE)
        /\ does(en, "PIOPULLENA", TRUE) /\ does(no, "PIOPULLENA", FALSE)
    <2> HIDE DEF does, Switch, Named2
    <2> QED BY <1>5
  <1>7. \/ g = (<<x, y>> \o <<up>>) \o <<en>> /\ c \cap {"up", "down"} = {"up"}
        \/ g = (<<x, y>> \o <<dn>>) \o <<en>> /\ c \cap {"up", "down"} = {"down"}
        \/ g = (<<x, y>> \o <<>>) \o <<no>> /\ c \cap {"up", "down"} \notin {{"up"}, {"down"}}
    BY <1>2
  <1> HIDE DEF x, y, up, dn, en, no, g
  <1>8. WritesIn(<<x, y>>, PinKinds) /\ WritesIn(<<>>, PinKinds) /\ WritesIn(<<up>>, PinKinds)
        /\ WritesIn(<<dn>>, PinKinds) /\ WritesIn(<<en>>, PinKinds) /\ WritesIn(<<no>>, PinKinds)
    BY <1>4, <1>6, In1, In2, InNone
  <1>9. WritesIn(g, PinKinds) BY <1>7, <1>8, InJoin
  <1>10. ASSUME NEW k \in PinKinds, NEW q \in Pins12, ~ (q = p /\ CfgGoal(c, k) = "any")
         PROVE  Ends(g, Place(k, Hidden(q)), IF q = p THEN CfgGoal(c, k) ELSE "keep")
    <2> DEFINE X == Place(k, Hidden(q))
               xy == IF q = p /\ k = "PIODIR" THEN To("output" \in c)
                     ELSE IF q = p /\ k = "PIODRIVE" THEN To("strong" \in c) ELSE "keep"
    <2>1. /\ Effect(x, X) = IF k = "PIODIR" /\ q = p THEN To("output" \in c) ELSE "keep"
          /\ Effect(y, X) = IF k = "PIODRIVE" /\ q = p THEN To("strong" \in c) ELSE "keep"
          /\ Effect(up, X) = IF k = "PIOUPDOWN" /\ q = p THEN To(TRUE) ELSE "keep"
          /\ Effect(dn, X) = IF k = "PIOUPDOWN" /\ q = p THEN To(FALSE) ELSE "keep"
          /\ Effect(en, X) = IF k = "PIOPULLENA" /\ q = p THEN To(TRUE) ELSE "keep"
          /\ Effect(no, X) = IF k = "PIOPULLENA" /\ q = p THEN To(FALSE) ELSE "keep"
      BY <1>4, <1>6
    <2> HIDE DEF X, does
    <2>2. Ends(<<x, y>>, X, xy) BY <2>1, EndsTwo, ToIs
    <2> DEFINE a == Effect(up, X)
               d == Effect(dn, X)
               z == Effect(en, X)
               o == Effect(no, X)
    <2>3. Ends(<<up>>, X, a) /\ Ends(<<dn>>, X, d) /\ Ends(<<en>>, X, z) /\ Ends(<<no>>, X, o) /\ Ends(<<>>, X, "keep")
      BY EndsOne, EndsNone
    <2> DEFINE v == IF q = p THEN CfgGoal(c, k) ELSE "keep"
    <2>4. \A f, m, n : WritesIn(f, PinKinds) /\ WritesIn(n, PinKinds) /\ Ends(f, X, m) =>
              \A w : Ends(n, X, w) =>
                  LET xym == IF m # "keep" THEN m ELSE xy
                  IN  Ends((<<x, y>> \o f) \o n, X, IF w # "keep" THEN w ELSE xym)
      <3> SUFFICES ASSUME NEW f, NEW m, NEW n, NEW w, WritesIn(f, PinKinds), WritesIn(n, PinKinds),
                          Ends(f, X, m), Ends(n, X, w)
                   PROVE  LET xym == IF m # "keep" THEN m ELSE xy
                          IN  Ends((<<x, y>> \o f) \o n, X, IF w # "keep" THEN w ELSE xym)
        OBVIOUS
      <3> DEFINE xyf == <<x, y>> \o f
                 xym == IF m # "keep" THEN m ELSE xy
      <3>1. Prog(<<x, y>>) /\ Prog(f) /\ Prog(n) BY <1>8 DEF WritesIn
      <3> HIDE DEF xy
      <3>2. Prog(xyf) /\ Ends(xyf, X, xym) BY <2>2, <3>1, EndsJoin, ProgJoin
      <3> HIDE DEF xyf, xym
      <3>3. Ends(xyf \o n, X, IF w # "keep" THEN w ELSE xym) BY <3>1, <3>2, EndsJoin
      <3> QED BY <3>3 DEF xyf, xym
    <2>5. CASE g = (<<x, y>> \o <<up>>) \o <<en>> /\ c \cap {"up", "down"} = {"up"}
      <3> DEFINE xym == IF a # "keep" THEN a ELSE xy
      <3>1. Ends(g, X, IF z # "keep" THEN z ELSE xym) BY <1>8, <2>3, <2>4, <2>5
      <3>2. v = IF z # "keep" THEN z ELSE xym BY <1>3, <2>1, <2>5 DEF CfgGoal, To
      <3> QED BY <3>1, <3>2 DEF X
    <2>6. CASE g = (<<x, y>> \o <<dn>>) \o <<en>> /\ c \cap {"up", "down"} = {"down"}
      <3> DEFINE xym == IF d # "keep" THEN d ELSE xy
      <3>1. Ends(g, X, IF z # "keep" THEN z ELSE xym) BY <1>8, <2>3, <2>4, <2>6
      <3>2. v = IF z # "keep" THEN z ELSE xym BY <1>3, <2>1, <2>6 DEF CfgGoal, To
      <3> QED BY <3>1, <3>2 DEF X
    <2>7. CASE g = (<<x, y>> \o <<>>) \o <<no>> /\ c \cap {"up", "down"} \notin {{"up"}, {"down"}}
      <3>1. Ends(g, X, IF o # "keep" THEN o ELSE xy) BY <1>8, <2>3, <2>4, <2>7
      <3>2. v = IF o # "keep" THEN o ELSE xy BY <1>3, <1>10, <2>1, <2>7 DEF CfgGoal, To
      <3> QED BY <3>1, <3>2 DEF X
    <2> QED BY <1>7, <2>5, <2>6, <2>7
  <1> HIDE DEF does
  <1>11. \A k \in PinKinds, q \in Pins12 :
             \/ q = p /\ CfgGoal(c, k) = "any"
             \/ Ends(g, Place(k, Hidden(q)), IF q = p THEN CfgGoal(c, k) ELSE "keep")
    BY <1>10
  <1> QED BY <1>9, <1>11 DEF g

LEMMA DoesCfg ==
    ASSUME NEW p \in Pins12, NEW c, NEW name
    PROVE  Does(GpioCfgSet(p, c, name), {<<<<"cfg", p>>, c>>})
  <1> DEFINE g == GpioCfgSet(p, c, name)
             i == <<"cfg", p>>
  <1>1. /\ WritesIn(g, PinKinds)
        /\ \A k \in PinKinds, q \in Pins12 :
              \/ q = p /\ CfgGoal(c, k) = "any"
              \/ Ends(g, Place(k, Hidden(q)), IF q = p THEN CfgGoal(c, k) ELSE "keep")
    BY CfgEnds
  <1>2. IsItem(i, c) BY DEF IsItem
  <1> HIDE DEF g
  <1>3. ASSUME NEW x \in Foot(i) PROVE Goal(i, c, x) = "any" \/ Ends(g, x, Goal(i, c, x))
    <2>1. PICK k \in PinKinds : x = Place(k, Hidden(p)) BY FootIs
    <2>2. k # "EPRXCONTROL" BY DEF PinKinds
    <2>3. x[1][1] = k BY <2>1, <2>2, PlaceLabel
    <2>4. Goal(i, c, x) = CfgGoal(c, k) BY <2>3, GoalIs
    <2> QED BY <1>1, <2>1, <2>4
  <1>4. ASSUME NEW j, NEW u, IsItem(j, u), j # i, NEW x \in Foot(j), Label(x[1]) \in PinKinds
        PROVE  Ends(g, x, "keep")
    <2>1. j[1] = "cfg" BY <1>4, FootLabel
    <2>2. j = <<"cfg", j[2]>> /\ j[2] \in Pins12 BY <1>4, <2>1, ItemIs
    <2>3. PICK k \in PinKinds : x = Place(k, Hidden(j[2])) BY <1>4, <2>1, FootIs
    <2>4. j[2] # p BY <1>4, <2>2
    <2> QED BY <1>1, <2>2, <2>3, <2>4
  <1>5. Done(g, i, c) BY <1>3 DEF Done
  <1> HIDE DEF i
  <1>6. Does(g, {<<i, c>>}) BY <1>1, <1>2, <1>4, <1>5, DoesOne
  <1> QED BY <1>6 DEF g, i
-----------------------------------------------------------------------------
(***************************************************************************)
(* What the services of links and clocks do.                               *)
(***************************************************************************)
LEMMA Pair ==
    ASSUME NEW a, NEW b
    PROVE  <<a, b>> = <<a>> \o <<b>>
  <1> DEFINE s == <<a>>
             t == <<b>>
             u == s \o t
  <1>1. Prog(s) /\ Prog(t) /\ Len(s) = 1 /\ Len(t) = 1 /\ s[1] = a /\ t[1] = b BY One1
  <1> HIDE DEF s, t
  <1>2. /\ Prog(u) /\ DOMAIN u = 1..(Len(s) + Len(t))
        /\ \A i \in 1..(Len(s) + Len(t)) : u[i] = IF i <= Len(s) THEN s[i] ELSE t[i - Len(s)]
    BY <1>1, ProgJoin
  <1> HIDE DEF u
  <1>3. DOMAIN u = 1..2 /\ u[1] = a /\ u[2] = b BY <1>1, <1>2
  <1>4. u = [i \in 1..2 |-> u[i]]
    <2>1. u \in Seq({u[i] : i \in DOMAIN u}) BY <1>2 DEF Prog
    <2> QED BY <1>3, <2>1
  <1>5. <<a, b>> = [i \in 1..2 |-> IF i = 1 THEN a ELSE b]
    OBVIOUS
  <1>6. \A i \in 1..2 : u[i] = IF i = 1 THEN a ELSE b BY <1>3
  <1>7. u = <<a, b>> BY <1>4, <1>5, <1>6
  <1> QED BY <1>7 DEF s, t, u

LEMMA DoesBeside ==
    ASSUME NEW p, NEW q, NEW W, Aside(p), Does(q, W)
    PROVE  Does(p \o q, W) /\ Does(q \o p, W)
  <1>1. Does(p, {}) BY DoesNothing
  <1>2. /\ \A w \in W : w \in W \/ (w \in {} /\ \A u \in W : u[1] # w[1])
        /\ \A w \in W : w \in {} \/ (w \in W /\ \A u \in {} : u[1] # w[1])
        /\ \A u \in {} \cup W : \E w \in W : w[1] = u[1]
        /\ \A u \in W \cup {} : \E w \in W : w[1] = u[1]
    OBVIOUS
  <1>3. Does(p \o q, W) BY <1>1, <1>2, DoesJoin
  <1>4. Does(q \o p, W) BY <1>1, <1>2, DoesJoin
  <1> QED BY <1>3, <1>4

\* One access that decides one item of a kind of registers.
LEMMA DoesAccess ==
    ASSUME NEW a, NEW kind, FitsIn(a, {kind}), NEW i, NEW v, IsItem(i, v),
           \A x \in Foot(i) : Effect(a, x) = Goal(i, v, x),
           \A j, u : IsItem(j, u) /\ j # i =>
               \A x \in Foot(j) : Label(x[1]) = kind => Effect(a, x) = "keep"
    PROVE  Does(<<a>>, {<<i, v>>})
  <1>1. WritesIn(<<a>>, {kind}) BY In1
  <1>2. \A x : Ends(<<a>>, x, Effect(a, x)) BY EndsOne
  <1>3. Done(<<a>>, i, v) BY <1>2 DEF Done
  <1>4. \A j, u : IsItem(j, u) /\ j # i =>
            \A x \in Foot(j) : Label(x[1]) \in {kind} => Ends(<<a>>, x, "keep")
    <2> SUFFICES ASSUME NEW j, NEW u, IsItem(j, u), j # i, NEW x \in Foot(j), Label(x[1]) = kind
                 PROVE  Ends(<<a>>, x, "keep")
      OBVIOUS
    <2>1. Effect(a, x) = "keep"
      OBVIOUS
    <2> QED BY <1>2, <2>1
  <1> QED BY <1>1, <1>3, <1>4, DoesOne

LEMMA EtxBitIs ==
    \A i \in 0..6 : /\ EtxBit(i)[2] \in Byte /\ EtxBit(i)[1][1] = "EPTXENABLE"
                    /\ EtxBit(i) = <<<<"EPTXENABLE", EtxBit(i)[1][2]>>, EtxBit(i)[2]>>
                    /\ EtxBit(i)[1][2] = IF i \in 0..2 THEN 0 ELSE 1
                    /\ EtxBit(i)[2] = IF i \in 0..1 THEN i ELSE IF i = 2 THEN 4 ELSE IF i \in 3..4 THEN i - 3 ELSE i - 1
  <1> TAKE i \in 0..6
  <1> DEFINE m == MapEtx(i)
             r == <<"EPTXENABLE", m[1] \div 2>>
             b == 4 * (m[1] % 2) + m[2]
  <1>1. m = IF i = 0 THEN <<0, 0>> ELSE IF i = 1 THEN <<0, 1>> ELSE IF i = 2 THEN <<1, 0>>
            ELSE IF i = 3 THEN <<2, 0>> ELSE IF i = 4 THEN <<2, 1>> ELSE IF i = 5 THEN <<3, 0>> ELSE <<3, 1>>
    BY DEF MapEtx
  <1> HIDE DEF m
  <1>2. EtxBit(i) = <<r, b>> BY DEF EtxBit, m
  <1>3. r[1] = "EPTXENABLE" /\ r[2] = m[1] \div 2 /\ r = <<"EPTXENABLE", r[2]>>
    OBVIOUS
  <1>4. /\ m[1] = IF i \in 0..1 THEN 0 ELSE IF i = 2 THEN 1 ELSE IF i \in 3..4 THEN 2 ELSE 3
        /\ m[2] = IF i \in {1, 4, 6} THEN 1 ELSE 0
    BY <1>1
  <1>5. 0 \div 2 = 0 /\ 1 \div 2 = 0 /\ 2 \div 2 = 1 /\ 3 \div 2 = 1 /\ 0 % 2 = 0 /\ 1 % 2 = 1 /\ 2 % 2 = 0 /\ 3 % 2 = 1
    OBVIOUS
  <1>6. /\ m[1] \div 2 = IF i \in 0..2 THEN 0 ELSE 1
        /\ b = IF i \in 0..1 THEN i ELSE IF i = 2 THEN 4 ELSE IF i \in 3..4 THEN i - 3 ELSE i - 1
    BY <1>4, <1>5
  <1>7. b \in Byte BY <1>6 DEF Byte
  <1> HIDE DEF r, b
  <1> QED BY <1>2, <1>3, <1>6, <1>7

LEMMA EtxOne == \A i, j \in 0..6 : EtxBit(i) = EtxBit(j) => i = j
  <1> SUFFICES ASSUME NEW i \in 0..6, NEW j \in 0..6, EtxBit(i) = EtxBit(j) PROVE i = j
    OBVIOUS
  <1> DEFINE g(k) == IF k \in 0..2 THEN 0 ELSE 1
             b(k) == IF k \in 0..1 THEN k ELSE IF k = 2 THEN 4 ELSE IF k \in 3..4 THEN k - 3 ELSE k - 1
  <1>1. g(i) = g(j) /\ b(i) = b(j) BY EtxBitIs
  <1> QED BY <1>1

LEMMA SoleIs ==
    /\ Sole[1] = <<"EPTXPAIR", 2>> /\ Sole[1][1] = "EPTXPAIR" /\ Sole[2] = 3
    /\ InvertBit(2) = Sole
    /\ \A i \in 0..6 : Alone(i) => i = 2
    /\ \A i \in 0..6 : MapEtx(i)[1] * 2 + MapEtx(i)[2] \div 2 = 2 <=> i = 2
  <1> DEFINE m(i) == MapEtx(i)
             n(i) == InvertBit(i)[1][2]
  <1>1. \A i \in 0..6 : /\ m(i)[1] = IF i \in 0..1 THEN 0 ELSE IF i = 2 THEN 1 ELSE IF i \in 3..4 THEN 2 ELSE 3
                        /\ m(i)[2] = IF i \in {1, 4, 6} THEN 1 ELSE 0
    BY DEF MapEtx
  <1>2. \A i : n(i) = m(i)[1] * 2 /\ InvertBit(i)[1] = <<"EPTXPAIR", n(i)>> BY DEF InvertBit
  <1>3. InvertBit(2) = Sole
    <2>1. m(2)[1] * 2 = 2 /\ 4 * m(2)[2] + 3 = 3 BY <1>1
    <2> HIDE DEF m
    <2> QED BY <2>1 DEF InvertBit, Sole, m
  <1> HIDE DEF m, n
  <1>4. n(0) = n(1) /\ n(3) = n(4) /\ n(5) = n(6) BY <1>1, <1>2
  <1>5. ASSUME NEW i \in 0..6, i # 2 PROVE ~Alone(i)
    <2>1. \E j \in 0..6 : j # i /\ n(j) = n(i)
      <3>1. i = 0 \/ i = 1 \/ i = 3 \/ i = 4 \/ i = 5 \/ i = 6 BY <1>5
      <3> QED BY <1>4, <3>1
    <2> QED BY <1>2, <2>1 DEF Alone
  <1>6. \A i \in 0..6 : m(i)[1] * 2 + m(i)[2] \div 2 = 2 <=> i = 2
    <2>1. 0 \div 2 = 0 /\ 1 \div 2 = 0
      OBVIOUS
    <2>2. \A i \in 0..6 : m(i)[2] \div 2 = 0 BY <1>1, <2>1
    <2> QED BY <1>1, <2>2
  <1> QED BY <1>3, <1>5, <1>6 DEF m, Sole

LEMMA DoesEtx ==
    ASSUME NEW i \in 0..6, NEW enable \in BOOLEAN, NEW invert \in BOOLEAN, NEW drive
    PROVE  Does(SetupEtx(i, enable, invert, drive), {<<<<"etx", i>>, <<enable, invert>>>>})
  <1> DEFINE port == MapEtx(i)[1]
             pin == MapEtx(i)[2]
             r == EtxBit(i)[1]
             b == EtxBit(i)[2]
             o == <<"EPTXPAIR", port * 2 + pin \div 2>>
             z == 0..3
             n == Flag(invert, 3)
             a == IF enable THEN BitSet(r, b) ELSE BitClr(r, b)
             f == Put("EPTXDATARATE", Byte)
             g == Put("EPTXCONTROL", Bits(15))
             h == PutAt("EPTXCHN", port * 4 + pin, Bits(drive % 8))
             k == On(o, z, n)
             t == <<"etx", i>>
             v == <<enable, invert>>
             K == {"EPTXENABLE", "EPTXCHN", "EPTXPAIR"}
  <1>1. \/ enable /\ SetupEtx(i, enable, invert, drive) = <<f, g>> \o <<a, h, k>>
        \/ ~enable /\ SetupEtx(i, enable, invert, drive) = <<f, g>> \o <<a>>
    BY DEF SetupEtx
  <1>2. {"EPTXDATARATE", "EPTXCONTROL", "EPTXCHN"} \subseteq OtherKinds
    BY DEF OtherKinds
  <1>3. Aside(<<f, g>>)
    <2>1. FitsIn(f, OtherKinds) /\ FitsIn(g, OtherKinds) BY <1>2, PutAside
    <2> HIDE DEF f, g
    <2> QED BY <2>1, In2 DEF Aside
  <1>4. /\ b \in Byte /\ b \in Nat /\ b % 8 = b /\ r = <<"EPTXENABLE", r[2]>> /\ r[1] = "EPTXENABLE"
        /\ EtxBit(i) = <<r, b>>
    <2>1. b \in Byte /\ r = <<"EPTXENABLE", r[2]>> /\ r[1] = "EPTXENABLE" /\ EtxBit(i) = <<r, b>>
      BY EtxBitIs
    <2> HIDE DEF b
    <2> QED BY <2>1 DEF Byte
  \* What the accesses do to the bits of the links.
  <1>5. \A x : Effect(a, x) = IF x[1] = r /\ x[2] = b THEN To(enable) ELSE "keep"
    <2> HIDE DEF r, b
    <2> QED BY <1>4, BitIs DEF To
  <1>6. \A x : x[1][1] # "EPTXCHN" => Effect(h, x) = "keep"
    <2> DEFINE c == port * 4 + pin
               d == Bits(drive % 8)
    <2> HIDE DEF c, d
    <2>1. h = PutAt("EPTXCHN", c, d) BY DEF c, d
    <2>2. \A x : x[1] # <<"EPTXCHN", c>> => Effect(PutAt("EPTXCHN", c, d), x) = "keep"
      BY PutAtIs
    <2>3. <<"EPTXCHN", c>>[1] = "EPTXCHN"
      OBVIOUS
    <2>4. \A x : x[1][1] # "EPTXCHN" => x[1] # <<"EPTXCHN", c>>
      BY <2>3, Zenon
    <2> HIDE DEF h
    <2> QED BY <2>1, <2>2, <2>4
  <1>7. /\ \A x : x[1][1] # "EPTXPAIR" => Effect(k, x) = "keep"
        /\ Effect(k, Sole) = IF i = 2 THEN To(invert) ELSE "keep"
    <2>1. o[1] = "EPTXPAIR" /\ (o = Sole[1] <=> i = 2)
      <3> DEFINE c == port * 2 + pin \div 2
      <3>1. c = 2 <=> i = 2 BY SoleIs
      <3> HIDE DEF c
      <3>2. o = <<"EPTXPAIR", c>> BY DEF c
      <3> QED BY <3>1, <3>2, SoleIs
    <2>2. (Sole[2] \in n <=> invert) /\ Sole[2] \in z BY SoleIs DEF Flag
    <2> HIDE DEF o, n, z
    <2>3. \A x : Effect(k, x) = IF x[1] # o THEN "keep" ELSE IF x[2] \in n THEN "set"
                               ELSE IF x[2] \in z THEN "clear" ELSE "keep"
      BY OnIs
    <2> HIDE DEF k
    <2> QED BY <2>1, <2>2, <2>3 DEF To
  <1>8. FitsIn(a, K) /\ FitsIn(h, K) /\ FitsIn(k, K)
    <2>1. FitsIn(a, K)
      <3>1. Label(r) = "EPTXENABLE" BY <1>4, LabelIs
      <3> HIDE DEF r, b
      <3> QED BY <1>4, <3>1, BitIs
    <2>2. "EPTXCHN" \notin Slim /\ "EPTXPAIR" \notin Slim BY DEF Slim
    <2> HIDE DEF z, n
    <2> QED BY <2>1, <2>2, PutFits
  <1>9. Aside(<<h>>)
    <2>1. FitsIn(h, OtherKinds) BY <1>2, PutAside
    <2> HIDE DEF h
    <2> QED BY <2>1, In1 DEF Aside
  <1>10. /\ IsItem(t, v) /\ (\A x : Goal(t, v, x) = IF x[1][1] = "EPTXENABLE" THEN To(enable)
                                                   ELSE IF enable THEN To(invert) ELSE "any")
         /\ \A x \in Foot(t) : x = EtxBit(i) \/ (x = Sole /\ i = 2)
    BY FootIs, GoalIs DEF IsItem
  <1>11. ASSUME NEW j, NEW u, IsItem(j, u), j # t, NEW x \in Foot(j), Label(x[1]) \in K
         PROVE  x[1] = <<x[1][1], x[1][2]>> /\ x # EtxBit(i) /\ x = <<x[1], x[2]>>
                /\ x[1][1] # "EPTXCHN" /\ (x[1][1] = "EPTXPAIR" => x = Sole /\ i # 2)
    <2>1. Label(x[1]) # "EPTXCHN" BY <1>2, <1>11, FootLabel, KindsApart
    <2>2. j[1] = "etx" BY <1>11, <2>1, FootLabel
    <2>3. j = <<"etx", j[2]>> /\ j[2] \in 0..6 /\ (x = EtxBit(j[2]) \/ (x = Sole /\ j[2] = 2))
      BY <1>11, <2>2, ItemIs, FootIs
    <2>4. j[2] # i BY <1>11, <2>3
    <2>5. CASE x = EtxBit(j[2])
      <3>1. x # EtxBit(i) BY <2>3, <2>4, <2>5, EtxOne
      <3>2. x[1][1] = "EPTXENABLE" /\ x = <<<<"EPTXENABLE", x[1][2]>>, x[2]>> BY <2>3, <2>5, EtxBitIs
      <3> QED BY <3>1, <3>2
    <2>6. CASE x = Sole /\ j[2] = 2
      <3>1. x[1][1] = "EPTXPAIR" /\ x[1] = <<"EPTXPAIR", 2>> /\ x = <<x[1], x[2]>> BY <2>6, SoleIs DEF Sole
      <3>2. x # EtxBit(i) BY <1>4, <3>1
      <3> QED BY <2>4, <2>6, <3>1, <3>2
    <2> QED BY <2>3, <2>5, <2>6
  <1>12. EtxBit(i)[1] = r /\ EtxBit(i)[2] = b /\ EtxBit(i)[1][1] = "EPTXENABLE" /\ Sole[1] # r BY <1>4, SoleIs
  <1> HIDE DEF a, f, g, h, k, t, v, r, b, o, z, n
  <1>13. CASE ~enable
    <2>1. Does(<<a>>, {<<t, v>>})
      <3>1. WritesIn(<<a>>, K) BY <1>8, In1
      <3>2. \A x : Ends(<<a>>, x, Effect(a, x)) BY EndsOne
      <3>3. Done(<<a>>, t, v) BY <1>5, <1>10, <1>12, <1>13, <3>2, SoleIs DEF Done
      <3>4. \A j, u : IsItem(j, u) /\ j # t => \A x \in Foot(j) : Label(x[1]) \in K => Ends(<<a>>, x, "keep")
        <4> SUFFICES ASSUME NEW j, NEW u, IsItem(j, u), j # t, NEW x \in Foot(j), Label(x[1]) \in K
                     PROVE  Ends(<<a>>, x, "keep")
          OBVIOUS
        <4>1. x # EtxBit(i) /\ x = <<x[1], x[2]>> BY <1>11
        <4>2. Effect(a, x) = "keep" BY <1>4, <1>5, <4>1
        <4> QED BY <3>2, <4>2
      <3> QED BY <1>10, <3>1, <3>3, <3>4, DoesOne
    <2>2. Does(<<f, g>> \o <<a>>, {<<t, v>>}) BY <1>3, <2>1, DoesBeside
    <2> QED BY <1>1, <1>13, <2>2 DEF t, v
  <1>14. CASE enable
    <2> DEFINE p == <<a, h, k>>
    <2>1. WritesIn(p, K) BY <1>8, In3
    <2>2. ASSUME NEW x, x[1][1] # "EPTXCHN"
          PROVE  Ends(p, x, IF Effect(k, x) # "keep" THEN Effect(k, x) ELSE Effect(a, x))
      <3>1. Effect(h, x) = "keep" BY <1>6, <2>2
      <3>2. WritesIn(<<a>>, K) /\ WritesIn(<<h, k>>, K) BY <1>8, In1, In2
      <3>3. Prog(<<a>>) /\ Prog(<<h, k>>) /\ p = <<a>> \o <<h, k>>
        <4>1. p = <<a>> \o <<h, k>>
          OBVIOUS
        <4> QED BY <3>2, <4>1 DEF WritesIn
      <3>4. Ends(<<a>>, x, Effect(a, x)) BY EndsOne
      <3>5. Ends(<<h, k>>, x, Effect(k, x)) BY <3>1, EndsTwo
      <3> HIDE DEF p
      <3> QED BY <3>3, <3>4, <3>5, EndsJoin
    <2> HIDE DEF p
    <2>3. Done(p, t, v)
      <3>1. Ends(p, EtxBit(i), To(enable)) BY <1>5, <1>7, <1>12, <2>2
      <3>2. i = 2 => Ends(p, Sole, To(invert)) BY <1>7, <2>2, SoleIs, ToIs
      <3> QED BY <1>10, <1>12, <1>14, <3>1, <3>2, SoleIs DEF Done
    <2>4. \A j, u : IsItem(j, u) /\ j # t => \A x \in Foot(j) : Label(x[1]) \in K => Ends(p, x, "keep")
      <3> SUFFICES ASSUME NEW j, NEW u, IsItem(j, u), j # t, NEW x \in Foot(j), Label(x[1]) \in K
                   PROVE  Ends(p, x, "keep")
        OBVIOUS
      <3>1. /\ x # EtxBit(i) /\ x = <<x[1], x[2]>> /\ x[1][1] # "EPTXCHN"
            /\ x[1][1] = "EPTXPAIR" => x = Sole /\ i # 2
        BY <1>11
      <3>2. Effect(a, x) = "keep" BY <1>4, <1>5, <3>1
      <3>3. Effect(k, x) = "keep" BY <1>7, <3>1
      <3> QED BY <2>2, <3>1, <3>2, <3>3
    <2>5. Does(p, {<<t, v>>}) BY <1>10, <2>1, <2>3, <2>4, DoesOne
    <2>6. Does(<<f, g>> \o p, {<<t, v>>}) BY <1>3, <2>5, DoesBeside
    <2> QED BY <1>1, <1>14, <2>6 DEF t, v, p
  <1> QED BY <1>13, <1>14

\* What is written to a receiver is on its two lowest bits.
LEMMA ReceiverOne ==
    /\ \A i, j \in 0..5 : Receiver(i) = Receiver(j) => i = j
    /\ \A i \in 0..5 : Label(Receiver(i)) = "EPRXCONTROL" /\ Receiver(i)[1] = "EPRXCONTROL"
    /\ \A i \in 0..5 : Receiver(i) = <<"EPRXCONTROL", IF i >= 3 THEN i + 1 ELSE i>>
  <1>1. \A i, j \in 0..5 : (IF i >= 3 THEN i + 1 ELSE i) = (IF j >= 3 THEN j + 1 ELSE j) => i = j
    OBVIOUS
  <1>2. \A i \in 0..5 : Label(Receiver(i)) = "EPRXCONTROL" /\ Receiver(i)[1] = "EPRXCONTROL"
    BY LabelIs DEF Receiver
  <1> QED BY <1>1, <1>2 DEF Receiver

LEMMA DoesReceiver ==
    ASSUME NEW i \in 0..5, NEW val, NEW v \in 0..1, \A b \in 0..1 : b \in val <=> b \in Bits(v)
    PROVE  Does(<<PutAt("EPRXCONTROL", IF i >= 3 THEN i + 1 ELSE i, val)>>, {<<<<"erx", i>>, v>>})
  <1> DEFINE a == PutAt("EPRXCONTROL", IF i >= 3 THEN i + 1 ELSE i, val)
             t == <<"erx", i>>
  <1>1. a = On(Receiver(i), Byte, val) BY ReceiverOne DEF PutAt
  <1>2. Label(Receiver(i)) = "EPRXCONTROL" /\ Receiver(i)[1] \notin Slim BY ReceiverOne DEF Slim
  <1>3. FitsIn(a, {"EPRXCONTROL"}) BY <1>1, <1>2, OnIs
  <1>4. \A x : Effect(a, x) = IF x[1] # Receiver(i) THEN "keep" ELSE IF x[2] \in val THEN "set"
                              ELSE IF x[2] \in Byte THEN "clear" ELSE "keep"
    BY <1>1, OnIs
  <1>5. IsItem(t, v) BY DEF IsItem
  <1> HIDE DEF a
  <1>6. ASSUME NEW x \in Foot(t) PROVE Effect(a, x) = Goal(t, v, x)
    <2>1. PICK b \in 0..1 : x = <<Receiver(i), b>> BY FootIs
    <2>2. b \in Byte /\ x[1] = Receiver(i) /\ x[2] = b BY <2>1 DEF Byte
    <2>3. Goal(t, v, x) = To(b \in Bits(v)) BY <2>2, GoalIs
    <2> QED BY <1>4, <2>2, <2>3 DEF To
  <1>7. ASSUME NEW j, NEW u, IsItem(j, u), j # t, NEW x \in Foot(j), Label(x[1]) = "EPRXCONTROL"
        PROVE  Effect(a, x) = "keep"
    <2>1. j[1] = "erx" BY <1>7, FootLabel
    <2>2. j = <<"erx", j[2]>> /\ j[2] \in 0..5 /\ x[1] = Receiver(j[2])
      BY <1>7, <2>1, ItemIs, FootIs
    <2> QED BY <1>4, <1>7, <2>2, ReceiverOne
  <1> HIDE DEF t
  <1>8. Does(<<a>>, {<<t, v>>}) BY <1>3, <1>5, <1>6, <1>7, DoesAccess
  <1> QED BY <1>8 DEF a, t

LEMMA LowBits ==
    /\ 0 \notin Bits(0) /\ 1 \notin Bits(0)
    /\ 0 \in Bits(1) /\ 1 \notin Bits(1)
    /\ 0 \notin Bits(12) /\ 1 \notin Bits(12)
    /\ 0 \in Bits(13) /\ 1 \notin Bits(13)
  <1>1. /\ (0 \div 1) % 2 = 0 /\ (0 \div 2) % 2 = 0 /\ (1 \div 1) % 2 = 1 /\ (1 \div 2) % 2 = 0
        /\ (12 \div 1) % 2 = 0 /\ (12 \div 2) % 2 = 0 /\ (13 \div 1) % 2 = 1 /\ (13 \div 2) % 2 = 0
    OBVIOUS
  <1>2. <<1, 2, 4, 8, 16, 32, 64, 128>>[0 + 1] = 1 /\ <<1, 2, 4, 8, 16, 32, 64, 128>>[1 + 1] = 2
    OBVIOUS
  <1> QED BY <1>1, <1>2 DEF Bits, Byte

LEMMA DoesErx ==
    ASSUME NEW i \in 0..5, NEW invert, NEW term
    PROVE  Does(SetupErx(i, 0, 0, 3, invert, term), {<<<<"erx", i>>, 0>>})
  <1> DEFINE irx == IF i >= 3 THEN i + 1 ELSE i
             val == {4} \cup Bits(12)
             a == PutAt("EPRXCONTROL", irx, val)
             b == PutAt("EPRXCHN", 4 * irx, Bits(16 * (0 % 16)) \cup Flag(invert, 3) \cup Flag(term, 1))
  <1>1. 4 * (3 % 4) + (0 % 4) = 12
    OBVIOUS
  <1>2. SetupErx(i, 0, 0, 3, invert, term) = <<a, b>> BY <1>1 DEF SetupErx
  <1>3. \A c \in 0..1 : c \in val <=> c \in Bits(0)
    <2>1. \A c \in 0..1 : c = 0 \/ c = 1
      OBVIOUS
    <2> QED BY <2>1, LowBits
  <1> HIDE DEF val
  <1>4. Does(<<a>>, {<<<<"erx", i>>, 0>>})
    <2>1. 0 \in 0..1
      OBVIOUS
    <2>2. Does(<<PutAt("EPRXCONTROL", IF i >= 3 THEN i + 1 ELSE i, val)>>, {<<<<"erx", i>>, 0>>})
      BY <1>3, <2>1, DoesReceiver
    <2> QED BY <2>2
  <1>5. Aside(<<b>>)
    <2>1. "EPRXCHN" \in OtherKinds BY DEF OtherKinds
    <2>2. FitsIn(b, OtherKinds) BY <2>1, PutAside
    <2> HIDE DEF b
    <2> QED BY <2>2, In1 DEF Aside
  <1> HIDE DEF a, b
  <1>6. <<a, b>> = <<a>> \o <<b>> BY Pair
  <1> QED BY <1>2, <1>4, <1>5, <1>6, DoesBeside

LEMMA DoesPrbs ==
    ASSUME NEW i \in 0..2, NEW own \in BOOLEAN, NEW errors \in BOOLEAN
    PROVE  Does(CheckPrbsErrors(i, 0, own, 3, 4, errors), {<<<<"erx", i>>, 1>>})
  <1> DEFINE val == {4 + 0} \cup Bits(4 * 3 + 1)
             s == PutAt("EPRXCONTROL", i, val)
             o == Put("EPRXPRBS0", {0})
             O == IF own THEN <<o>> ELSE <<>>
             a == Put("EPRXTRAIN", {0})
             b == Put("EPRXTRAIN", {})
             c == Put("ULDATASOURCE1", {})
             d == Put("BERTSOURCE", Bits(16 * (i + 1) + 6))
             e == Put("BERTCONFIG", {})
             f == Put("BERTCONFIG", Bits(16 * 4 + 1))
             p == <<a, b, c, d, e, f, Poll>>
             q == <<a, b, c, d, e, f>>
             x == Put("EPRXPRBS0", {})
             E == IF errors THEN <<e>> ELSE <<>>
             z == <<e, x, c>>
             W == {<<<<"erx", i>>, 1>>}
  <1>1. CheckPrbsErrors(i, 0, own, 3, 4, errors) = (((<<s>> \o O) \o p) \o E) \o z
    BY DEF CheckPrbsErrors
  <1>2. {"EPRXPRBS0", "EPRXTRAIN", "ULDATASOURCE1", "BERTSOURCE", "BERTCONFIG"} \subseteq OtherKinds
    BY DEF OtherKinds
  <1>3. /\ FitsIn(o, OtherKinds) /\ FitsIn(a, OtherKinds) /\ FitsIn(b, OtherKinds)
        /\ FitsIn(c, OtherKinds) /\ FitsIn(d, OtherKinds) /\ FitsIn(e, OtherKinds)
        /\ FitsIn(f, OtherKinds) /\ FitsIn(x, OtherKinds)
    BY <1>2, PutAside
  <1>4. Does(<<s>>, W)
    <2>1. \A k \in 0..1 : k \in val <=> k \in Bits(1)
      <3>1. 4 * 3 + 1 = 13 /\ 4 + 0 = 4 /\ \A k \in 0..1 : k = 0 \/ k = 1
        OBVIOUS
      <3> QED BY <3>1, LowBits
    <2>2. i \in 0..5 /\ 1 \in 0..1 /\ i = IF i >= 3 THEN i + 1 ELSE i
      OBVIOUS
    <2> HIDE DEF val
    <2>3. Does(<<PutAt("EPRXCONTROL", IF i >= 3 THEN i + 1 ELSE i, val)>>, {<<<<"erx", i>>, 1>>})
      BY <2>1, <2>2, DoesReceiver
    <2> QED BY <2>2, <2>3
  <1> HIDE DEF s, o, a, b, c, d, e, f, x, W
  <1>5. Aside(O) /\ Aside(E) /\ Aside(z) BY <1>3, In1, In3, InNone DEF Aside
  <1>6. Aside(p)
    <2>1. p = q \o <<Poll>>
      OBVIOUS
    <2>2. WritesIn(q, OtherKinds) /\ WritesIn(<<Poll>>, OtherKinds) BY <1>3, In1, In6, PollFits
    <2> HIDE DEF p, q
    <2> QED BY <2>1, <2>2, InJoin DEF Aside
  <1> HIDE DEF O, E, p, z
  <1> DEFINE q1 == <<s>> \o O
             q2 == q1 \o p
             q3 == q2 \o E
  <1>7. Does(q1, W) BY <1>4, <1>5, DoesBeside
  <1> HIDE DEF q1
  <1>8. Does(q2, W) BY <1>6, <1>7, DoesBeside
  <1> HIDE DEF q2
  <1>9. Does(q3, W) BY <1>5, <1>8, DoesBeside
  <1> HIDE DEF q3
  <1>10. Does(q3 \o z, W) BY <1>5, <1>9, DoesBeside
  <1> QED BY <1>1, <1>10 DEF q1, q2, q3, W

LEMMA EclkOne == \A i, j \in 0..7 : 2 * MapEclk(i) = 2 * MapEclk(j) => i = j
  <1> SUFFICES ASSUME NEW i \in 0..7, NEW j \in 0..7, 2 * MapEclk(i) = 2 * MapEclk(j) PROVE i = j
    OBVIOUS
  <1> DEFINE g(k) == IF k = 0 THEN 28 ELSE IF k = 1 THEN 6 ELSE IF k = 2 THEN 4 ELSE IF k = 3 THEN 1
                     ELSE IF k = 4 THEN 19 ELSE IF k = 5 THEN 21 ELSE IF k = 6 THEN 27 ELSE 25
  <1>1. \A k \in 0..7 : MapEclk(k) = g(k) BY DEF MapEclk
  <1>2. g(i) = g(j) BY <1>1
  <1> QED BY <1>2

LEMMA DoesEclk ==
    ASSUME NEW i \in 0..7, NEW rate
    PROVE  Does(SetupEclk(i, rate), {<<<<"eclk", i>>, rate>>})
  <1> DEFINE val == Bits(RateCode(rate) + 32)
             k == 2 * MapEclk(i)
             a == PutAt("ECLK", k, val)
             t == <<"eclk", i>>
  <1>1. SetupEclk(i, rate) = <<a>> BY DEF SetupEclk
  <1>2. val \subseteq Byte BY BitsByte
  <1>3. \A j \in 0..7 : 2 * MapEclk(j) = k => j = i BY EclkOne
  <1>4. IsItem(t, rate) BY DEF IsItem
  <1>5. \A y : Goal(t, rate, y) = To(y[2] \in val) BY GoalIs
  <1>6. Foot(t) = {<<<<"ECLK", k>>, b>> : b \in Byte} BY FootIs
  <1> HIDE DEF val, k
  <1>7. FitsIn(a, {"ECLK"})
    <2>1. a = On(<<"ECLK", k>>, Byte, val) /\ Label(<<"ECLK", k>>) = "ECLK" BY LabelIs DEF PutAt
    <2> HIDE DEF a
    <2> QED BY <1>2, <2>1, OnIs
  <1>8. \A y : Effect(a, y) = IF y[1] # <<"ECLK", k>> THEN "keep" ELSE IF y[2] \in val THEN "set"
                              ELSE IF y[2] \in Byte THEN "clear" ELSE "keep"
    <2> TAKE y
    <2>1. a = On(<<"ECLK", k>>, Byte, val) BY DEF PutAt
    <2> QED BY <2>1, OnIs
  <1> HIDE DEF a
  <1>9. ASSUME NEW y \in Foot(t) PROVE Effect(a, y) = Goal(t, rate, y) BY <1>5, <1>6, <1>8 DEF To
  <1>10. ASSUME NEW j, NEW u, IsItem(j, u), j # t, NEW y \in Foot(j), Label(y[1]) = "ECLK"
         PROVE  Effect(a, y) = "keep"
    <2>1. j[1] = "eclk" BY <1>10, FootLabel
    <2>2. j = <<"eclk", j[2]>> /\ j[2] \in 0..7 /\ y[1] = <<"ECLK", 2 * MapEclk(j[2])>>
      BY <1>10, <2>1, ItemIs, FootIs
    <2>3. 2 * MapEclk(j[2]) # k BY <1>3, <1>10, <2>2
    <2> QED BY <1>8, <2>2, <2>3
  <1> HIDE DEF t
  <1>11. Does(<<a>>, {<<t, rate>>}) BY <1>4, <1>7, <1>9, <1>10, DoesAccess
  <1> QED BY <1>1, <1>11 DEF t

\* Two words of the tester with a field for each link.
LEMMA DoesField ==
    ASSUME NEW name \in {"UPLINK_PHASE", "UPLINK_PATTERN"}, NEW kind, NEW i \in {0, 1, 5}, NEW v,
           NEW w \in {4, 5}, NEW more, more \cap UNION {Field(j, w) : j \in {0, 1, 5}} = {},
           NEW val, val \subseteq Field(i, w),
           IsItem(<<kind, i>>, v),
           \A x : Goal(<<kind, i>>, v, x) = To(x[2] \in val),
           \A j, u : /\ IsItem(j, u) /\ (\E x \in Foot(j) : Label(x[1]) = name) =>
                           j = <<kind, j[2]>> /\ j[2] \in {0, 1, 5}
                     /\ IsItem(j, u) /\ j[1] = kind => Foot(j) = {<<R(name), b>> : b \in Field(j[2], w)}
    PROVE  Does(<<On(R(name), Field(i, w) \cup more, val)>>, {<<<<kind, i>>, v>>})
  <1> DEFINE mask == Field(i, w) \cup more
             a == On(R(name), mask, val)
             t == <<kind, i>>
  <1>1. name \notin Slim /\ name # "EPRXCONTROL" /\ Label(R(name)) = name /\ R(name)[1] = name
    BY DEF Slim, Label, R
  <1>2. FitsIn(a, {name}) BY <1>1, OnIs
  <1>3. \A x : Effect(a, x) = IF x[1] # R(name) THEN "keep" ELSE IF x[2] \in val THEN "set"
                              ELSE IF x[2] \in mask THEN "clear" ELSE "keep"
    BY OnIs
  <1>4. \A j \in {0, 1, 5} : j # i => Field(j, w) \cap Field(i, w) = {} BY DEF Field
  <1>5. \A j \in {0, 1, 5} : j # i => Field(j, w) \cap (mask \cup val) = {} BY <1>4
  <1> HIDE DEF a
  <1>6. ASSUME NEW x \in Foot(t) PROVE Effect(a, x) = Goal(t, v, x)
    <2>1. t[1] = kind /\ t[2] = i
      OBVIOUS
    <2>2. PICK b \in Field(i, w) : x = <<R(name), b>> BY <2>1
    <2> QED BY <1>3, <2>2 DEF To
  <1> HIDE DEF mask
  <1>7. ASSUME NEW j, NEW u, IsItem(j, u), j # t, NEW x \in Foot(j), Label(x[1]) = name
        PROVE  Effect(a, x) = "keep"
    <2>1. j = <<kind, j[2]>> /\ j[2] \in {0, 1, 5} BY <1>7
    <2>2. j[1] = kind /\ j[2] # i BY <1>7, <2>1
    <2>3. Foot(j) = {<<R(name), b>> : b \in Field(j[2], w)} BY <1>7, <2>2
    <2>4. x[1] = R(name) /\ x[2] \in Field(j[2], w) BY <1>7, <2>3
    <2> QED BY <1>3, <1>5, <2>1, <2>2, <2>4
  <1> HIDE DEF t
  <1>8. Does(<<a>>, {<<t, v>>}) BY <1>2, <1>6, <1>7, DoesAccess DEF t
  <1> QED BY <1>8 DEF a, t, mask

LEMMA FieldBits ==
    /\ \A ph \in {3, 31}, i \in {0, 1, 5} : {b + 5 * i : b \in Bits(ph)} \subseteq Field(i, 5)
    /\ \A n \in {1, 15}, i \in {0, 1, 5} : {b + 4 * i : b \in Bits(n)} \subseteq Field(i, 4)
    /\ 31 \notin Field(0, 5) /\ 31 \notin Field(1, 5) /\ 31 \notin Field(5, 5)
  <1>1. \A b \in 5..7 : <<1, 2, 4, 8, 16, 32, 64, 128>>[b + 1] \in {32, 64, 128}
    OBVIOUS
  <1>2. <<1, 2, 4, 8, 16, 32, 64, 128>>[4 + 1] = 16
    OBVIOUS
  <1>3. \A k \in {32, 64, 128} : 3 \div k = 0 /\ 31 \div k = 0 /\ 1 \div k = 0 /\ 15 \div k = 0
    OBVIOUS
  <1>4. 1 \div 16 = 0 /\ 15 \div 16 = 0 /\ 0 % 2 = 0
    OBVIOUS
  <1>5. \A n \in {1, 3, 15, 31} : Bits(n) \subseteq 0..4
    <2> SUFFICES ASSUME NEW n \in {1, 3, 15, 31}, NEW b \in Bits(n), b \notin 0..4 PROVE FALSE
      OBVIOUS
    <2>1. b \in 5..7 /\ (n \div <<1, 2, 4, 8, 16, 32, 64, 128>>[b + 1]) % 2 = 1 BY DEF Bits, Byte
    <2>2. n \div <<1, 2, 4, 8, 16, 32, 64, 128>>[b + 1] = 0 BY <1>1, <1>3, <2>1
    <2> QED BY <1>4, <2>1, <2>2
  <1>6. \A n \in {1, 15} : Bits(n) \subseteq 0..3
    <2> SUFFICES ASSUME NEW n \in {1, 15}, NEW b \in Bits(n), b = 4 PROVE FALSE BY <1>5
    <2>1. (n \div <<1, 2, 4, 8, 16, 32, 64, 128>>[b + 1]) % 2 = 1 BY DEF Bits
    <2> QED BY <1>2, <1>4, <2>1
  <1>7. \A ph \in {3, 31}, i \in {0, 1, 5} : {b + 5 * i : b \in Bits(ph)} \subseteq Field(i, 5)
    BY <1>5 DEF Field
  <1>8. \A n \in {1, 15}, i \in {0, 1, 5} : {b + 4 * i : b \in Bits(n)} \subseteq Field(i, 4)
    BY <1>6 DEF Field
  <1> QED BY <1>7, <1>8 DEF Field

LEMMA DoesPhase ==
    ASSUME NEW i \in {0, 1, 5}, NEW ph \in {3, 31}
    PROVE  Does(<<On(R("WIRED_DELAY"), 7..24, {b + 16 : b \in Bits(ph)} \cup {b + 7 : b \in Bits(ph)}),
                  On(R("UPLINK_PHASE"), Field(i, 5) \cup {31}, {b + 5 * i : b \in Bits(ph)})>>,
                {<<<<"phase", i>>, ph>>})
  <1> DEFINE a == On(R("WIRED_DELAY"), 7..24, {b + 16 : b \in Bits(ph)} \cup {b + 7 : b \in Bits(ph)})
             val == {b + 5 * i : b \in Bits(ph)}
             more == {31}
             b == On(R("UPLINK_PHASE"), Field(i, 5) \cup more, val)
  <1>1. Aside(<<a>>)
    <2>1. "WIRED_DELAY" \in OtherKinds BY DEF OtherKinds
    <2>2. FitsIn(a, OtherKinds) BY <2>1, PutAside
    <2> HIDE DEF a
    <2> QED BY <2>2, In1 DEF Aside
  <1>2. val \subseteq Field(i, 5) /\ more \cap UNION {Field(j, 5) : j \in {0, 1, 5}} = {}
    BY FieldBits
  <1>3. \A x : Goal(<<"phase", i>>, ph, x) = To(x[2] \in val) BY GoalIs
  <1> HIDE DEF val, more
  <1>4. IsItem(<<"phase", i>>, ph) BY DEF IsItem
  <1>5. \A j, u : /\ IsItem(j, u) /\ (\E x \in Foot(j) : Label(x[1]) = "UPLINK_PHASE") =>
                        j = <<"phase", j[2]>> /\ j[2] \in {0, 1, 5}
                  /\ IsItem(j, u) /\ j[1] = "phase" => Foot(j) = {<<R("UPLINK_PHASE"), c>> : c \in Field(j[2], 5)}
    <2> TAKE j, u
    <2>1. IsItem(j, u) /\ (\E x \in Foot(j) : Label(x[1]) = "UPLINK_PHASE") => j[1] = "phase"
      BY FootLabel
    <2> QED BY <2>1, ItemIs, FootIs
  <1>6. Does(<<b>>, {<<<<"phase", i>>, ph>>}) BY <1>2, <1>3, <1>4, <1>5, DoesField
  <1> HIDE DEF a, b
  <1>7. Does(<<a, b>>, {<<<<"phase", i>>, ph>>}) BY <1>1, <1>6, Pair, DoesBeside
  <1> QED BY <1>7 DEF a, b, val, more

LEMMA DoesPattern ==
    ASSUME NEW i \in {0, 1, 5}, NEW n \in {1, 15}
    PROVE  Does(<<On(R("UPLINK_PATTERN"), Field(i, 4), {b + 4 * i : b \in Bits(n)})>>,
                {<<<<"pattern", i>>, n>>})
  <1> DEFINE val == {b + 4 * i : b \in Bits(n)}
             more == {}
  <1>1. val \subseteq Field(i, 4) /\ more \cap UNION {Field(j, 4) : j \in {0, 1, 5}} = {}
    BY FieldBits
  <1>2. \A x : Goal(<<"pattern", i>>, n, x) = To(x[2] \in val) BY GoalIs
  <1>3. Field(i, 4) \cup more = Field(i, 4)
    OBVIOUS
  <1> HIDE DEF val, more
  <1>4. IsItem(<<"pattern", i>>, n) BY DEF IsItem
  <1>5. \A j, u : /\ IsItem(j, u) /\ (\E x \in Foot(j) : Label(x[1]) = "UPLINK_PATTERN") =>
                        j = <<"pattern", j[2]>> /\ j[2] \in {0, 1, 5}
                  /\ IsItem(j, u) /\ j[1] = "pattern" => Foot(j) = {<<R("UPLINK_PATTERN"), c>> : c \in Field(j[2], 4)}
    <2> TAKE j, u
    <2>1. IsItem(j, u) /\ (\E x \in Foot(j) : Label(x[1]) = "UPLINK_PATTERN") => j[1] = "pattern"
      BY FootLabel
    <2> QED BY <2>1, ItemIs, FootIs
  <1>6. Does(<<On(R("UPLINK_PATTERN"), Field(i, 4) \cup more, val)>>, {<<<<"pattern", i>>, n>>})
    BY <1>1, <1>2, <1>4, <1>5, DoesField
  <1> QED BY <1>3, <1>6 DEF val
-----------------------------------------------------------------------------
(***************************************************************************)
(* What is done to the pins of the converters of the test board.           *)
(***************************************************************************)
Later(v, w) == IF w # "keep" THEN w ELSE v

LEMMA EndsMore ==
    ASSUME NEW p, Prog(p), NEW a, NEW x, NEW v, Ends(p, x, v)
    PROVE  Prog(p \o <<a>>) /\ Ends(p \o <<a>>, x, Later(v, Effect(a, x)))
  <1>1. Prog(<<a>>) BY One1
  <1>2. Ends(<<a>>, x, Effect(a, x)) BY EndsOne
  <1> DEFINE w == Effect(a, x)
             q == <<a>>
  <1> HIDE DEF w, q
  <1>3. Prog(q) /\ Ends(q, x, w) BY <1>1, <1>2 DEF w, q
  <1>4. Prog(p \o q) BY <1>3, ProgJoin
  <1>5. w # "keep" => Ends(p \o q, x, w) BY <1>3, EndsJoin
  <1>6. w = "keep" => Ends(p \o q, x, v) BY <1>3, EndsJoin
  <1> QED BY <1>4, <1>5, <1>6 DEF Later, w, q

LEMMA EndsFew ==
    ASSUME NEW x, NEW a, NEW b, NEW c, NEW d, NEW e, NEW f
    PROVE  LET v == Later(Later(Later(Effect(a, x), Effect(b, x)), Effect(c, x)), Effect(d, x))
           IN  /\ Ends(<<a, b, c, d>>, x, v)
               /\ Ends(<<a, b, c, d, e>>, x, Later(v, Effect(e, x)))
               /\ Ends(<<a, b, c, d, e, f>>, x, Later(Later(v, Effect(e, x)), Effect(f, x)))
  <1>1. Ends(<<a>>, x, Effect(a, x)) /\ Prog(<<a>>) BY EndsOne, One1
  <1>2. <<a, b>> = <<a>> \o <<b>> BY Pair
  <1>3. /\ <<a, b, c>> = <<a, b>> \o <<c>> /\ <<a, b, c, d>> = <<a, b, c>> \o <<d>>
        /\ <<a, b, c, d, e>> = <<a, b, c, d>> \o <<e>>
        /\ <<a, b, c, d, e, f>> = <<a, b, c, d, e>> \o <<f>>
    <2>1. <<a, b, c>> = <<a, b>> \o <<c>>
      OBVIOUS
    <2>2. <<a, b, c, d>> = <<a, b, c>> \o <<d>>
      OBVIOUS
    <2>3. <<a, b, c, d, e>> = <<a, b, c, d>> \o <<e>>
      OBVIOUS
    <2>4. <<a, b, c, d, e, f>> = <<a, b, c, d, e>> \o <<f>>
      OBVIOUS
    <2> QED BY <2>1, <2>2, <2>3, <2>4
  <1> DEFINE v2 == Later(Effect(a, x), Effect(b, x))
             v3 == Later(v2, Effect(c, x))
             v4 == Later(v3, Effect(d, x))
             v5 == Later(v4, Effect(e, x))
             v6 == Later(v5, Effect(f, x))
             s2 == <<a, b>>
             s3 == <<a, b, c>>
             s4 == <<a, b, c, d>>
             s5 == <<a, b, c, d, e>>
             s6 == <<a, b, c, d, e, f>>
  <1>4. s2 = <<a>> \o <<b>> /\ s3 = s2 \o <<c>> /\ s4 = s3 \o <<d>> /\ s5 = s4 \o <<e>> /\ s6 = s5 \o <<f>>
    BY <1>2, <1>3
  <1> HIDE DEF s2, s3, s4, s5, s6
  <1>5. Prog(s2) /\ Ends(s2, x, v2) BY <1>1, <1>4, EndsMore
  <1> HIDE DEF v2
  <1>6. Prog(s3) /\ Ends(s3, x, v3) BY <1>4, <1>5, EndsMore
  <1> HIDE DEF v3
  <1>7. Prog(s4) /\ Ends(s4, x, v4) BY <1>4, <1>6, EndsMore
  <1> HIDE DEF v4
  <1>8. Prog(s5) /\ Ends(s5, x, v5) BY <1>4, <1>7, EndsMore
  <1> HIDE DEF v5
  <1>9. Prog(s6) /\ Ends(s6, x, v6) BY <1>4, <1>8, EndsMore
  <1> QED BY <1>7, <1>8, <1>9 DEF s4, s5, s6, v2, v3, v4, v5, v6

LEMMA SetupModeEnds ==
    ASSUME NEW d \in 0..1, NEW p \in Byte, NEW m \in DOMAIN Modes
    PROVE  WritesIn(SetupMode(d, p, m), BoardKinds) /\ ModeEnds(SetupMode(d, p, m), d, p, m)
  <1> DEFINE on(k) == Set1(k, d, p)
             drop(k) == Clr1(k, d, p)
             z == PutAt("DAC", 8 * d + p, {})
  <1>1. p \in Nat /\ p % 8 = p BY DEF Byte
  <1>2. \A k \in ModeKinds \cup {"PULLDOWN"} : FitsIn(on(k), BoardKinds) /\ FitsIn(drop(k), BoardKinds)
    <2> TAKE k \in ModeKinds \cup {"PULLDOWN"}
    <2>1. k \notin Slim /\ k # "EPRXCONTROL" /\ k \in BoardKinds BY DEF ModeKinds, Slim, BoardKinds
    <2> QED BY <2>1, PutFits DEF Set1, Clr1
  <1>3. FitsIn(z, BoardKinds)
    <2>1. "DAC" \notin Slim /\ "DAC" # "EPRXCONTROL" /\ "DAC" \in BoardKinds BY DEF Slim, BoardKinds
    <2> QED BY <2>1, PutFits
  <1>4. \A k \in ModeKinds \cup {"PULLDOWN"} : \A x :
            /\ Effect(on(k), x) = IF x[1] = <<k, d>> /\ x[2] = p THEN "set" ELSE "keep"
            /\ Effect(drop(k), x) = IF x[1] = <<k, d>> /\ x[2] = p THEN "clear" ELSE "keep"
    BY <1>1, BitIs DEF Set1, Clr1
  <1>5. \A x : x[1][1] \in ModeKinds => Effect(z, x) = "keep"
    <2> TAKE x
    <2>1. z = On(<<"DAC", 8 * d + p>>, Byte, {}) BY DEF PutAt
    <2>2. x[1][1] \in ModeKinds => x[1] # <<"DAC", 8 * d + p>> BY DEF ModeKinds
    <2> QED BY <2>1, <2>2, OnIs
  <1>6. /\ ClearPin(d, p) = <<drop("GPO_ENABLE"), drop("GPI_ENABLE"), drop("ADC_PIN"), drop("DAC_PIN")>>
        /\ SetupGpi(d, p) = <<drop("GPO_ENABLE"), drop("ADC_PIN"), drop("DAC_PIN"), on("GPI_ENABLE"), drop("PULLDOWN")>>
        /\ SetupGpo(d, p, 0) = <<drop("GPI_ENABLE"), drop("ADC_PIN"), drop("DAC_PIN"), drop("GPO_WRITE"), on("GPO_ENABLE")>>
        /\ SetupGpo(d, p, 1) = <<drop("GPI_ENABLE"), drop("ADC_PIN"), drop("DAC_PIN"), on("GPO_WRITE"), on("GPO_ENABLE")>>
        /\ SetupDac(d, p) = <<drop("GPO_ENABLE"), drop("GPI_ENABLE"), on("ADC_PIN"), on("PULLDOWN"), z, on("DAC_PIN")>>
        /\ SetupAdc(d, p) = <<drop("DAC_PIN"), drop("GPI_ENABLE"), drop("GPO_ENABLE"), drop("PULLDOWN"), on("ADC_PIN")>>
    BY DEF ClearPin, SetupGpi, SetupGpo, SetupDac, SetupAdc
  <1> HIDE DEF on, drop, z
  <1>7. m \in {"gpi", "gpo0", "gpo1", "adc", "dac", "clear"} BY DEF Modes
  <1>8. /\ m = "gpi" => SetupMode(d, p, m) = SetupGpi(d, p)
        /\ m = "gpo0" => SetupMode(d, p, m) = SetupGpo(d, p, 0)
        /\ m = "gpo1" => SetupMode(d, p, m) = SetupGpo(d, p, 1)
        /\ m = "adc" => SetupMode(d, p, m) = SetupAdc(d, p)
        /\ m = "dac" => SetupMode(d, p, m) = SetupDac(d, p)
        /\ m = "clear" => SetupMode(d, p, m) = ClearPin(d, p)
    BY DEF SetupMode
  <1>9. ModeKinds = {"GPO_ENABLE", "GPI_ENABLE", "ADC_PIN", "DAC_PIN", "GPO_WRITE"} BY DEF ModeKinds
  <1>10. \A k, l : ModeGoal("clear", k) = (IF k = "GPO_WRITE" THEN "any" ELSE "clear")
                /\ ModeGoal("gpi", k) = (IF k = "GPO_WRITE" THEN "any" ELSE IF k = "GPI_ENABLE" THEN "set" ELSE "clear")
                /\ ModeGoal("gpo0", k) = (IF k = "GPO_WRITE" THEN "clear" ELSE IF k = "GPO_ENABLE" THEN "set" ELSE "clear")
                /\ ModeGoal("gpo1", k) = (IF k = "GPO_WRITE" THEN "set" ELSE IF k = "GPO_ENABLE" THEN "set" ELSE "clear")
                /\ ModeGoal("adc", k) = (IF k = "GPO_WRITE" THEN "any" ELSE IF k = "ADC_PIN" THEN "set" ELSE "clear")
                /\ ModeGoal("dac", k) = (IF k = "GPO_WRITE" THEN "any" ELSE IF k \in {"ADC_PIN", "DAC_PIN"} THEN "set" ELSE "clear")
    BY DEF ModeGoal, Modes, To
  <1>11. ASSUME NEW k \in ModeKinds, NEW e \in 0..1, NEW q \in Byte
         PROVE  LET x == <<<<k, e>>, q>>
                    s == SetupMode(d, p, m)
                IN  IF e = d /\ q = p THEN ModeGoal(m, k) = "any" \/ Ends(s, x, ModeGoal(m, k))
                    ELSE Ends(s, x, "keep")
    <2> DEFINE x == <<<<k, e>>, q>>
               mine == e = d /\ q = p
               s == SetupMode(d, p, m)
               goal == IF mine THEN ModeGoal(m, k) ELSE "keep"
    <2>1. \A l \in ModeKinds \cup {"PULLDOWN"} :
              /\ Effect(on(l), x) = IF k = l /\ mine THEN "set" ELSE "keep"
              /\ Effect(drop(l), x) = IF k = l /\ mine THEN "clear" ELSE "keep"
      BY <1>4
    <2>2. Effect(z, x) = "keep" BY <1>5
    <2> HIDE DEF x, mine
    <2>3. goal = "any" \/ Ends(s, x, goal)
      <3>1. CASE m = "clear"
        <4>1. LET v == Later(Later(Later(Effect(drop("GPO_ENABLE"), x), Effect(drop("GPI_ENABLE"), x)),
                                   Effect(drop("ADC_PIN"), x)), Effect(drop("DAC_PIN"), x))
              IN  Ends(s, x, v)
          BY <1>6, <1>8, <3>1, EndsFew
        <4> QED BY <1>9, <1>10, <2>1, <3>1, <4>1 DEF Later
      <3>2. CASE m = "gpi"
        <4>1. LET v == Later(Later(Later(Effect(drop("GPO_ENABLE"), x), Effect(drop("ADC_PIN"), x)),
                                   Effect(drop("DAC_PIN"), x)), Effect(on("GPI_ENABLE"), x))
              IN  Ends(s, x, Later(v, Effect(drop("PULLDOWN"), x)))
          BY <1>6, <1>8, <3>2, EndsFew
        <4> QED BY <1>9, <1>10, <2>1, <3>2, <4>1 DEF Later
      <3>3. CASE m = "gpo0"
        <4>1. LET v == Later(Later(Later(Effect(drop("GPI_ENABLE"), x), Effect(drop("ADC_PIN"), x)),
                                   Effect(drop("DAC_PIN"), x)), Effect(drop("GPO_WRITE"), x))
              IN  Ends(s, x, Later(v, Effect(on("GPO_ENABLE"), x)))
          BY <1>6, <1>8, <3>3, EndsFew
        <4> QED BY <1>9, <1>10, <2>1, <3>3, <4>1 DEF Later
      <3>4. CASE m = "gpo1"
        <4>1. LET v == Later(Later(Later(Effect(drop("GPI_ENABLE"), x), Effect(drop("ADC_PIN"), x)),
                                   Effect(drop("DAC_PIN"), x)), Effect(on("GPO_WRITE"), x))
              IN  Ends(s, x, Later(v, Effect(on("GPO_ENABLE"), x)))
          BY <1>6, <1>8, <3>4, EndsFew
        <4> QED BY <1>9, <1>10, <2>1, <3>4, <4>1 DEF Later
      <3>5. CASE m = "adc"
        <4>1. LET v == Later(Later(Later(Effect(drop("DAC_PIN"), x), Effect(drop("GPI_ENABLE"), x)),
                                   Effect(drop("GPO_ENABLE"), x)), Effect(drop("PULLDOWN"), x))
              IN  Ends(s, x, Later(v, Effect(on("ADC_PIN"), x)))
          BY <1>6, <1>8, <3>5, EndsFew
        <4> QED BY <1>9, <1>10, <2>1, <3>5, <4>1 DEF Later
      <3>6. CASE m = "dac"
        <4>1. LET v == Later(Later(Later(Effect(drop("GPO_ENABLE"), x), Effect(drop("GPI_ENABLE"), x)),
                                   Effect(on("ADC_PIN"), x)), Effect(on("PULLDOWN"), x))
              IN  Ends(s, x, Later(Later(v, Effect(z, x)), Effect(on("DAC_PIN"), x)))
          BY <1>6, <1>8, <3>6, EndsFew
        <4> QED BY <1>9, <1>10, <2>1, <2>2, <3>6, <4>1 DEF Later
      <3> QED BY <1>7, <3>1, <3>2, <3>3, <3>4, <3>5, <3>6
    <2> QED BY <2>3 DEF x, mine
  <1>12. WritesIn(SetupMode(d, p, m), BoardKinds)
    <2>1. /\ FitsIn(on("GPO_ENABLE"), BoardKinds) /\ FitsIn(drop("GPO_ENABLE"), BoardKinds)
          /\ FitsIn(on("GPI_ENABLE"), BoardKinds) /\ FitsIn(drop("GPI_ENABLE"), BoardKinds)
          /\ FitsIn(on("ADC_PIN"), BoardKinds) /\ FitsIn(drop("ADC_PIN"), BoardKinds)
          /\ FitsIn(on("DAC_PIN"), BoardKinds) /\ FitsIn(drop("DAC_PIN"), BoardKinds)
          /\ FitsIn(on("GPO_WRITE"), BoardKinds) /\ FitsIn(drop("GPO_WRITE"), BoardKinds)
          /\ FitsIn(on("PULLDOWN"), BoardKinds) /\ FitsIn(drop("PULLDOWN"), BoardKinds)
      BY <1>2, <1>9
    <2>2. \A u, v, w, x : /\ FitsIn(u, BoardKinds) /\ FitsIn(v, BoardKinds)
                          /\ FitsIn(w, BoardKinds) /\ FitsIn(x, BoardKinds)
              => WritesIn(<<u, v, w, x>>, BoardKinds)
      <3> SUFFICES ASSUME NEW u, NEW v, NEW w, NEW x, FitsIn(u, BoardKinds), FitsIn(v, BoardKinds),
                          FitsIn(w, BoardKinds), FitsIn(x, BoardKinds)
                   PROVE  WritesIn(<<u, v, w, x>>, BoardKinds)
        OBVIOUS
      <3>1. <<u, v, w, x>> = <<u, v, w>> \o <<x>>
        OBVIOUS
      <3> QED BY <3>1, In1, In3, InJoin
    <2>3. \A u, v, w, x, y : /\ FitsIn(u, BoardKinds) /\ FitsIn(v, BoardKinds) /\ FitsIn(w, BoardKinds)
                             /\ FitsIn(x, BoardKinds) /\ FitsIn(y, BoardKinds)
              => WritesIn(<<u, v, w, x, y>>, BoardKinds)
      <3> SUFFICES ASSUME NEW u, NEW v, NEW w, NEW x, NEW y, FitsIn(u, BoardKinds), FitsIn(v, BoardKinds),
                          FitsIn(w, BoardKinds), FitsIn(x, BoardKinds), FitsIn(y, BoardKinds)
                   PROVE  WritesIn(<<u, v, w, x, y>>, BoardKinds)
        OBVIOUS
      <3>1. <<u, v, w, x, y>> = <<u, v, w>> \o <<x, y>>
        OBVIOUS
      <3> QED BY <3>1, In2, In3, InJoin
    <2>4. /\ WritesIn(ClearPin(d, p), BoardKinds) /\ WritesIn(SetupGpi(d, p), BoardKinds)
          /\ WritesIn(SetupGpo(d, p, 0), BoardKinds) /\ WritesIn(SetupGpo(d, p, 1), BoardKinds)
          /\ WritesIn(SetupAdc(d, p), BoardKinds)
      BY <1>6, <2>1, <2>2, <2>3
    <2>5. WritesIn(SetupDac(d, p), BoardKinds) BY <1>3, <1>6, <2>1, In6
    <2> QED BY <1>7, <1>8, <2>4, <2>5
  <1> QED BY <1>11, <1>12 DEF ModeEnds

\* The bits that items have in the registers of the converters.
LEMMA ModeFoot ==
    ASSUME NEW j, NEW u, IsItem(j, u), NEW x \in Foot(j), Label(x[1]) \in BoardKinds
    PROVE  /\ j[1] \in {"mode", "volts"}
           /\ j[1] = "mode" => /\ j = <<"mode", j[2], j[3]>> /\ j[2] \in 0..1 /\ j[3] \in Byte /\ u \in DOMAIN Modes
                               /\ \E kind \in ModeKinds : x = <<<<kind, j[2]>>, j[3]>>
           /\ j[1] = "volts" => /\ j = <<"volts">>
                                /\ \E kind \in ModeKinds : \E q \in 5..7 : x = <<<<kind, 1>>, q>>
  <1>1. BoardKinds \cap ItemKinds \subseteq ModeKinds
    BY DEF BoardKinds, ItemKinds, ModeKinds, PinKinds
  <1>2. j[1] \in {"mode", "volts"} BY <1>1, FootLabel
  <1>3. {"GPO_ENABLE", "GPO_WRITE"} \subseteq ModeKinds BY DEF ModeKinds
  <1>4. ASSUME j[1] = "mode" PROVE \E kind \in ModeKinds : x = <<<<kind, j[2]>>, j[3]>>
    BY <1>4, FootIs
  <1>5. ASSUME j[1] = "volts" PROVE \E kind \in ModeKinds : \E q \in 5..7 : x = <<<<kind, 1>>, q>>
    BY <1>3, <1>5, FootIs
  <1> QED BY <1>2, <1>4, <1>5, ItemIs

LEMMA DoesMode ==
    ASSUME NEW p \in Byte, NEW m \in DOMAIN Modes
    PROVE  Does(SetupMode(0, p, m), {<<<<"mode", 0, p>>, m>>})
  <1> DEFINE s == SetupMode(0, p, m)
             t == <<"mode", 0, p>>
  <1>1. WritesIn(s, BoardKinds) /\ ModeEnds(s, 0, p, m) BY SetupModeEnds
  <1> HIDE DEF s
  <1>2. IsItem(t, m) BY DEF IsItem
  <1>3. ASSUME NEW x \in Foot(t) PROVE Goal(t, m, x) = "any" \/ Ends(s, x, Goal(t, m, x))
    <2>1. PICK kind \in ModeKinds : x = <<<<kind, 0>>, p>> BY FootIs
    <2>2. Goal(t, m, x) = ModeGoal(m, kind) BY <2>1, GoalIs
    <2> QED BY <1>1, <2>1, <2>2 DEF ModeEnds
  <1>4. ASSUME NEW j, NEW u, IsItem(j, u), j # t, NEW x \in Foot(j), Label(x[1]) \in BoardKinds
        PROVE  Ends(s, x, "keep")
    <2>1. CASE j[1] = "mode"
      <3>1. /\ j = <<"mode", j[2], j[3]>> /\ j[2] \in 0..1 /\ j[3] \in Byte
            /\ \E kind \in ModeKinds : x = <<<<kind, j[2]>>, j[3]>>
        BY <1>4, <2>1, ModeFoot
      <3>2. ~ (j[2] = 0 /\ j[3] = p) BY <1>4, <3>1
      <3> QED BY <1>1, <3>1, <3>2 DEF ModeEnds
    <2>2. CASE j[1] = "volts"
      <3>1. \E kind \in ModeKinds : \E q \in 5..7 : x = <<<<kind, 1>>, q>> BY <1>4, <2>2, ModeFoot
      <3>2. \A q \in 5..7 : q \in Byte BY DEF Byte
      <3> QED BY <1>1, <3>1, <3>2 DEF ModeEnds
    <2> QED BY <1>4, <2>1, <2>2, ModeFoot
  <1>5. Done(s, t, m) BY <1>3 DEF Done
  <1> HIDE DEF t
  <1>6. Does(s, {<<t, m>>}) BY <1>1, <1>2, <1>4, <1>5, DoesOne
  <1> QED BY <1>6 DEF s, t

\* A list of settings of pins, all different, that makes a voltage.
LEMMA DoesVolts ==
    ASSUME NEW n \in Nat, NEW f, f = [i \in 1..n |-> f[i]], NEW v \in {1, 8, 12},
           \A i \in 1..n : f[i][1] \in Byte /\ f[i][2] \in DOMAIN Modes,
           \A i, j \in 1..n : i # j => f[i][1] # f[j][1],
           \A p \in 5..7 : \E i \in 1..n : f[i][1] = p /\ f[i][2] = Tune(p, Digit(v, p))
    PROVE  Does(SetAll(f), VoltsItems(f, v))
  <1> DEFINE ss == [i \in DOMAIN f |-> SetupMode(1, f[i][1], f[i][2])]
             s == FlattenSeq(ss)
             X == {<<<<"mode", 1, x[1]>>, x[2]>> : x \in ToSet(f)}
             W == X \cup {<<<<"volts">>, v>>}
  <1>1. SetAll(f) = s BY DEF SetAll
  <1>2. ss = [i \in 1..n |-> ss[i]]
    OBVIOUS
  <1>3. \A i \in 1..n : WritesIn(ss[i], BoardKinds) /\ ModeEnds(ss[i], 1, f[i][1], f[i][2])
    BY SetupModeEnds
  <1> HIDE DEF ss
  <1>4. \A i \in 1..n : Prog(ss[i]) BY <1>3 DEF WritesIn
  <1>5. \A x : /\ (\A i \in 1..n : Ends(ss[i], x, "keep")) => Ends(s, x, "keep")
               /\ \A g : \A i \in 1..n :
                     g # "keep" /\ Ends(ss[i], x, g) /\ (\A j \in 1..n : j > i => Ends(ss[j], x, "keep"))
                     => Ends(s, x, g)
    BY <1>2, <1>4, EndsFlatten
  <1>6. WritesIn(s, BoardKinds) BY <1>2, <1>3, InFlatten
  <1> HIDE DEF s
  \* The bits of the pin of a setting, and the bits of other pins.
  <1>7. ASSUME NEW i \in 1..n, NEW kind \in ModeKinds
        PROVE  ModeGoal(f[i][2], kind) = "any" \/ Ends(s, <<<<kind, 1>>, f[i][1]>>, ModeGoal(f[i][2], kind))
    <2> DEFINE x == <<<<kind, 1>>, f[i][1]>>
               g == ModeGoal(f[i][2], kind)
    <2>1. 1 \in 0..1 /\ f[i][1] \in Byte
      OBVIOUS
    <2>2. g = "any" \/ Ends(ss[i], x, g) BY <1>3, <2>1 DEF ModeEnds
    <2>3. \A j \in 1..n : j > i => f[j][1] # f[i][1]
      OBVIOUS
    <2>4. \A j \in 1..n : j > i => Ends(ss[j], x, "keep") BY <1>3, <2>1, <2>3 DEF ModeEnds
    <2>5. g # "keep" BY ToIs DEF ModeGoal
    <2> HIDE DEF x, g
    <2>6. g = "any" \/ Ends(s, x, g) BY <1>5, <2>2, <2>4, <2>5
    <2> QED BY <2>6 DEF x, g
  <1>8. ASSUME NEW kind \in ModeKinds, NEW e \in 0..1, NEW q \in Byte,
               \A i \in 1..n : ~ (e = 1 /\ q = f[i][1])
        PROVE  Ends(s, <<<<kind, e>>, q>>, "keep")
    <2>1. \A i \in 1..n : Ends(ss[i], <<<<kind, e>>, q>>, "keep") BY <1>3, <1>8 DEF ModeEnds
    <2> QED BY <1>5, <2>1
  <1>0. /\ \A w \in X : \E i \in 1..n : w = <<<<"mode", 1, f[i][1]>>, f[i][2]>>
        /\ \A i \in 1..n : <<<<"mode", 1, f[i][1]>>, f[i][2]>> \in X
    BY DEF ToSet
  <1> HIDE DEF X
  <1>9. ASSUME NEW w \in X PROVE IsItem(w[1], w[2]) /\ Done(s, w[1], w[2])
    <2>1. PICK i \in 1..n : w = <<<<"mode", 1, f[i][1]>>, f[i][2]>> BY <1>0
    <2> DEFINE t == <<"mode", 1, f[i][1]>>
               m == f[i][2]
    <2>2. w[1] = t /\ w[2] = m /\ t[1] = "mode" /\ t[2] = 1 /\ t[3] = f[i][1] BY <2>1
    <2>3. IsItem(t, m) BY <2>2 DEF IsItem
    <2>4. ASSUME NEW x \in Foot(t) PROVE Goal(t, m, x) = "any" \/ Ends(s, x, Goal(t, m, x))
      <3>1. PICK kind \in ModeKinds : x = <<<<kind, 1>>, f[i][1]>> BY <2>2, FootIs
      <3>2. Goal(t, m, x) = ModeGoal(m, kind) BY <2>2, <3>1, GoalIs
      <3> QED BY <1>7, <3>1, <3>2
    <2> HIDE DEF t, m
    <2> QED BY <2>2, <2>3, <2>4 DEF Done
  <1>10. IsItem(<<"volts">>, v) /\ Done(s, <<"volts">>, v)
    <2> DEFINE t == <<"volts">>
    <2>1. t[1] = "volts"
      OBVIOUS
    <2>2. IsItem(t, v) BY DEF IsItem
    <2>3. ASSUME NEW x \in Foot(t) PROVE Goal(t, v, x) = "any" \/ Ends(s, x, Goal(t, v, x))
      <3>1. PICK kind \in {"GPO_ENABLE", "GPO_WRITE"}, p \in 5..7 : x = <<<<kind, 1>>, p>>
        BY <2>1, FootIs
      <3>2. Goal(t, v, x) = VoltsGoal(v, kind, p) BY <2>1, <3>1, GoalIs
      <3>3. PICK i \in 1..n : f[i][1] = p /\ f[i][2] = Tune(p, Digit(v, p))
        OBVIOUS
      <3>4. kind \in ModeKinds BY DEF ModeKinds
      <3>5. ModeGoal(f[i][2], kind) = "any" \/ Ends(s, x, ModeGoal(f[i][2], kind))
        BY <1>7, <3>1, <3>3, <3>4
      <3> DEFINE d == Digit(v, p)
      <3>6. d \in 0..2
        <4>1. \A y \in {1, 8, 12} : y \div 9 \in 0..2 /\ (y \div 3) % 3 \in 0..2 /\ y % 3 \in 0..2
          OBVIOUS
        <4>2. Digits(v) = <<v \div 9, (v \div 3) % 3, v % 3>> BY DEF Digits
        <4>3. 8 - p \in 1..3
          OBVIOUS
        <4> QED BY <4>1, <4>2, <4>3 DEF Digit
      <3>7. VoltsGoal(v, kind, p) = (IF kind = "GPO_ENABLE" THEN To(d # 1) ELSE IF d = 1 THEN "any" ELSE To(d = 2))
        BY DEF VoltsGoal
      <3>8. f[i][2] = (IF d = 1 THEN "gpi" ELSE IF d = 2 THEN "gpo1" ELSE "gpo0") BY <3>3 DEF Tune
      <3> HIDE DEF d
      <3>9. /\ ModeGoal("gpi", "GPO_ENABLE") = "clear" /\ ModeGoal("gpi", "GPO_WRITE") = "any"
            /\ ModeGoal("gpo0", "GPO_ENABLE") = "set" /\ ModeGoal("gpo0", "GPO_WRITE") = "clear"
            /\ ModeGoal("gpo1", "GPO_ENABLE") = "set" /\ ModeGoal("gpo1", "GPO_WRITE") = "set"
        BY DEF ModeGoal, Modes, To
      <3>10. VoltsGoal(v, kind, p) = ModeGoal(f[i][2], kind) BY <3>6, <3>7, <3>8, <3>9 DEF To
      <3> QED BY <3>2, <3>5, <3>10
    <2> QED BY <2>2, <2>3 DEF Done
  <1>11. ASSUME NEW j, NEW u, IsItem(j, u), \A w \in W : w[1] # j, NEW x \in Foot(j), Label(x[1]) \in BoardKinds
         PROVE  Ends(s, x, "keep")
    <2>1. j # <<"volts">>
      <3>1. <<<<"volts">>, v>> \in W /\ <<<<"volts">>, v>>[1] = <<"volts">>
        OBVIOUS
      <3> QED BY <1>11, <3>1
    <2>2. /\ j = <<"mode", j[2], j[3]>> /\ j[2] \in 0..1 /\ j[3] \in Byte
          /\ \E kind \in ModeKinds : x = <<<<kind, j[2]>>, j[3]>>
      BY <1>11, <2>1, ModeFoot
    <2>3. \A i \in 1..n : ~ (j[2] = 1 /\ j[3] = f[i][1])
      <3>1. \A i \in 1..n : <<<<"mode", 1, f[i][1]>>, f[i][2]>> \in W
                            /\ <<<<"mode", 1, f[i][1]>>, f[i][2]>>[1] = <<"mode", 1, f[i][1]>>
        BY <1>0
      <3> HIDE DEF W
      <3>2. \A i \in 1..n : <<"mode", 1, f[i][1]>> # j BY <1>11, <3>1
      <3> QED BY <2>2, <3>2
    <2> QED BY <1>8, <2>2, <2>3
  <1>12. \A w \in W : IsItem(w[1], w[2]) /\ Done(s, w[1], w[2])
    <2> SUFFICES ASSUME NEW w \in W PROVE IsItem(w[1], w[2]) /\ Done(s, w[1], w[2])
      OBVIOUS
    <2>1. CASE w \in X BY <1>9, <2>1
    <2>2. CASE w = <<<<"volts">>, v>>
      <3>1. w[1] = <<"volts">> /\ w[2] = v BY <2>2
      <3> QED BY <1>10, <3>1
    <2> QED BY <2>1, <2>2
  <1> HIDE DEF W
  <1>13. Does(s, W) BY <1>6, <1>11, <1>12, DoesOf
  <1> QED BY <1>1, <1>13 DEF W, X, VoltsItems
-----------------------------------------------------------------------------
(***************************************************************************)
(* Lists of registers and settings tables: the last line on a bit decides. *)
(***************************************************************************)
Pairs(f) == {<<i, f[i]>> : i \in DOMAIN f}
HitsOn(lines, r, b) == {i \in DOMAIN lines : lines[i][1] = r /\ b \in lines[i][2]}

LEMMA MostInSet ==
    ASSUME NEW n \in Nat, NEW T, T \subseteq 1..n, T # {}
    PROVE  \E i \in T : \A j \in T : j <= i
  <1> DEFINE U == {n - i : i \in T}
  <1>0. \A i \in T : n - i \in Nat
    OBVIOUS
  <1>1. U \subseteq Nat /\ U # {} BY <1>0
  <1> HIDE DEF U
  <1>2. PICK u \in U : \A s \in U : u <= s BY <1>1, LeastInSet
  <1>3. PICK i \in T : u = n - i BY DEF U
  <1>4. \A j \in T : n - i <= n - j BY <1>2, <1>3 DEF U
  <1>5. \A a, c \in 1..n : n - a <= n - c => c <= a
    OBVIOUS
  <1> QED BY <1>3, <1>4, <1>5

LEMMA DoesLines ==
    ASSUME NEW p, WritesIn(p, {"AUX"}), NEW n \in Nat, NEW lines, lines = [i \in 1..n |-> lines[i]],
           \A i \in 1..n : lines[i][1] \in Nat /\ lines[i][2] \subseteq Byte,
           \A r \in Nat, b \in Byte :
              /\ HitsOn(lines, r, b) = {} => Ends(p, <<<<"AUX", r>>, b>>, "keep")
              /\ \A i \in HitsOn(lines, r, b) :
                    (\A j \in HitsOn(lines, r, b) : j <= i)
                    => Ends(p, <<<<"AUX", r>>, b>>, To(b \in lines[i][3]))
    PROVE  Does(p, Pairs(AskedOf(lines)))
  <1> DEFINE D == UNION {{<<"aux", l[1], b>> : b \in l[2]} : l \in ToSet(lines)}
             W == Pairs(AskedOf(lines))
  <1>1. AskedOf(lines) = [x \in D |-> LastOn(lines, x[2], x[3])] BY DEF AskedOf
  <1>2. ToSet(lines) = {lines[i] : i \in 1..n} /\ DOMAIN lines = 1..n BY DEF ToSet
  <1>3. \A x \in D : \E i \in 1..n : \E b \in lines[i][2] : x = <<"aux", lines[i][1], b>> BY <1>2
  <1>4. \A i \in 1..n : \A b \in lines[i][2] : <<"aux", lines[i][1], b>> \in D BY <1>2
  <1> HIDE DEF D
  <1>5. ASSUME NEW x \in D
        PROVE  IsItem(x, LastOn(lines, x[2], x[3])) /\ Done(p, x, LastOn(lines, x[2], x[3]))
    <2>0. PICK k \in 1..n : \E b \in lines[k][2] : x = <<"aux", lines[k][1], b>> BY <1>3
    <2>1. PICK b \in lines[k][2] : x = <<"aux", lines[k][1], b>> BY <2>0
    <2> DEFINE r == lines[k][1]
               hits == HitsOn(lines, r, b)
               last == CHOOSE i \in hits : \A j \in hits : j <= i
    <2>2. r \in Nat /\ b \in Byte /\ x = <<"aux", r, b>> /\ x[1] = "aux" /\ x[2] = r /\ x[3] = b
      BY <2>1
    <2>3. k \in hits /\ hits \subseteq 1..n BY <1>2, <2>1 DEF HitsOn
    <2>4. LastOn(lines, x[2], x[3]) = (b \in lines[last][3]) BY <2>2 DEF LastOn, HitsOn
    <2> HIDE DEF r, hits
    <2>5. \E i \in hits : \A j \in hits : j <= i BY <2>3, MostInSet
    <2>6. last \in hits /\ \A j \in hits : j <= last BY <2>5
    <2> HIDE DEF last
    <2>7. Ends(p, <<<<"AUX", r>>, b>>, To(b \in lines[last][3])) BY <2>2, <2>6 DEF hits
    <2>8. (b \in lines[last][3]) \in BOOLEAN
      OBVIOUS
    <2> DEFINE v == b \in lines[last][3]
    <2>9. v \in BOOLEAN /\ LastOn(lines, x[2], x[3]) = v /\ Ends(p, <<<<"AUX", r>>, b>>, To(v))
      BY <2>4, <2>7, <2>8
    <2> HIDE DEF v
    <2>10. Foot(x) = {<<<<"AUX", r>>, b>>} /\ \A y : Goal(x, v, y) = To(v) BY <2>2, FootIs, GoalIs
    <2>11. IsItem(x, v) BY <2>2, <2>9 DEF IsItem
    <2>12. Done(p, x, v) BY <2>9, <2>10 DEF Done
    <2> QED BY <2>9, <2>11, <2>12
  <1>6. ASSUME NEW j, NEW u, IsItem(j, u), j \notin D, NEW x \in Foot(j), Label(x[1]) \in {"AUX"}
        PROVE  Ends(p, x, "keep")
    <2>1. j[1] = "aux" BY <1>6, FootLabel
    <2>2. j = <<"aux", j[2], j[3]>> /\ j[2] \in Nat /\ j[3] \in Byte BY <1>6, <2>1, ItemIs
    <2>3. x = <<<<"AUX", j[2]>>, j[3]>> BY <2>1, FootIs
    <2>4. HitsOn(lines, j[2], j[3]) = {} BY <1>2, <1>4, <1>6, <2>2 DEF HitsOn
    <2> QED BY <2>2, <2>3, <2>4
  <1>7. W = {<<x, LastOn(lines, x[2], x[3])>> : x \in D} BY <1>1 DEF Pairs
  <1> HIDE DEF W
  <1>8. \A w \in W : IsItem(w[1], w[2]) /\ Done(p, w[1], w[2]) BY <1>5, <1>7
  <1>9. \A j : (\A w \in W : w[1] # j) => j \notin D
    <2>1. \A j \in D : \E w \in W : w[1] = j
      <3> TAKE j \in D
      <3>1. <<j, LastOn(lines, j[2], j[3])>> \in W /\ <<j, LastOn(lines, j[2], j[3])>>[1] = j
        BY <1>7
      <3> QED BY <3>1
    <2> QED BY <2>1
  <1>10. \A i, v : IsItem(i, v) /\ (\A w \in W : w[1] # i) =>
             \A x \in Foot(i) : Label(x[1]) \in {"AUX"} => Ends(p, x, "keep")
    BY <1>6, <1>9
  <1> QED BY <1>8, <1>10, DoesOf DEF W

LEMMA DoesTable ==
    ASSUME NEW lines \in Tables
    PROVE  Does(ApplyTable(lines), Pairs(AskedOf(SubSeq(lines, 1, Len(ApplyTable(lines))))))
  <1> DEFINE bad == {i \in DOMAIN lines : lines[i][1] = 0}
             x == CHOOSE i \in bad : \A j \in bad : i <= j
             n == IF bad = {} THEN Len(lines) ELSE x - 1
             p == ApplyTable(lines)
             part == SubSeq(lines, 1, n)
  <1>1. /\ Len(lines) \in Nat /\ DOMAIN lines = 1..Len(lines)
        /\ lines \in Seq(Nat \X (SUBSET (0..7)) \X (SUBSET (0..7)))
    BY ServiceAssumption
  <1>2. n \in Nat /\ n <= Len(lines)
    <2>1. bad \subseteq 1..Len(lines) /\ bad \subseteq Nat BY <1>1
    <2> HIDE DEF bad
    <2>2. bad # {} => x \in bad BY <2>1, LeastInSet
    <2> HIDE DEF x
    <2>3. bad # {} => x \in 1..Len(lines) BY <2>1, <2>2
    <2>4. \A k \in Nat : \A y \in 1..k : y - 1 \in Nat /\ y - 1 <= k
      OBVIOUS
    <2> QED BY <1>1, <2>3, <2>4
  <1>3. p = [i \in 1..n |-> On(<<"AUX", lines[i][1]>>, lines[i][2], lines[i][3] \cap lines[i][2])]
    BY DEF ApplyTable
  <1> HIDE DEF n, p
  <1>4. Prog(p) /\ Len(p) = n /\ DOMAIN p = 1..n
    <2>1. p = [i \in 1..n |-> p[i]] BY <1>3
    <2> QED BY <1>2, <2>1, Fun
  <1>5. part = [i \in 1..n |-> part[i]] /\ \A i \in 1..n : part[i] = lines[i] /\ i \in 1..Len(lines)
    BY <1>1, <1>2
  <1> HIDE DEF part
  <1>6. \A i \in 1..n : part[i][1] \in Nat /\ part[i][2] \subseteq Byte BY <1>1, <1>5 DEF Byte
  <1>7. WritesIn(p, {"AUX"})
    <2>1. \A i \in 1..n : FitsIn(p[i], {"AUX"}) BY <1>3, PutFits DEF Slim
    <2> QED BY <1>4, <2>1 DEF WritesIn
  <1>8. ASSUME NEW r \in Nat, NEW b \in Byte
        PROVE  /\ \A i \in 1..n : i \notin HitsOn(part, r, b) =>
                      Effect(p[i], <<<<"AUX", r>>, b>>) = "keep"
               /\ \A i \in HitsOn(part, r, b) :
                      i \in 1..n /\ Effect(p[i], <<<<"AUX", r>>, b>>) = To(b \in part[i][3])
    <2> DEFINE y == <<<<"AUX", r>>, b>>
    <2>1. y[1] = <<"AUX", r>> /\ y[2] = b
      OBVIOUS
    <2> HIDE DEF y
    <2>2. \A i \in 1..n : Effect(p[i], y) =
              IF lines[i][1] # r \/ b \notin lines[i][2] THEN "keep" ELSE To(b \in lines[i][3])
      <3> TAKE i \in 1..n
      <3>1. lines[i][3] \subseteq Byte /\ lines[i][2] \subseteq Byte BY <1>1, <1>5 DEF Byte
      <3>2. p[i] = On(<<"AUX", lines[i][1]>>, lines[i][2], lines[i][3] \cap lines[i][2]) BY <1>3
      <3>3. (y[1] # <<"AUX", lines[i][1]>>) <=> lines[i][1] # r BY <2>1
      <3> QED BY <2>1, <3>2, <3>3, OnIs DEF To
    <2>3. DOMAIN part = 1..n BY <1>5
    <2> QED BY <1>5, <2>2, <2>3 DEF HitsOn, y
  <1>9. \A r \in Nat, b \in Byte :
              /\ HitsOn(part, r, b) = {} => Ends(p, <<<<"AUX", r>>, b>>, "keep")
              /\ \A i \in HitsOn(part, r, b) :
                    (\A j \in HitsOn(part, r, b) : j <= i)
                    => Ends(p, <<<<"AUX", r>>, b>>, To(b \in part[i][3]))
    <2> TAKE r \in Nat, b \in Byte
    <2> DEFINE y == <<<<"AUX", r>>, b>>
    <2>1. HitsOn(part, r, b) = {} => Ends(p, y, "keep") BY <1>4, <1>8 DEF Ends
    <2>2. ASSUME NEW i \in HitsOn(part, r, b), \A j \in HitsOn(part, r, b) : j <= i
          PROVE  Ends(p, y, To(b \in part[i][3]))
      <3>1. \A j \in 1..n : j > i => j \notin HitsOn(part, r, b)
        <4>1. i \in 1..n BY <1>8
        <4>2. \A j \in 1..n : j > i => ~ (j <= i) BY <4>1
        <4> QED BY <2>2, <4>2
      <3>2. To(b \in part[i][3]) # "keep" BY DEF To
      <3> HIDE DEF y
      <3>3. i \in 1..n /\ Effect(p[i], y) = To(b \in part[i][3]) BY <1>8 DEF y
      <3>4. \A j \in 1..n : j > i => Effect(p[j], y) = "keep" BY <1>8, <3>1 DEF y
      <3> QED BY <1>4, <3>2, <3>3, <3>4 DEF Ends
    <2> QED BY <2>1, <2>2
  <1>10. Does(p, Pairs(AskedOf(part))) BY <1>2, <1>5, <1>6, <1>7, <1>9, DoesLines
  <1> QED BY <1>4, <1>10 DEF p, part

\* The frame an entry of a list is in.
LEMMA FrameOf ==
    ASSUME NEW m \in Nat, NEW j \in 1..m
    PROVE  \E k \in 1..((m + Burst - 1) \div Burst) : (k - 1) * Burst < j /\ j <= k * Burst
  <1> DEFINE q == (j - 1) \div Burst
             e == (m + Burst - 1) \div Burst
             k == q + 1
  <1>1. Burst \in Nat /\ Burst > 0 BY ServiceAssumption
  <1>2. q \in Nat /\ Burst * q <= j - 1 /\ j - 1 < Burst * q + Burst BY <1>1
  <1>3. e \in Nat /\ Burst * e <= m + Burst - 1 /\ m + Burst - 1 < Burst * e + Burst BY <1>1
  <1> HIDE DEF q, e
  <1>4. Burst * q + Burst = Burst * (q + 1) /\ Burst * e + Burst = Burst * (e + 1)
    BY <1>1, <1>2, <1>3
  <1>5. Burst * (q + 1) < Burst * (e + 1) BY <1>1, <1>2, <1>3, <1>4
  <1>6. q + 1 < e + 1 BY <1>1, <1>2, <1>3, <1>5
  <1>7. k \in 1..e BY <1>2, <1>3, <1>6
  <1>8. (k - 1) * Burst = Burst * q /\ k * Burst = Burst * q + Burst BY <1>1, <1>2
  <1>9. (k - 1) * Burst < j /\ j <= k * Burst BY <1>1, <1>2, <1>8
  <1> QED BY <1>7, <1>9 DEF e

LEMMA FrameOne ==
    ASSUME NEW j \in Nat, NEW k \in Nat, NEW l \in Nat, k < l, j <= k * Burst
    PROVE  ~ ((l - 1) * Burst < j)
  <1>1. Burst \in Nat /\ k <= l - 1 /\ l - 1 \in Nat BY ServiceAssumption
  <1> DEFINE d == l - 1 - k
  <1>2. d \in Nat /\ l - 1 = k + d BY <1>1
  <1> HIDE DEF d
  <1>3. (l - 1) * Burst = k * Burst + d * Burst /\ d * Burst \in Nat /\ k * Burst \in Nat
    BY <1>1, <1>2
  <1> QED BY <1>3

LEMMA WriteRegsEnds ==
    ASSUME NEW base \in Nat, NEW m \in Nat, NEW vals, vals = [j \in 1..m |-> vals[j]]
    PROVE  /\ WritesIn(WriteRegs(base, vals), {"AUX"})
           /\ \A j \in 1..m, b \in Byte :
                 Ends(WriteRegs(base, vals), <<<<"AUX", base + j - 1>>, b>>, To(b \in vals[j]))
           /\ \A b : \A r \in Nat : (\A j \in 1..m : r # base + j - 1)
                 => Ends(WriteRegs(base, vals), <<<<"AUX", r>>, b>>, "keep")
  <1> DEFINE n == (m + Burst - 1) \div Burst
             ptr(k) == (k - 1) * Burst
             end(k) == IF k * Burst < m THEN k * Burst ELSE m
             part(k) == SubSeq(vals, ptr(k) + 1, end(k))
             regs(k) == {<<"AUX", base + ptr(k) + i - 1>> : i \in DOMAIN part(k)}
             p == WriteRegs(base, vals)
             In(k, j) == ptr(k) < j /\ j <= k * Burst
  <1>1. Len(vals) = m /\ DOMAIN vals = 1..m /\ Prog(vals) BY Fun
  <1>2. n \in Nat BY ServiceAssumption
  <1>3. p = [k \in 1..n |-> Access([r \in regs(k) |->
                                [mask |-> Byte, val |-> part(k)[r[2] - base - ptr(k) + 1]]])]
    BY <1>1 DEF WriteRegs
  <1>4. p = [k \in 1..n |-> p[k]] BY <1>3
  <1> HIDE DEF p, n
  <1>5. Prog(p) /\ DOMAIN p = 1..n BY <1>2, <1>4, Fun
  \* The registers of a frame and what it writes to them.
  <1>6. ASSUME NEW k \in 1..n
        PROVE  /\ \A x \in regs(k) : \E j \in 1..m : In(k, j) /\ x = <<"AUX", base + j - 1>>
               /\ \A j \in 1..m : In(k, j) => /\ <<"AUX", base + j - 1>> \in regs(k)
                                             /\ part(k)[j - ptr(k)] = vals[j]
    <2>1. Burst \in Nat /\ k \in Nat /\ k >= 1 BY <1>2, ServiceAssumption
    <2>2. ptr(k) \in Nat /\ k * Burst \in Nat BY <2>1
    <2>3. end(k) \in Nat /\ end(k) <= m /\ end(k) <= k * Burst /\ \A j \in 1..m : j <= k * Burst => j <= end(k)
      BY <2>2
    <2> DEFINE a == ptr(k)
               c == end(k)
               h == k * Burst
    <2>4. a \in Nat /\ c \in Nat /\ c <= m /\ c <= h /\ h \in Nat /\ \A j \in 1..m : j <= h => j <= c
      BY <2>2, <2>3
    <2>5. part(k) = SubSeq(vals, a + 1, c) /\ regs(k) = {<<"AUX", base + a + i - 1>> : i \in DOMAIN part(k)}
          /\ \A j : In(k, j) <=> a < j /\ j <= h
      OBVIOUS
    <2> HIDE DEF a, c, h, part, regs, In
    <2>6. DOMAIN part(k) = 1..(c - a) /\ \A i \in 1..(c - a) : part(k)[i] = vals[a + i]
      <3>1. vals \in Seq({vals[i] : i \in DOMAIN vals}) BY <1>1 DEF Prog
      <3> DEFINE A == {vals[i] : i \in DOMAIN vals}
      <3>2. vals \in Seq(A) BY <3>1
      <3> HIDE DEF A
      <3>3. SubSeq(vals, a + 1, c) = [i \in 1..(c - a) |-> vals[a + i]] BY <2>4, <3>2, <1>1
      <3> QED BY <2>5, <3>3
    <2>7. ASSUME NEW i \in 1..(c - a)
          PROVE  \E j \in 1..m : In(k, j) /\ base + a + i - 1 = base + j - 1
      <3>1. a + i \in 1..m /\ a < a + i /\ a + i <= h BY <2>4
      <3>2. In(k, a + i) /\ base + a + i - 1 = base + (a + i) - 1 BY <2>4, <2>5, <3>1
      <3> QED BY <3>1, <3>2
    <2>8. ASSUME NEW j \in 1..m, In(k, j)
          PROVE  <<"AUX", base + j - 1>> \in regs(k) /\ part(k)[j - a] = vals[j]
      <3>1. j - a \in 1..(c - a) /\ a + (j - a) = j /\ base + a + (j - a) - 1 = base + j - 1
        BY <2>4, <2>5, <2>8
      <3> QED BY <2>5, <2>6, <3>1
    <2>9. \A x \in regs(k) : \E j \in 1..m : In(k, j) /\ x = <<"AUX", base + j - 1>>
      <3> SUFFICES ASSUME NEW i \in 1..(c - a)
                   PROVE  \E j \in 1..m : In(k, j) /\ <<"AUX", base + a + i - 1>> = <<"AUX", base + j - 1>>
        BY <2>5, <2>6
      <3> QED BY <2>7
    <2> QED BY <2>8, <2>9 DEF a
  <1>7. ASSUME NEW k \in 1..n, NEW r \in Nat, NEW b, \A j \in 1..m : In(k, j) => r # base + j - 1
        PROVE  Effect(p[k], <<<<"AUX", r>>, b>>) = "keep"
    <2>1. <<"AUX", r>> \notin regs(k) BY <1>6, <1>7
    <2> HIDE DEF regs, part, In, ptr
    <2>2. DOMAIN p[k].write = regs(k) BY <1>3 DEF Access
    <2> QED BY <2>1, <2>2 DEF Effect
  <1>8. ASSUME NEW k \in 1..n, NEW j \in 1..m, In(k, j), NEW b \in Byte
        PROVE  Effect(p[k], <<<<"AUX", base + j - 1>>, b>>) = To(b \in vals[j])
    <2> DEFINE x == <<"AUX", base + j - 1>>
    <2>1. x \in regs(k) /\ part(k)[j - ptr(k)] = vals[j] BY <1>6, <1>8
    <2>2. x[2] - base - ptr(k) + 1 = j - ptr(k)
      <3>1. ptr(k) \in Int BY <1>2, ServiceAssumption
      <3> HIDE DEF ptr
      <3> QED BY <3>1
    <2> HIDE DEF regs, part, In, ptr
    <2>3. DOMAIN p[k].write = regs(k) /\ p[k].write[x] = [mask |-> Byte, val |-> part(k)[x[2] - base - ptr(k) + 1]]
      BY <1>3, <2>1 DEF Access
    <2>4. p[k].write[x].mask = Byte /\ p[k].write[x].val = vals[j] BY <2>1, <2>2, <2>3
    <2> DEFINE y == <<x, b>>
    <2>5. y[1] = x /\ y[2] = b
      OBVIOUS
    <2> HIDE DEF x, y
    <2>6. Effect(p[k], y) = To(b \in vals[j]) BY <2>1, <2>3, <2>4, <2>5 DEF Effect, To
    <2> QED BY <2>6 DEF x, y
  <1> HIDE DEF regs, part
  <1>9. WritesIn(p, {"AUX"})
    <2>1. ASSUME NEW k \in 1..n, NEW x \in DOMAIN p[k].write PROVE Label(x) \in {"AUX"} /\ x[1] \notin Slim
      <3>1. x \in regs(k) BY <1>3, <2>1 DEF Access
      <3>2. \E r : x = <<"AUX", r>> BY <1>6, <3>1
      <3> QED BY <3>2, LabelIs DEF Slim
    <2> QED BY <1>5, <2>1 DEF WritesIn, FitsIn
  <1>10. ASSUME NEW j \in 1..m, NEW b \in Byte
         PROVE  Ends(p, <<<<"AUX", base + j - 1>>, b>>, To(b \in vals[j]))
    <2> DEFINE y == <<<<"AUX", base + j - 1>>, b>>
    <2>1. PICK k \in 1..n : In(k, j) BY FrameOf DEF n
    <2>2. Effect(p[k], y) = To(b \in vals[j]) BY <1>8, <2>1
    <2>3. ASSUME NEW l \in 1..n, l > k PROVE Effect(p[l], y) = "keep"
      <3>1. j \in Nat /\ k \in Nat /\ l \in Nat /\ k < l /\ j <= k * Burst BY <1>2, <2>1, <2>3
      <3>2. ~ In(l, j) BY <3>1, FrameOne
      <3> HIDE DEF In
      <3>3. base + j - 1 \in Nat
        OBVIOUS
      <3>4. \A i \in 1..m : base + i - 1 = base + j - 1 => i = j
        OBVIOUS
      <3> QED BY <1>7, <3>2, <3>3, <3>4
    <2>4. To(b \in vals[j]) # "keep" BY DEF To
    <2> HIDE DEF y
    <2> DEFINE v == To(b \in vals[j])
    <2>5. v # "keep" /\ Effect(p[k], y) = v /\ \A l \in 1..n : l > k => Effect(p[l], y) = "keep"
      BY <2>2, <2>3, <2>4
    <2> HIDE DEF v
    <2>6. Ends(p, y, v) BY <1>5, <2>5 DEF Ends
    <2> QED BY <2>6 DEF v, y
  <1>11. ASSUME NEW r \in Nat, NEW b, \A j \in 1..m : r # base + j - 1
         PROVE  Ends(p, <<<<"AUX", r>>, b>>, "keep")
    <2>1. \A k \in 1..n : Effect(p[k], <<<<"AUX", r>>, b>>) = "keep" BY <1>7, <1>11
    <2> QED BY <1>5, <2>1 DEF Ends
  <1> QED BY <1>9, <1>10, <1>11 DEF p

\* Counted from its start, a run holds registers at adjacent addresses.
LEMMA RunAdjacent ==
    ASSUME NEW s \in Nat, NEW e \in Nat, NEW f, \A j \in s..e : f[j] \in Nat,
           \A j \in s..e : j # s => f[j] = f[j - 1] + 1
    PROVE  \A j \in s..e : f[j] = f[s] + (j - s)
  <1> DEFINE T == {j \in s..e : f[j] # f[s] + (j - s)}
  <1> SUFFICES ASSUME T # {} PROVE FALSE
    OBVIOUS
  <1>1. T \subseteq Nat
    OBVIOUS
  <1> HIDE DEF T
  <1>2. PICK t \in T : \A y \in T : t <= y BY <1>1, LeastInSet
  <1>3. t \in s..e /\ f[t] # f[s] + (t - s) BY DEF T
  <1>4. t # s
    <2>1. f[s] \in Nat /\ s - s = 0 BY <1>3
    <2> QED BY <1>3, <2>1
  <1>5. t - 1 \in s..e /\ ~ (t <= t - 1) BY <1>3, <1>4
  <1>6. f[t - 1] = f[s] + ((t - 1) - s) BY <1>2, <1>5 DEF T
  <1>7. f[t] = f[t - 1] + 1 /\ f[s] \in Nat BY <1>3, <1>4
  <1> QED BY <1>3, <1>5, <1>6, <1>7

LEMMA LeastIs ==
    ASSUME NEW T, T \subseteq Nat, T # {}
    PROVE  Min(T) \in T /\ \A x \in T : Min(T) <= x
  BY LeastInSet DEF Min

\* A list is a program whose runs write what its lines say.
LEMMA DoesWrite ==
    ASSUME NEW rv \in Loads
    PROVE  Does(Write(rv), Pairs(AskedOf([i \in DOMAIN rv |-> <<rv[i][1], Byte, rv[i][2]>>])))
  <1> DEFINE n == Len(rv)
             starts == {i \in DOMAIN rv : i = 1 \/ rv[i][1] # rv[i - 1][1] + 1}
             T(i) == {j \in i..n : j = n \/ j + 1 \in starts}
             end(i) == Min(T(i))
             vals(i) == [j \in 1..(end(i) - i + 1) |-> rv[i + j - 1][2]]
             ss == [i \in DOMAIN rv |-> IF i \in starts THEN WriteRegs(rv[i][1], vals(i)) ELSE <<>>]
             lines == [i \in DOMAIN rv |-> <<rv[i][1], Byte, rv[i][2]>>]
             addr == [i \in DOMAIN rv |-> rv[i][1]]
             p == Write(rv)
  <1>1. n \in Nat /\ DOMAIN rv = 1..n /\ \A i \in 1..n : rv[i][1] \in Nat /\ rv[i][2] \subseteq Byte
    BY ServiceAssumption DEF Byte
  <1>2. p = FlattenSeq(ss) BY DEF Write
  <1>3. /\ starts \subseteq 1..n
        /\ 1 \in 1..n => 1 \in starts
        /\ \A i \in 1..n : i = 1 \/ i \in starts \/ addr[i] = addr[i - 1] + 1
    BY <1>1
  <1>4. /\ lines = [i \in 1..n |-> lines[i]] /\ addr = [i \in 1..n |-> addr[i]]
        /\ \A i \in 1..n : /\ lines[i][1] = addr[i] /\ addr[i] = rv[i][1] /\ addr[i] \in Nat
                           /\ lines[i][2] = Byte /\ lines[i][3] = rv[i][2]
    BY <1>1
  <1>5. ss = [i \in 1..n |-> ss[i]] /\ \A i \in 1..n : ss[i] = IF i \in starts THEN WriteRegs(addr[i], vals(i)) ELSE <<>>
    BY <1>1
  <1>6. ASSUME NEW i \in 1..n
        PROVE  /\ end(i) \in i..n /\ (end(i) = n \/ end(i) + 1 \in starts)
               /\ \A j \in i..n : j < end(i) => j + 1 \notin starts
    <2>1. T(i) \subseteq Nat /\ n \in T(i) BY <1>1
    <2>2. end(i) \in T(i) /\ \A x \in T(i) : end(i) <= x
      <3> HIDE DEF T
      <3> QED BY <2>1, LeastIs
    <2> HIDE DEF end
    <2>3. \A j \in i..n : j < end(i) => j \notin T(i)
      <3>1. end(i) \in Nat BY <2>1, <2>2
      <3> HIDE DEF T
      <3> QED BY <2>2, <3>1
    <2> QED BY <2>2, <2>3
  <1> HIDE DEF T, end, starts, ss, lines, addr, n
  \* A run.
  <1>7. ASSUME NEW s \in starts
        PROVE  \A j \in s..end(s) : j \in 1..n /\ addr[j] = addr[s] + (j - s)
    <2>1. s \in 1..n /\ end(s) \in s..n BY <1>3, <1>6
    <2>2. \A j \in s..end(s) : j \in 1..n /\ addr[j] \in Nat BY <1>1, <1>4, <2>1
    <2>3. ASSUME NEW j \in s..end(s), j # s PROVE addr[j] = addr[j - 1] + 1
      <3>1. j - 1 \in s..n /\ j - 1 < end(s) /\ j # 1 /\ (j - 1) + 1 = j BY <1>1, <2>1, <2>3
      <3>2. j \notin starts BY <1>6, <2>1, <3>1
      <3> QED BY <1>3, <2>2, <3>1, <3>2
    <2>4. s \in Nat /\ end(s) \in Nat BY <1>1, <2>1
    <2>5. \A j \in s..end(s) : addr[j] = addr[s] + (j - s) BY <2>2, <2>3, <2>4, RunAdjacent
    <2> QED BY <2>2, <2>5
  <1>8. ASSUME NEW i \in 1..n
        PROVE  \E s \in starts : i \in s..end(s) /\ \A t \in starts : t > s => t > i
    <2> DEFINE B == {t \in starts : t <= i}
    <2>0. 1 \in 1..n /\ 1 <= i BY <1>1
    <2>1. 1 \in B /\ B \subseteq 1..n BY <1>3, <2>0
    <2> HIDE DEF B
    <2>2. PICK s \in B : \A t \in B : t <= s BY <1>1, <2>1, MostInSet
    <2>3. s \in starts /\ s <= i /\ s \in 1..n BY <2>1 DEF B
    <2>4. ASSUME NEW t \in starts, t > s PROVE t > i BY <1>1, <1>3, <2>2, <2>3, <2>4 DEF B
    <2>5. i <= end(s)
      <3>1. end(s) \in s..n /\ (end(s) = n \/ end(s) + 1 \in starts) BY <1>6, <2>3
      <3>2. end(s) + 1 \in starts => end(s) + 1 > i BY <2>3, <2>4, <3>1, <1>1
      <3> QED BY <1>1, <2>3, <3>1, <3>2
    <2>6. i \in s..end(s) BY <1>1, <1>6, <2>3, <2>5
    <2> QED BY <2>3, <2>4, <2>6
  <1>9. ASSUME NEW s \in starts
        PROVE  /\ WritesIn(ss[s], {"AUX"})
               /\ \A i \in s..end(s), b \in Byte : Ends(ss[s], <<<<"AUX", addr[i]>>, b>>, To(b \in lines[i][3]))
               /\ \A b : \A r \in Nat : (\A i \in s..end(s) : addr[i] # r) => Ends(ss[s], <<<<"AUX", r>>, b>>, "keep")
    <2> DEFINE m == end(s) - s + 1
               v == vals(s)
    <2>1. s \in 1..n /\ end(s) \in s..n /\ addr[s] \in Nat BY <1>3, <1>4, <1>6
    <2>2. m \in Nat BY <1>1, <2>1
    <2>3. v = [j \in 1..m |-> v[j]] /\ \A j \in 1..m : v[j] = rv[s + j - 1][2]
      OBVIOUS
    <2>4. ss[s] = WriteRegs(addr[s], v) BY <1>5, <2>1
    <2> HIDE DEF m, v
    <2>5. /\ WritesIn(ss[s], {"AUX"})
          /\ \A j \in 1..m, b \in Byte : Ends(ss[s], <<<<"AUX", addr[s] + j - 1>>, b>>, To(b \in v[j]))
          /\ \A b : \A r \in Nat : (\A j \in 1..m : r # addr[s] + j - 1) => Ends(ss[s], <<<<"AUX", r>>, b>>, "keep")
      <3>1. \A base \in Nat : /\ WritesIn(WriteRegs(base, v), {"AUX"})
                              /\ \A j \in 1..m, b \in Byte :
                                     Ends(WriteRegs(base, v), <<<<"AUX", base + j - 1>>, b>>, To(b \in v[j]))
                              /\ \A b : \A r \in Nat : (\A j \in 1..m : r # base + j - 1)
                                     => Ends(WriteRegs(base, v), <<<<"AUX", r>>, b>>, "keep")
        BY <2>2, <2>3, WriteRegsEnds
      <3> DEFINE base == addr[s]
      <3>2. base \in Nat /\ ss[s] = WriteRegs(base, v) BY <2>1, <2>4
      <3>3. WritesIn(ss[s], {"AUX"}) BY <3>1, <3>2, Zenon
      <3>4. \A j \in 1..m, b \in Byte : Ends(ss[s], <<<<"AUX", base + j - 1>>, b>>, To(b \in v[j]))
        <4> HIDE DEF base
        <4> QED BY <3>1, <3>2, Zenon
      <3>5. \A b : \A r \in Nat : (\A j \in 1..m : r # base + j - 1) => Ends(ss[s], <<<<"AUX", r>>, b>>, "keep")
        <4> HIDE DEF base
        <4>1. \A b : \A r \in Nat : (\A j \in 1..m : r # base + j - 1)
                  => Ends(WriteRegs(base, v), <<<<"AUX", r>>, b>>, "keep")
          BY <2>2, <2>3, <3>2, WriteRegsEnds
        <4> QED BY <3>2, <4>1
      <3> QED BY <3>3, <3>4, <3>5
    <2>6. ASSUME NEW i \in s..end(s), NEW b \in Byte
          PROVE  Ends(ss[s], <<<<"AUX", addr[i]>>, b>>, To(b \in lines[i][3]))
      <3> DEFINE j == i - s + 1
      <3>1. j \in 1..m /\ s + j - 1 = i /\ addr[s] + j - 1 = addr[s] + (i - s) BY <1>1, <2>1 DEF m
      <3> HIDE DEF j
      <3>2. addr[i] = addr[s] + j - 1 /\ i \in 1..n BY <1>7, <3>1
      <3>3. v[j] = lines[i][3] BY <1>4, <2>3, <3>1, <3>2
      <3> QED BY <2>5, <3>1, <3>2, <3>3
    <2>7. ASSUME NEW r \in Nat, NEW b, \A i \in s..end(s) : addr[i] # r
          PROVE  Ends(ss[s], <<<<"AUX", r>>, b>>, "keep")
      <3>1. ASSUME NEW j \in 1..m PROVE r # addr[s] + j - 1
        <4> DEFINE i == s + j - 1
        <4>1. i \in s..end(s) /\ addr[s] + (i - s) = addr[s] + j - 1 BY <1>1, <2>1 DEF m
        <4> HIDE DEF i
        <4> QED BY <1>7, <2>7, <4>1
      <3> QED BY <2>5, <3>1
    <2> QED BY <2>5, <2>6, <2>7
  <1>10. \A i \in 1..n : WritesIn(ss[i], {"AUX"}) /\ Prog(ss[i])
    BY <1>5, <1>9, InNone, Zenon DEF WritesIn
  <1>11. WritesIn(p, {"AUX"}) BY <1>1, <1>2, <1>5, <1>10, InFlatten
  <1>12. ASSUME NEW i \in 1..n, i \notin starts, NEW x PROVE Ends(ss[i], x, "keep")
    BY <1>5, <1>12, EndsNone
  <1>13. ASSUME NEW r \in Nat, NEW b \in Byte, HitsOn(lines, r, b) = {}
         PROVE  Ends(p, <<<<"AUX", r>>, b>>, "keep")
    <2>0. DOMAIN lines = 1..n BY <1>4
    <2>1. \A i \in 1..n : addr[i] # r BY <1>4, <1>13, <2>0 DEF HitsOn
    <2>2. \A i \in 1..n : Ends(ss[i], <<<<"AUX", r>>, b>>, "keep") BY <1>7, <1>9, <1>12, <2>1
    <2> QED BY <1>1, <1>2, <1>5, <1>10, <2>2, EndsFlatten
  <1>14. ASSUME NEW r \in Nat, NEW b \in Byte, NEW i \in HitsOn(lines, r, b),
                \A j \in HitsOn(lines, r, b) : j <= i
         PROVE  Ends(p, <<<<"AUX", r>>, b>>, To(b \in lines[i][3]))
    <2> DEFINE y == <<<<"AUX", r>>, b>>
               v == To(b \in lines[i][3])
    <2>1. i \in 1..n /\ addr[i] = r /\ \A j \in 1..n : addr[j] = r => j <= i
      BY <1>4, <1>14 DEF HitsOn
    <2>2. PICK s \in starts : i \in s..end(s) /\ \A t \in starts : t > s => t > i BY <1>8, <2>1
    <2>3. v # "keep" /\ Ends(ss[s], y, v) /\ s \in 1..n BY <1>3, <1>9, <2>1, <2>2 DEF To
    <2>4. ASSUME NEW t \in 1..n, t > s PROVE Ends(ss[t], y, "keep")
      <3>1. CASE t \in starts
        <4>1. t > i BY <2>2, <2>4, <3>1
        <4>2. ASSUME NEW k \in t..end(t), addr[k] = r PROVE FALSE
          <5>1. k \in 1..n BY <1>7, <3>1, <4>2
          <5>2. k <= i /\ k >= t BY <2>1, <4>2, <5>1
          <5> QED BY <1>1, <2>1, <4>1, <5>1, <5>2
        <4> QED BY <1>9, <3>1, <4>2
      <3>2. CASE t \notin starts BY <1>12, <3>2
      <3> QED BY <3>1, <3>2
    <2> HIDE DEF y, v
    <2>5. Ends(FlattenSeq(ss), y, v) BY <1>1, <1>5, <1>10, <2>3, <2>4, EndsFlatten
    <2> QED BY <1>2, <2>5 DEF y, v
  <1>15. \A i \in 1..n : lines[i][1] \in Nat /\ lines[i][2] \subseteq Byte BY <1>4
  <1> HIDE DEF p
  <1>16. Does(p, Pairs(AskedOf(lines))) BY <1>1, <1>4, <1>11, <1>13, <1>14, <1>15, DoesLines
  <1> QED BY <1>16 DEF p, lines
-----------------------------------------------------------------------------
(***************************************************************************)
(* Programs made of several services.                                      *)
(***************************************************************************)
EachOne(n, ss, keys, vals, W) ==
    /\ n \in Nat /\ ss = [k \in 1..n |-> ss[k]]
    /\ \A k \in 1..n : Does(ss[k], {<<keys[k], vals[k]>>})
    /\ \A k, l \in 1..n : k # l => keys[k] # keys[l]
    /\ \A k \in 1..n : <<keys[k], vals[k]>> \in W
    /\ \A w \in W : \E k \in 1..n : w = <<keys[k], vals[k]>>

LEMMA DoesEach ==
    ASSUME NEW n, NEW ss, NEW keys, NEW vals, NEW W, EachOne(n, ss, keys, vals, W)
    PROVE  Does(FlattenSeq(ss), W)
  <1> DEFINE e(k) == <<keys[k], vals[k]>>
             Ws == [k \in 1..n |-> {e(k)}]
  <1>1. \A k \in 1..n : e(k)[1] = keys[k] /\ e(k) \in W BY DEF EachOne
  <1>2. \A k \in 1..n : Does(ss[k], Ws[k]) BY DEF EachOne
  <1>3. \A k \in 1..n : Ws[k] = {e(k)} BY DEF EachOne
  <1>4. \A w \in W : \E k \in 1..n : w = e(k) BY DEF EachOne
  <1>0. n \in Nat /\ ss = [k \in 1..n |-> ss[k]] /\ \A k, l \in 1..n : k # l => keys[k] # keys[l]
    BY DEF EachOne
  <1> HIDE DEF e, Ws
  <1>5. ASSUME NEW w \in W
        PROVE  \E k \in 1..n : w \in Ws[k] /\ \A l \in 1..n : l > k => \A u \in Ws[l] : u[1] # w[1]
    <2>1. PICK k \in 1..n : w = e(k) BY <1>4
    <2>2. \A l \in 1..n : l > k => k # l
      OBVIOUS
    <2> QED BY <1>0, <1>1, <1>3, <2>1, <2>2
  <1>6. \A k \in 1..n : \A u \in Ws[k] : \E w \in W : w[1] = u[1] BY <1>1, <1>3
  <1>7. Decides(n, ss, Ws, W) BY <1>0, <1>2, <1>5, <1>6 DEF Decides
  <1> QED BY <1>7, DoesFlatten

\* Parts that all do the same.
LEMMA DoesAgain ==
    ASSUME NEW n \in Nat, n > 0, NEW ss, ss = [k \in 1..n |-> ss[k]], NEW W,
           \A k \in 1..n : Does(ss[k], W)
    PROVE  Does(FlattenSeq(ss), W)
  <1> DEFINE Ws == [k \in 1..n |-> W]
  <1>1. \A k \in 1..n : Ws[k] = W
    OBVIOUS
  <1> HIDE DEF Ws
  <1>2. n \in 1..n /\ \A l \in 1..n : ~ (l > n)
    OBVIOUS
  <1>3. \A w \in W : \E k \in 1..n : w \in Ws[k] /\ \A l \in 1..n : l > k => \A u \in Ws[l] : u[1] # w[1]
    BY <1>1, <1>2
  <1>4. \A k \in 1..n : \A u \in Ws[k] : \E w \in W : w[1] = u[1] BY <1>1
  <1>5. \A k \in 1..n : Does(ss[k], Ws[k]) BY <1>1
  <1>6. Decides(n, ss, Ws, W) BY <1>3, <1>4, <1>5 DEF Decides
  <1> QED BY <1>6, DoesFlatten

\* Two programs about items of different kinds.
LEMMA DoesKinds ==
    ASSUME NEW p, NEW q, NEW U, NEW V, Does(p, U), Does(q, V), NEW K,
           \A u \in U : u[1][1] \in K, \A v \in V : v[1][1] \notin K
    PROVE  Does(p \o q, U \cup V)
  <1>1. \A u \in U, v \in V : u[1] # v[1]
    OBVIOUS
  <1> QED BY <1>1, DoesUnion

LEMMA DoesPins ==
    ASSUME NEW n, NEW names, PinsOf(n, names)
    PROVE  Does(SetPins(names), CfgItems(names))
  <1> DEFINE ss == [i \in DOMAIN names |-> GpioCfgSet(names[i][1], names[i][2], names[i][3])]
             keys == [i \in 1..n |-> <<"cfg", names[i][1]>>]
             vals == [i \in 1..n |-> names[i][2]]
  <1>1. n \in Nat /\ DOMAIN names = 1..n /\ ss = [i \in 1..n |-> ss[i]] BY DEF PinsOf
  <1>2. \A i \in 1..n : Does(ss[i], {<<keys[i], vals[i]>>}) BY <1>1, DoesCfg DEF PinsOf
  <1>3. \A k, l \in 1..n : k # l => keys[k] # keys[l] BY DEF PinsOf
  <1>4. SetPins(names) = FlattenSeq(ss) BY DEF SetPins
  <1>5. /\ \A k \in 1..n : <<keys[k], vals[k]>> \in CfgItems(names)
        /\ \A w \in CfgItems(names) : \E k \in 1..n : w = <<keys[k], vals[k]>>
    BY <1>1 DEF CfgItems, ToSet
  <1> HIDE DEF ss, keys, vals
  <1>6. EachOne(n, ss, keys, vals, CfgItems(names)) BY <1>1, <1>2, <1>3, <1>5 DEF EachOne
  <1> QED BY <1>4, <1>6, DoesEach

OutItems(S) == {<<<<"out", p>>, TRUE>> : p \in S}

LEMMA DoesHigh ==
    ASSUME NEW n \in Nat, NEW pins, pins = [i \in 1..n |-> pins[i]], \A i \in 1..n : pins[i] \in Pins12,
           \A i, j \in 1..n : i # j => pins[i] # pins[j]
    PROVE  Does(High(pins), OutItems(ToSet(pins)))
  <1> DEFINE yes == TRUE
             ss == [i \in DOMAIN pins |-> GpioSet(pins[i], yes)]
             keys == [i \in 1..n |-> <<"out", pins[i]>>]
             vals == [i \in 1..n |-> yes]
  <1>1. High(pins) = FlattenSeq(ss) BY DEF High
  <1>2. OutItems(ToSet(pins)) = {<<<<"out", p>>, yes>> : p \in ToSet(pins)} BY DEF OutItems
  <1>3. yes \in BOOLEAN
    OBVIOUS
  <1> HIDE DEF yes
  <1>4. ss = [i \in 1..n |-> ss[i]] /\ \A i \in 1..n : Does(ss[i], {<<keys[i], vals[i]>>})
    BY <1>3, DoesSet
  <1>5. \A k, l \in 1..n : k # l => keys[k] # keys[l]
    OBVIOUS
  <1>6. /\ \A k \in 1..n : <<keys[k], vals[k]>> \in OutItems(ToSet(pins))
        /\ \A w \in OutItems(ToSet(pins)) : \E k \in 1..n : w = <<keys[k], vals[k]>>
    BY <1>2 DEF ToSet
  <1> HIDE DEF ss, keys, vals
  <1>7. EachOne(n, ss, keys, vals, OutItems(ToSet(pins))) BY <1>4, <1>5, <1>6 DEF EachOne
  <1> QED BY <1>1, <1>7, DoesEach

LEMMA DoesEtxAll == Does(FlattenSeq([i \in 1..7 |-> SetupEtx(i - 1, TRUE, FALSE, 4)]), EtxItems)
  <1> DEFINE yes == TRUE
             no == FALSE
             v == <<yes, no>>
             ss == [i \in 1..7 |-> SetupEtx(i - 1, yes, no, 4)]
             keys == [i \in 1..7 |-> <<"etx", i - 1>>]
             vals == [i \in 1..7 |-> v]
  <1>1. EtxItems = {<<<<"etx", i>>, v>> : i \in 0..6} /\ yes \in BOOLEAN /\ no \in BOOLEAN
    BY DEF EtxItems, Straight
  <1>2. [i \in 1..7 |-> SetupEtx(i - 1, TRUE, FALSE, 4)] = ss
    OBVIOUS
  <1> HIDE DEF yes, no
  <1>3. \A i \in 1..7 : i - 1 \in 0..6
    OBVIOUS
  <1>4. ss = [i \in 1..7 |-> ss[i]] /\ \A i \in 1..7 : Does(ss[i], {<<keys[i], vals[i]>>})
    BY <1>1, <1>3, DoesEtx
  <1> HIDE DEF v
  <1>5. \A k, l \in 1..7 : k # l => keys[k] # keys[l]
    OBVIOUS
  <1>6. /\ \A k \in 1..7 : <<keys[k], vals[k]>> \in EtxItems
        /\ \A w \in EtxItems : \E k \in 1..7 : w = <<keys[k], vals[k]>>
    <2>1. \A i \in 0..6 : i + 1 \in 1..7 /\ keys[i + 1] = <<"etx", i>> /\ vals[i + 1] = v
      OBVIOUS
    <2>2. \A k \in 1..7 : <<keys[k], vals[k]>> \in EtxItems BY <1>1, <1>3
    <2>3. \A i \in 0..6 : \E k \in 1..7 : <<<<"etx", i>>, v>> = <<keys[k], vals[k]>> BY <2>1
    <2> QED BY <1>1, <2>2, <2>3
  <1> HIDE DEF ss, keys, vals
  <1>7. EachOne(7, ss, keys, vals, EtxItems) BY <1>4, <1>5, <1>6 DEF EachOne
  <1>8. Does(FlattenSeq(ss), EtxItems) BY <1>7, DoesEach
  <1> QED BY <1>2, <1>8

LEMMA DoesErxAll ==
    \A invert : Does(FlattenSeq([i \in 1..6 |-> SetupErx(i - 1, 0, 0, 3, invert, TRUE)]), AllErx(6))
  <1> TAKE invert
  <1> DEFINE ss == [i \in 1..6 |-> SetupErx(i - 1, 0, 0, 3, invert, TRUE)]
             keys == [i \in 1..6 |-> <<"erx", i - 1>>]
             vals == [i \in 1..6 |-> 0]
  <1>1. AllErx(6) = {<<<<"erx", i>>, 0>> : i \in 0..5} BY DEF AllErx
  <1>2. \A i \in 1..6 : i - 1 \in 0..5
    OBVIOUS
  <1>3. ss = [i \in 1..6 |-> ss[i]] /\ \A i \in 1..6 : Does(ss[i], {<<keys[i], vals[i]>>})
    BY <1>2, DoesErx
  <1>4. \A k, l \in 1..6 : k # l => keys[k] # keys[l]
    OBVIOUS
  <1>5. /\ \A k \in 1..6 : <<keys[k], vals[k]>> \in AllErx(6)
        /\ \A w \in AllErx(6) : \E k \in 1..6 : w = <<keys[k], vals[k]>>
    <2>1. \A i \in 0..5 : i + 1 \in 1..6 /\ keys[i + 1] = <<"erx", i>> /\ vals[i + 1] = 0
      OBVIOUS
    <2>2. \A k \in 1..6 : <<keys[k], vals[k]>> \in AllErx(6) BY <1>1, <1>2
    <2>3. \A i \in 0..5 : \E k \in 1..6 : <<<<"erx", i>>, 0>> = <<keys[k], vals[k]>> BY <2>1
    <2> QED BY <1>1, <2>2, <2>3
  <1> HIDE DEF ss, keys, vals
  <1>6. EachOne(6, ss, keys, vals, AllErx(6)) BY <1>3, <1>4, <1>5 DEF EachOne
  <1>7. Does(FlattenSeq(ss), AllErx(6)) BY <1>6, DoesEach
  <1> QED BY <1>7 DEF ss

\* The tests of the bench that set links and clocks.
LEMMA DoesTestEclk == Does(TestEclk, EclkItems(8))
  <1> DEFINE ts(i) == [k \in 1..4 |-> SetupEclk(i - 1, 20 * 2^k) \o SetupEclk(i - 1, 0)]
             ss == [i \in 1..8 |-> FlattenSeq(ts(i))]
             keys == [i \in 1..8 |-> <<"eclk", i - 1>>]
             vals == [i \in 1..8 |-> 0]
             W(i) == {<<<<"eclk", i - 1>>, 0>>}
  <1>1. ASSUME NEW i \in 1..8, NEW rate PROVE Does(SetupEclk(i - 1, rate) \o SetupEclk(i - 1, 0), W(i))
    <2> DEFINE j == i - 1
               U == {<<<<"eclk", j>>, rate>>}
               V == {<<<<"eclk", j>>, 0>>}
    <2>1. j \in 0..7
      OBVIOUS
    <2> HIDE DEF j
    <2>2. Does(SetupEclk(j, rate), U) /\ Does(SetupEclk(j, 0), V) BY <2>1, DoesEclk
    <2>3. \A u \in U \cup V : \E w \in V : w[1] = u[1]
      OBVIOUS
    <2> HIDE DEF U, V
    <2>4. Does(SetupEclk(j, rate) \o SetupEclk(j, 0), V) BY <2>2, <2>3, DoesJoin
    <2> QED BY <2>4 DEF j, V
  <1>2. \A i \in 1..8 : ts(i) = [k \in 1..4 |-> ts(i)[k]] /\ \A k \in 1..4 : Does(ts(i)[k], W(i))
    BY <1>1
  <1>3. TestEclk = FlattenSeq(ss) BY DEF TestEclk
  <1>4. \A i \in 1..8 : W(i) = {<<keys[i], vals[i]>>}
    OBVIOUS
  <1>5. \A k, l \in 1..8 : k # l => keys[k] # keys[l]
    OBVIOUS
  <1>6. /\ \A k \in 1..8 : <<keys[k], vals[k]>> \in EclkItems(8)
        /\ \A w \in EclkItems(8) : \E k \in 1..8 : w = <<keys[k], vals[k]>>
    <2>1. \A i \in 1..8 : i - 1 \in 0..7
      OBVIOUS
    <2>2. EclkItems(8) = {<<<<"eclk", i>>, 0>> : i \in 0..7} BY DEF EclkItems
    <2>3. \A i \in 0..7 : i + 1 \in 1..8 /\ keys[i + 1] = <<"eclk", i>> /\ vals[i + 1] = 0
      OBVIOUS
    <2>4. \A i \in 0..7 : \E k \in 1..8 : <<<<"eclk", i>>, 0>> = <<keys[k], vals[k]>> BY <2>3
    <2> QED BY <2>1, <2>2, <2>4
  <1> HIDE DEF ts, W, keys, vals
  <1>7. ss = [i \in 1..8 |-> ss[i]] /\ \A i \in 1..8 : Does(ss[i], {<<keys[i], vals[i]>>})
    <2>1. ASSUME NEW i \in 1..8 PROVE Does(FlattenSeq(ts(i)), W(i))
      <3> DEFINE t == ts(i)
                 w == W(i)
                 m == 4
      <3>1. m \in Nat /\ m > 0 /\ t = [k \in 1..m |-> t[k]] /\ \A k \in 1..m : Does(t[k], w) BY <1>2
      <3> HIDE DEF t, w, m
      <3>2. Does(FlattenSeq(t), w) BY <3>1, DoesAgain
      <3> QED BY <3>2 DEF t, w
    <2> QED BY <1>4, <2>1
  <1> HIDE DEF ss
  <1>8. EachOne(8, ss, keys, vals, EclkItems(8)) BY <1>5, <1>6, <1>7 DEF EachOne
  <1> QED BY <1>3, <1>8, DoesEach

LEMMA DoesTests == Does(TestCtl, EtxItems) /\ Does(TestElinks, AllErx(6)) /\ Does(Receivers, AllErx(6))
  <1>1. Does(TestCtl, EtxItems) BY DoesEtxAll DEF TestCtl
  <1>2. Does(TestElinks, AllErx(6)) BY DoesErxAll DEF TestElinks
  <1>3. Does(Receivers, AllErx(6)) BY DoesErxAll DEF Receivers
  <1> QED BY <1>1, <1>2, <1>3

\* RESET: what the pin is set to in the end.
LEMMA DoesReset == Does(GpioSet(11, FALSE) \o GpioSet(11, TRUE), {<<<<"out", 11>>, TRUE>>})
  <1> DEFINE no == FALSE
             yes == TRUE
             U == {<<<<"out", 11>>, no>>}
             V == {<<<<"out", 11>>, yes>>}
  <1>1. no \in BOOLEAN /\ yes \in BOOLEAN /\ 11 \in Pins12 BY DEF Pins12
  <1> HIDE DEF no, yes
  <1>2. Does(GpioSet(11, no), U) /\ Does(GpioSet(11, yes), V) BY <1>1, DoesSet
  <1>3. \A u \in U \cup V : \E w \in V : w[1] = u[1]
    OBVIOUS
  <1> HIDE DEF U, V
  <1>4. Does(GpioSet(11, no) \o GpioSet(11, yes), V) BY <1>2, <1>3, DoesJoin
  <1> QED BY <1>4 DEF no, yes, V

\* The clocks of the mezzanine in the order they are set up.
LEMMA DoesClocks ==
    Does(FlattenSeq([k \in 1..8 |-> LET i == <<0, 1, 2, 3, 4, 6, 5, 7>>[k]
                                    IN  SetupEclk(i, IF i = 7 THEN 40 ELSE 320)]), ClockItems)
  <1> DEFINE order == <<0, 1, 2, 3, 4, 6, 5, 7>>
             rate(i) == IF i = 7 THEN 40 ELSE 320
             ss == [k \in 1..8 |-> SetupEclk(order[k], rate(order[k]))]
             keys == [k \in 1..8 |-> <<"eclk", order[k]>>]
             vals == [k \in 1..8 |-> rate(order[k])]
  <1>1. /\ \A k \in 1..8 : order[k] \in 0..7
        /\ \A k, l \in 1..8 : k # l => order[k] # order[l]
        /\ \A i \in 0..7 : \E k \in 1..8 : order[k] = i
    OBVIOUS
  <1>2. [k \in 1..8 |-> LET i == <<0, 1, 2, 3, 4, 6, 5, 7>>[k]
                        IN  SetupEclk(i, IF i = 7 THEN 40 ELSE 320)] = ss
    OBVIOUS
  <1>3. ClockItems = {<<<<"eclk", i>>, rate(i)>> : i \in 0..7} BY DEF ClockItems
  <1> HIDE DEF order, rate
  <1>4. ss = [k \in 1..8 |-> ss[k]] /\ \A k \in 1..8 : Does(ss[k], {<<keys[k], vals[k]>>})
    BY <1>1, DoesEclk
  <1>5. \A k, l \in 1..8 : k # l => keys[k] # keys[l] BY <1>1
  <1>6. /\ \A k \in 1..8 : <<keys[k], vals[k]>> \in ClockItems
        /\ \A w \in ClockItems : \E k \in 1..8 : w = <<keys[k], vals[k]>>
    BY <1>1, <1>3
  <1> HIDE DEF ss, keys, vals
  <1>7. EachOne(8, ss, keys, vals, ClockItems) BY <1>4, <1>5, <1>6 DEF EachOne
  <1>8. Does(FlattenSeq(ss), ClockItems) BY <1>7, DoesEach
  <1> QED BY <1>2, <1>8

\* The lists of pins of the standard set-ups.
LEMMA SetupPins == PinsOf(6, HcalDaqPins) /\ PinsOf(8, HcalTrigPins) /\ PinsOf(5, EcalPins)
  <1>1. PinsOf(6, HcalDaqPins)
    <2> DEFINE n == HcalDaqPins
    <2>1. n = [i \in 1..6 |-> n[i]] BY DEF HcalDaqPins
    <2>2. \A i \in 1..6 : n[i][1] \in Pins12 BY DEF HcalDaqPins, Pins12
    <2>3. \A i, j \in 1..6 : i # j => n[i][1] # n[j][1] /\ n[i][3] # n[j][3] BY DEF HcalDaqPins
    <2> HIDE DEF n
    <2>4. PinsOf(6, n) BY <2>1, <2>2, <2>3 DEF PinsOf
    <2> QED BY <2>4 DEF n
  <1>2. PinsOf(8, HcalTrigPins)
    <2> DEFINE n == HcalTrigPins
    <2>1. n = [i \in 1..8 |-> n[i]] BY DEF HcalTrigPins
    <2>2. \A i \in 1..8 : n[i][1] \in Pins12 BY DEF HcalTrigPins, Pins12
    <2>3. \A i, j \in 1..8 : i # j => n[i][1] # n[j][1] /\ n[i][3] # n[j][3] BY DEF HcalTrigPins
    <2> HIDE DEF n
    <2>4. PinsOf(8, n) BY <2>1, <2>2, <2>3 DEF PinsOf
    <2> QED BY <2>4 DEF n
  <1>3. PinsOf(5, EcalPins)
    <2> DEFINE n == EcalPins
    <2>1. n = [i \in 1..5 |-> n[i]] BY DEF EcalPins
    <2>2. \A i \in 1..5 : n[i][1] \in Pins12 BY DEF EcalPins, Pins12
    <2>3. \A i, j \in 1..5 : i # j => n[i][1] # n[j][1] /\ n[i][3] # n[j][3] BY DEF EcalPins
    <2> HIDE DEF n
    <2>4. PinsOf(5, n) BY <2>1, <2>2, <2>3 DEF PinsOf
    <2> QED BY <2>4 DEF n
  <1> QED BY <1>1, <1>2, <1>3

\* Their pins are set up and then driven high.
LEMMA DoesPinsHigh ==
    ASSUME NEW n, NEW names, PinsOf(n, names), NEW pins, pins = [i \in 1..n |-> pins[i]],
           \A i \in 1..n : \E j \in 1..n : pins[i] = names[j][1],
           \A i \in 1..n : \E j \in 1..n : pins[j] = names[i][1],
           \A i, j \in 1..n : i # j => pins[i] # pins[j]
    PROVE  /\ Does(SetPins(names), CfgItems(names))
           /\ Does(High(pins), AllHigh(names))
           /\ Does(SetPins(names) \o High(pins), CfgItems(names) \cup AllHigh(names))
  <1>1. n \in Nat /\ DOMAIN names = 1..n /\ DOMAIN pins = 1..n BY DEF PinsOf
  <1>2. Does(SetPins(names), CfgItems(names)) BY DoesPins
  <1>3. \A i \in 1..n : pins[i] \in Pins12 BY DEF PinsOf
  <1>4. Does(High(pins), OutItems(ToSet(pins))) BY <1>1, <1>3, DoesHigh
  <1>5. OutItems(ToSet(pins)) = AllHigh(names)
    <2> DEFINE yes == TRUE
    <2>1. /\ OutItems(ToSet(pins)) = {<<<<"out", p>>, yes>> : p \in ToSet(pins)}
          /\ AllHigh(names) = {<<<<"out", x[1]>>, yes>> : x \in ToSet(names)}
      BY DEF OutItems, AllHigh
    <2> HIDE DEF yes
    <2>2. ToSet(pins) = {pins[i] : i \in 1..n} /\ ToSet(names) = {names[i] : i \in 1..n}
      BY <1>1 DEF ToSet
    <2>3. ASSUME NEW p \in ToSet(pins) PROVE \E x \in ToSet(names) : p = x[1]
      <3>1. PICK i \in 1..n : p = pins[i] BY <2>2
      <3>2. PICK j \in 1..n : pins[i] = names[j][1]
        OBVIOUS
      <3>3. names[j] \in ToSet(names) BY <2>2
      <3> QED BY <3>1, <3>2, <3>3
    <2>4. ASSUME NEW x \in ToSet(names) PROVE \E p \in ToSet(pins) : p = x[1]
      <3>1. PICK i \in 1..n : x = names[i] BY <2>2
      <3>2. PICK j \in 1..n : pins[j] = names[i][1]
        OBVIOUS
      <3>3. pins[j] \in ToSet(pins) BY <2>2
      <3> QED BY <3>1, <3>2, <3>3
    <2>5. OutItems(ToSet(pins)) \subseteq AllHigh(names) BY <2>1, <2>3
    <2>6. AllHigh(names) \subseteq OutItems(ToSet(pins))
      <3> SUFFICES ASSUME NEW v \in AllHigh(names) PROVE v \in OutItems(ToSet(pins))
        OBVIOUS
      <3>1. PICK x \in ToSet(names) : v = <<<<"out", x[1]>>, yes>> BY <2>1
      <3> QED BY <2>1, <2>4, <3>1
    <2> QED BY <2>5, <2>6
  <1>6. (\A u \in CfgItems(names) : u[1][1] \in {"cfg"}) /\ (\A v \in AllHigh(names) : v[1][1] \notin {"cfg"})
    <2>1. \A v \in OutItems(ToSet(pins)) : v[1][1] = "out"
      <3> DEFINE yes == TRUE
      <3>1. OutItems(ToSet(pins)) = {<<<<"out", p>>, yes>> : p \in ToSet(pins)} BY DEF OutItems
      <3> HIDE DEF yes
      <3> QED BY <3>1
    <2> QED BY <1>5, <2>1 DEF CfgItems
  <1>7. Does(High(pins), AllHigh(names)) BY <1>4, <1>5
  <1> QED BY <1>2, <1>6, <1>7, DoesKinds

LEMMA KindsIn ==
    /\ \A names : \A u \in CfgItems(names) \cup AllHigh(names) : u[1][1] \in {"cfg", "out"}
    /\ \A n : \A u \in AllErx(n) : u[1][1] = "erx"
    /\ \A u \in ClockItems : u[1][1] = "eclk"
    /\ \A u \in EtxItems : u[1][1] = "etx"
  <1> DEFINE yes == TRUE
             rate(i) == IF i = 7 THEN 40 ELSE 320
  <1>1. \A names : AllHigh(names) = {<<<<"out", x[1]>>, yes>> : x \in ToSet(names)} BY DEF AllHigh
  <1>2. EtxItems = {<<<<"etx", i>>, Straight>> : i \in 0..6} /\ ClockItems = {<<<<"eclk", i>>, rate(i)>> : i \in 0..7}
    BY DEF EtxItems, ClockItems
  <1> HIDE DEF yes, rate
  <1>3. \A names : \A u \in AllHigh(names) : u[1][1] = "out" BY <1>1
  <1>4. \A names : \A u \in CfgItems(names) : u[1][1] = "cfg" BY DEF CfgItems
  <1>5. \A names : \A u \in CfgItems(names) \cup AllHigh(names) : u[1][1] \in {"cfg", "out"}
    BY <1>3, <1>4
  <1>6. \A n : \A u \in AllErx(n) : u[1][1] = "erx" BY DEF AllErx
  <1> QED BY <1>2, <1>5, <1>6

LEMMA DoesErxFirst == Does(SetupErx(0, 0, 0, 3, FALSE, TRUE), AllErx(1))
  <1>1. 0 \in 0..5
    OBVIOUS
  <1>2. Does(SetupErx(0, 0, 0, 3, FALSE, TRUE), {<<<<"erx", 0>>, 0>>}) BY <1>1, DoesErx
  <1>3. AllErx(1) = {<<<<"erx", 0>>, 0>>}
    <2>1. AllErx(1) = {<<<<"erx", i>>, 0>> : i \in 0..0} /\ \A i \in 0..0 : i = 0 BY DEF AllErx
    <2> QED BY <2>1
  <1> QED BY <1>2, <1>3

LEMMA DoesHcalDaq == Does(SetupHcalDaq, DaqItems)
  <1> DEFINE n == HcalDaqPins
             l == <<0, 1, 2, 4, 8, 11>>
             s == SetPins(n)
             h == High(l)
             c == FlattenSeq([k \in 1..8 |-> LET i == <<0, 1, 2, 3, 4, 6, 5, 7>>[k]
                                             IN  SetupEclk(i, IF i = 7 THEN 40 ELSE 320)])
             x == FlattenSeq([i \in 1..7 |-> SetupEtx(i - 1, TRUE, FALSE, 4)])
             r == SetupErx(0, 0, 0, 3, FALSE, TRUE)
             e == SetupEc(FALSE, 4, FALSE, 0, TRUE)
             f == FinalizeSetup
             P == CfgItems(n) \cup AllHigh(n)
  <1>1. SetupHcalDaq = (((((s \o h) \o c) \o x) \o r) \o e) \o f BY DEF SetupHcalDaq
  <1>2. Does(s \o h, P)
    <2>1. PinsOf(6, n) BY SetupPins
    <2>2. l = [i \in 1..6 |-> l[i]] /\ \A i, j \in 1..6 : i # j => l[i] # l[j]
      OBVIOUS
    <2>3. \A i \in 1..6 : l[i] = n[i][1] BY DEF HcalDaqPins
    <2> HIDE DEF n, l
    <2>4. /\ \A i \in 1..6 : \E j \in 1..6 : l[i] = n[j][1]
          /\ \A i \in 1..6 : \E j \in 1..6 : l[j] = n[i][1]
      BY <2>3
    <2> QED BY <2>1, <2>2, <2>4, DoesPinsHigh
  <1>3. Does(c, ClockItems) /\ Does(x, EtxItems) /\ Does(r, AllErx(1)) /\ Aside(e) /\ Aside(f)
    BY DoesClocks, DoesEtxAll, DoesErxFirst, AsideSetups
  <1>4. \A u \in P : u[1][1] \in {"cfg", "out"} BY KindsIn
  <1>5. DaqItems = ((P \cup ClockItems) \cup EtxItems) \cup AllErx(1) BY DEF DaqItems
  <1> HIDE DEF s, h, c, x, r, e, f, P
  <1>6. Does((s \o h) \o c, P \cup ClockItems)
    <2>1. \A v \in ClockItems : v[1][1] \notin {"cfg", "out"} BY KindsIn
    <2> QED BY <1>2, <1>3, <1>4, <2>1, DoesKinds
  <1>7. Does(((s \o h) \o c) \o x, (P \cup ClockItems) \cup EtxItems)
    <2>1. \A u \in P \cup ClockItems : u[1][1] \in {"cfg", "out", "eclk"} BY <1>4, KindsIn
    <2>2. \A v \in EtxItems : v[1][1] \notin {"cfg", "out", "eclk"} BY KindsIn
    <2> QED BY <1>3, <1>6, <2>1, <2>2, DoesKinds
  <1>8. Does((((s \o h) \o c) \o x) \o r, DaqItems)
    <2>1. \A u \in (P \cup ClockItems) \cup EtxItems : u[1][1] \in {"cfg", "out", "eclk", "etx"}
      BY <1>4, KindsIn
    <2>2. \A v \in AllErx(1) : v[1][1] \notin {"cfg", "out", "eclk", "etx"} BY KindsIn
    <2> QED BY <1>3, <1>5, <1>7, <2>1, <2>2, DoesKinds
  <1> QED BY <1>1, <1>3, <1>8, DoesBeside

LEMMA DoesHcalTrig == Does(SetupHcalTrig, TrigItems)
  <1> DEFINE n == HcalTrigPins
             l == <<2, 3, 4, 6, 7, 8, 9, 11>>
             m == <<1, 5, 2, 4, 3, 7, 6, 8>>
             s == SetPins(n)
             h == High(l)
             r == Receivers
             f == FinalizeSetup
             P == CfgItems(n) \cup AllHigh(n)
  <1>1. SetupHcalTrig = ((s \o h) \o r) \o f BY DEF SetupHcalTrig
  <1>2. Does(s \o h, P)
    <2>1. PinsOf(8, n) BY SetupPins
    <2>2. l = [i \in 1..8 |-> l[i]] /\ \A i, j \in 1..8 : i # j => l[i] # l[j]
      OBVIOUS
    <2>3. \A i \in 1..8 : m[i] \in 1..8 /\ l[i] = n[m[i]][1] /\ l[m[i]] = n[m[m[i]]][1]
      BY DEF HcalTrigPins
    <2>4. \A i \in 1..8 : \E j \in 1..8 : m[j] = i
      OBVIOUS
    <2> HIDE DEF n, l, m
    <2>5. /\ \A i \in 1..8 : \E j \in 1..8 : l[i] = n[j][1]
          /\ \A i \in 1..8 : \E j \in 1..8 : l[j] = n[i][1]
      BY <2>3, <2>4
    <2> QED BY <2>1, <2>2, <2>5, DoesPinsHigh
  <1>3. Does(r, AllErx(6)) /\ Aside(f) BY DoesTests, AsideSetups
  <1>4. \A u \in P : u[1][1] \in {"cfg", "out"} BY KindsIn
  <1>5. TrigItems = P \cup AllErx(6) BY DEF TrigItems
  <1> HIDE DEF s, h, r, f, P
  <1>6. Does((s \o h) \o r, TrigItems)
    <2>1. \A v \in AllErx(6) : v[1][1] \notin {"cfg", "out"} BY KindsIn
    <2> QED BY <1>2, <1>3, <1>4, <1>5, <2>1, DoesKinds
  <1> QED BY <1>1, <1>3, <1>6, DoesBeside

LEMMA EcalLinksDone ==
    /\ Does((SetupEclk(0, 320) \o SetupEclk(7, 40)) \o SetupEtx(0, TRUE, FALSE, 4), EcalLinks)
    /\ \A u \in EcalLinks : u[1][1] \in {"eclk", "etx"}
  <1> DEFINE yes == TRUE
             no == FALSE
             a == <<<<"eclk", 0>>, 320>>
             b == <<<<"eclk", 7>>, 40>>
             c == <<<<"etx", 0>>, <<yes, no>>>>
             p == SetupEclk(0, 320)
             q == SetupEclk(7, 40)
             r == SetupEtx(0, yes, no, 4)
  <1>1. EcalLinks = ({a} \cup {b}) \cup {c} /\ yes \in BOOLEAN /\ no \in BOOLEAN BY DEF EcalLinks, Straight
  <1>2. SetupEtx(0, TRUE, FALSE, 4) = r
    OBVIOUS
  <1> HIDE DEF yes, no
  <1>3. 0 \in 0..7 /\ 7 \in 0..7 /\ 0 \in 0..6
    OBVIOUS
  <1>4. Does(p, {a}) /\ Does(q, {b}) /\ Does(r, {c}) BY <1>1, <1>3, DoesEclk, DoesEtx
  <1>5. a[1] # b[1] /\ a[1][1] = "eclk" /\ b[1][1] = "eclk" /\ c[1][1] = "etx"
    OBVIOUS
  <1> HIDE DEF a, b, c, p, q, r
  <1>6. Does(p \o q, {a} \cup {b})
    <2>1. \A u \in {a}, v \in {b} : u[1] # v[1] BY <1>5
    <2> QED BY <1>4, <2>1, DoesUnion
  <1>7. Does((p \o q) \o r, ({a} \cup {b}) \cup {c})
    <2>1. (\A u \in {a} \cup {b} : u[1][1] \in {"eclk"}) /\ (\A v \in {c} : v[1][1] \notin {"eclk"})
      BY <1>5
    <2> QED BY <1>4, <1>6, <2>1, DoesKinds
  <1>8. \A u \in EcalLinks : u[1][1] \in {"eclk", "etx"} BY <1>1, <1>5
  <1> QED BY <1>1, <1>2, <1>7, <1>8 DEF p, q

\* A join of programs may be bracketed otherwise.
LEMMA JoinAgain ==
    ASSUME NEW p, NEW q, NEW r, Prog(p), Prog(q), Prog(r)
    PROVE  p \o (q \o r) = (p \o q) \o r
  <1> DEFINE S == {p[i] : i \in DOMAIN p} \cup {q[i] : i \in DOMAIN q} \cup {r[i] : i \in DOMAIN r}
  <1>1. p \in Seq(S) /\ q \in Seq(S) /\ r \in Seq(S) BY DEF Prog
  <1> HIDE DEF S
  <1> QED BY <1>1

LEMMA DoesEcal == \A daq \in BOOLEAN : Does(SetupEcal(daq), EcalItems(daq))
  <1> DEFINE n == EcalPins
             l == <<4, 5, 6, 7, 8>>
             s == SetPins(n)
             h == High(l)
             c1 == SetupEclk(0, 320)
             c2 == SetupEclk(7, 40)
             x == SetupEtx(0, TRUE, FALSE, 4)
             r == SetupErx(0, 0, 0, 3, FALSE, TRUE)
             e == SetupEc(FALSE, 4, FALSE, 0, TRUE)
             f == FinalizeSetup
             q == Receivers
             C == CfgItems(n)
             H == AllHigh(n)
  <1>1. /\ SetupEcal(TRUE) = s \o ((((((h \o c1) \o c2) \o x) \o r) \o e) \o f)
        /\ SetupEcal(FALSE) = s \o (q \o f)
    BY DEF SetupEcal
  <1>2. Does(s, C) /\ Does(h, H)
    <2>1. PinsOf(5, n) BY SetupPins
    <2>2. l = [i \in 1..5 |-> l[i]] /\ \A i, j \in 1..5 : i # j => l[i] # l[j]
      OBVIOUS
    <2>3. \A i \in 1..5 : l[i] = n[i][1] BY DEF EcalPins
    <2> HIDE DEF n, l
    <2>4. /\ \A i \in 1..5 : \E j \in 1..5 : l[i] = n[j][1]
          /\ \A i \in 1..5 : \E j \in 1..5 : l[j] = n[i][1]
      BY <2>3
    <2>5. Does(SetPins(n), CfgItems(n)) BY <2>1, DoesPins
    <2>6. Does(High(l), AllHigh(n)) BY <2>1, <2>2, <2>4, DoesPinsHigh
    <2> QED BY <2>5, <2>6
  <1>3. /\ Does((c1 \o c2) \o x, EcalLinks) /\ Does(r, AllErx(1)) /\ Does(q, AllErx(6))
        /\ Aside(e) /\ Aside(f)
    BY EcalLinksDone, DoesErxFirst, DoesTests, AsideSetups
  <1>4. /\ \A u \in C : u[1][1] \in {"cfg"}
        /\ \A u \in H : u[1][1] = "out"
        /\ \A u \in AllErx(1) \cup AllErx(6) : u[1][1] = "erx"
        /\ \A u \in EcalLinks : u[1][1] \in {"eclk", "etx"}
    <2>1. \A u \in C : u[1][1] = "cfg" BY DEF CfgItems
    <2>2. \A u \in H : u[1][1] = "out"
      <3> DEFINE yes == TRUE
      <3>1. H = {<<<<"out", y[1]>>, yes>> : y \in ToSet(n)} BY DEF AllHigh
      <3> HIDE DEF yes
      <3> QED BY <3>1
    <2>3. \A u \in AllErx(1) \cup AllErx(6) : u[1][1] = "erx" BY KindsIn
    <2> QED BY <2>1, <2>2, <2>3, EcalLinksDone
  <1>5. EcalItems(TRUE) = C \cup ((H \cup EcalLinks) \cup AllErx(1)) /\ EcalItems(FALSE) = C \cup AllErx(6)
    BY DEF EcalItems
  <1>6. Prog(h) /\ Prog(c1) /\ Prog(c2) /\ Prog(x)
    <2>1. 0 \in 0..7 /\ 7 \in 0..7 /\ 0 \in 0..6 /\ TRUE \in BOOLEAN
      OBVIOUS
    <2>2. Does(c1, {<<<<"eclk", 0>>, 320>>}) /\ Does(c2, {<<<<"eclk", 7>>, 40>>}) BY <2>1, DoesEclk
    <2>3. ASSUME NEW v \in BOOLEAN, NEW no \in BOOLEAN PROVE Prog(SetupEtx(0, v, no, 4))
      <3>1. Does(SetupEtx(0, v, no, 4), {<<<<"etx", 0>>, <<v, no>>>>}) BY <2>1, DoesEtx
      <3> QED BY <3>1 DEF Does
    <2> HIDE DEF h, c1, c2
    <2> QED BY <1>2, <2>1, <2>2, <2>3 DEF Does
  <1> HIDE DEF s, h, c1, c2, x, r, e, f, q, C, H
  <1>7. ((h \o c1) \o c2) \o x = h \o ((c1 \o c2) \o x)
    <2>1. Prog(c1 \o c2) BY <1>6, ProgJoin
    <2>2. h \o ((c1 \o c2) \o x) = (h \o (c1 \o c2)) \o x BY <1>6, <2>1, JoinAgain
    <2>3. h \o (c1 \o c2) = (h \o c1) \o c2 BY <1>6, JoinAgain
    <2> QED BY <2>2, <2>3
  <1>8. Does(SetupEcal(TRUE), EcalItems(TRUE))
    <2>1. Does(h \o ((c1 \o c2) \o x), H \cup EcalLinks)
      <3>1. (\A u \in H : u[1][1] \in {"out"}) /\ \A v \in EcalLinks : v[1][1] \notin {"out"}
        BY <1>4
      <3> QED BY <1>2, <1>3, <3>1, DoesKinds
    <2>2. Does((h \o ((c1 \o c2) \o x)) \o r, (H \cup EcalLinks) \cup AllErx(1))
      <3>1. /\ \A u \in H \cup EcalLinks : u[1][1] \in {"out", "eclk", "etx"}
            /\ \A v \in AllErx(1) : v[1][1] \notin {"out", "eclk", "etx"}
        BY <1>4
      <3> QED BY <1>3, <2>1, <3>1, DoesKinds
    <2> DEFINE k == (h \o ((c1 \o c2) \o x)) \o r
               V == (H \cup EcalLinks) \cup AllErx(1)
    <2>3. Does((k \o e) \o f, V) BY <1>3, <2>2, DoesBeside
    <2>4. \A v \in V : v[1][1] \notin {"cfg"} BY <1>4
    <2>5. SetupEcal(TRUE) = s \o ((k \o e) \o f) /\ EcalItems(TRUE) = C \cup V BY <1>1, <1>5, <1>7
    <2> DEFINE j == (k \o e) \o f
    <2>6. \A u \in C : u[1][1] \in {"cfg"} BY <1>4
    <2> HIDE DEF k, V
    <2>7. Does(j, V) /\ SetupEcal(TRUE) = s \o j BY <2>3, <2>5
    <2> HIDE DEF j
    <2>8. Does(s \o j, C \cup V) BY <1>2, <2>4, <2>6, <2>7, DoesKinds
    <2> QED BY <2>5, <2>7, <2>8
  <1>9. Does(SetupEcal(FALSE), EcalItems(FALSE))
    <2>1. Does(q \o f, AllErx(6)) BY <1>3, DoesBeside
    <2>2. \A v \in AllErx(6) : v[1][1] \notin {"cfg"} BY <1>4
    <2>3. \A u \in C : u[1][1] \in {"cfg"} BY <1>4
    <2> DEFINE j == q \o f
    <2>4. Does(j, AllErx(6)) BY <2>1
    <2> HIDE DEF j
    <2>5. Does(s \o j, C \cup AllErx(6)) BY <1>2, <2>2, <2>3, <2>4, DoesKinds
    <2> QED BY <1>1, <1>5, <2>5 DEF j
  <1> QED BY <1>8, <1>9

\* The voltages.
LEMMA DoesPower == Does(SetAll(Power), VoltsItems(Power, 8))
  <1> DEFINE f == Power
  <1>1. f = [i \in 1..8 |-> f[i]] /\ \A i \in 1..8 : f[i][1] \in Byte BY DEF Power, Byte
  <1>2. \A i \in 1..8 : f[i][2] \in DOMAIN Modes BY DEF Power, Modes
  <1>3. \A i, j \in 1..8 : i # j => f[i][1] # f[j][1] BY DEF Power
  <1>4. \A p \in 5..7 : \E i \in 1..8 : f[i][1] = p /\ f[i][2] = Tune(p, Digit(8, p))
    <2>1. /\ f[8][1] = 5 /\ f[8][2] = "gpo1" /\ f[7][1] = 6 /\ f[7][2] = "gpo1"
          /\ f[6][1] = 7 /\ f[6][2] = "gpo0"
      BY DEF Power
    <2>2. Digit(8, 5) = 2 /\ Digit(8, 6) = 2 /\ Digit(8, 7) = 0 BY DEF Digit, Digits
    <2>3. \A p : Tune(p, 2) = "gpo1" /\ Tune(p, 0) = "gpo0" BY DEF Tune
    <2> HIDE DEF f
    <2>4. \A p \in 5..7 : p = 5 \/ p = 6 \/ p = 7
      OBVIOUS
    <2> QED BY <2>1, <2>2, <2>3, <2>4
  <1> HIDE DEF f
  <1>5. Does(SetAll(f), VoltsItems(f, 8)) BY <1>1, <1>2, <1>3, <1>4, DoesVolts
  <1> QED BY <1>5 DEF f

LEMMA DoesOtherVolts == \A n \in {1, 12} : Does(SetAll(Volts(n)), VoltsItems(Volts(n), n))
  <1> TAKE n \in {1, 12}
  <1> DEFINE f == Volts(n)
  <1>1. f = [i \in 1..3 |-> f[i]] /\ \A i \in 1..3 : f[i][1] \in Byte BY DEF Volts, Byte
  <1>2. \A i \in 1..3 : f[i][2] \in DOMAIN Modes BY DEF Volts, Tune, Modes
  <1>3. \A i, j \in 1..3 : i # j => f[i][1] # f[j][1] BY DEF Volts
  <1>4. \A p \in 5..7 : \E i \in 1..3 : f[i][1] = p /\ f[i][2] = Tune(p, Digit(n, p))
    <2>1. /\ f[1][1] = 5 /\ f[1][2] = Tune(5, Digits(n)[3]) /\ f[2][1] = 6 /\ f[2][2] = Tune(6, Digits(n)[2])
          /\ f[3][1] = 7 /\ f[3][2] = Tune(7, Digits(n)[1])
      BY DEF Volts
    <2>2. Digit(n, 5) = Digits(n)[3] /\ Digit(n, 6) = Digits(n)[2] /\ Digit(n, 7) = Digits(n)[1]
      BY DEF Digit
    <2> HIDE DEF f
    <2>3. \A p \in 5..7 : p = 5 \/ p = 6 \/ p = 7
      OBVIOUS
    <2> QED BY <2>1, <2>2, <2>3
  <1> HIDE DEF f
  <1>5. n \in {1, 8, 12} /\ 3 \in Nat
    OBVIOUS
  <1>6. Does(SetAll(f), VoltsItems(f, n)) BY <1>1, <1>2, <1>3, <1>4, <1>5, DoesVolts
  <1> QED BY <1>6 DEF f
-----------------------------------------------------------------------------
(***************************************************************************)
(* A call is asked for what its program does, and for the names it gives.  *)
(***************************************************************************)
LEMMA ServesPairs ==
    ASSUME NEW p, NEW f, Does(p, Pairs(f))
    PROVE  Serves(p, f)
  <1> DEFINE W == Pairs(f)
  <1>1. (\A i \in DOMAIN f : <<i, f[i]>> \in W) /\ \A w \in W : w[1] \in DOMAIN f BY DEF Pairs
  <1> HIDE DEF W
  <1> QED BY <1>1 DEF Serves, W

LEMMA ServesOne ==
    ASSUME NEW p, NEW i, NEW v, Does(p, {<<i, v>>})
    PROVE  Serves(p, One(i, v))
  <1> DEFINE f == One(i, v)
  <1>1. DOMAIN f = {i} /\ f[i] = v BY DEF One
  <1> HIDE DEF f
  <1>2. Pairs(f) = {<<i, v>>} BY <1>1 DEF Pairs
  <1>3. Serves(p, f) BY <1>2, ServesPairs
  <1> QED BY <1>3 DEF f

LEMMA ServesNothing ==
    ASSUME NEW p, Aside(p)
    PROVE  Serves(p, <<>>)
  <1>1. Does(p, {}) /\ DOMAIN <<>> = {} BY DoesNothing
  <1> DEFINE W == {}
             f == <<>>
  <1>2. Does(p, W) /\ DOMAIN f = {} /\ \A w \in W : FALSE BY <1>1
  <1> HIDE DEF W, f
  <1>3. Serves(p, f) BY <1>2 DEF Serves
  <1> QED BY <1>3 DEF f

\* A set of items with their values is made into a function: one value each.
LEMMA ServesAll ==
    ASSUME NEW p, NEW W, Does(p, W), NEW S, W \subseteq S,
           \A x \in S : x[1][1] = "name" \/ (x \in W /\ x = <<x[1], x[2]>>)
    PROVE  Serves(p, AsFunction(S))
  <1> DEFINE f == AsFunction(S)
             chosen(i) == CHOOSE x \in S : x[1] = i
  <1>1. DOMAIN f = {x[1] : x \in S} /\ \A i \in DOMAIN f : f[i] = chosen(i)[2] BY DEF AsFunction
  <1>2. \A i \in DOMAIN f : \E x \in S : x[1] = i BY <1>1
  <1>3. \A i \in DOMAIN f : chosen(i) \in S /\ chosen(i)[1] = i
    <2> TAKE i \in DOMAIN f
    <2>1. \E x \in S : x[1] = i BY <1>2
    <2> QED BY <2>1
  <1> HIDE DEF f, chosen
  <1>4. \A i \in DOMAIN f : i[1] = "name" \/ <<i, f[i]>> \in W
    <2> TAKE i \in DOMAIN f
    <2>1. chosen(i) \in S /\ chosen(i)[1] = i /\ f[i] = chosen(i)[2] BY <1>1, <1>3
    <2> QED BY <2>1
  <1>5. \A w \in W : w[1] \in DOMAIN f BY <1>1
  <1>6. Serves(p, f) BY <1>4, <1>5 DEF Serves
  <1> QED BY <1>6 DEF f

\* The pins of a list are asked for with their configurations and names.
LEMMA ServesPins ==
    ASSUME NEW p, NEW names, NEW others, Does(p, CfgItems(names) \cup others),
           \A x \in others : x = <<x[1], x[2]>>
    PROVE  Serves(p, AsFunction(AskedPins(names) \cup others))
  <1> DEFINE S == AskedPins(names) \cup others
             W == CfgItems(names) \cup others
             N == S \ W
  <1>1. CfgItems(names) \subseteq AskedPins(names) BY DEF AskedPins, CfgItems
  <1>2. W \subseteq S BY <1>1
  <1>3. \A x \in AskedPins(names) : x[1][1] = "name" \/ x \in CfgItems(names)
    <2> TAKE x \in AskedPins(names)
    <2> DEFINE A == {<<<<"name", y[3]>>, <<y[1], "output" \in y[2]>>>> : y \in ToSet(names)}
               before == {i[2] : i \in {i \in DOMAIN promise : i[1] = "name" /\ promise[i] # <<>>
                                                /\ promise[i][1] \in {y[1] : y \in ToSet(names)}}}
               B == {<<<<"name", n>>, <<>>>> : n \in before \ {y[3] : y \in ToSet(names)}}
    <2>1. x \in CfgItems(names) \/ x \in A \/ x \in B BY DEF AskedPins, CfgItems
    <2>2. ASSUME x \in A PROVE x[1][1] = "name"
      <3> DEFINE out(y) == "output" \in y[2]
      <3>1. A = {<<<<"name", y[3]>>, <<y[1], out(y)>>>> : y \in ToSet(names)}
        OBVIOUS
      <3> HIDE DEF out, A
      <3> QED BY <2>2, <3>1
    <2> HIDE DEF A, before
    <2>3. ASSUME x \in B PROVE x[1][1] = "name" BY <2>3
    <2> QED BY <2>1, <2>2, <2>3
  <1>4. \A x \in CfgItems(names) : x = <<x[1], x[2]>> BY DEF CfgItems
  <1>5. \A x \in S : x[1][1] = "name" \/ (x \in W /\ x = <<x[1], x[2]>>) BY <1>3, <1>4
  <1> HIDE DEF S, W
  <1>6. Does(p, W) BY DEF W
  <1>7. Serves(p, AsFunction(S)) BY <1>2, <1>5, <1>6, ServesAll
  <1> QED BY <1>7 DEF S

LEMMA HiddenTwice ==
    ASSUME NEW q \in Pins12
    PROVE  Shown(Hidden(q)) = q /\ \A high : GpioSet(Hidden(q), high) = GpioSet(q, high)
  <1>1. Hidden(Hidden(q)) = Hidden(q) /\ Shown(Hidden(q)) = q BY DEF Pins12, Hidden, Shown
  <1> QED BY <1>1 DEF GpioSet

LEMMA ServesSetAll ==
    ASSUME NEW S \in SUBSET Pins12
    PROVE  Serves(GpioSetAll(S), [i \in {"out"} \X (0..11) |-> i[2] \in S])
  <1> DEFINE yes(p) == p \in S
             f == [i \in {"out"} \X (0..11) |-> yes(i[2])]
             W == {<<<<"out", p>>, yes(p)>> : p \in Pins12}
  <1>1. Does(GpioSetAll(S), W) BY DoesSetAll
  <1> HIDE DEF yes
  <1>2. DOMAIN f = {<<"out", p>> : p \in Pins12} /\ \A p \in Pins12 : f[<<"out", p>>] = yes(p)
    BY DEF Pins12
  <1> HIDE DEF f
  <1>3. \A i \in DOMAIN f : <<i, f[i]>> \in W BY <1>2
  <1>4. \A w \in W : w[1] \in DOMAIN f BY <1>2
  <1> HIDE DEF W
  <1>5. Serves(GpioSetAll(S), f) BY <1>1, <1>3, <1>4 DEF Serves
  <1> QED BY <1>5 DEF f, yes

LEMMA KeptPins == CallPins /\ (\A n \in DOMAIN gpos : gpos[n] \in HiddenPins) => StartsKept
  <1>1. Pin \subseteq Pins12 BY ServiceAssumption DEF Pins12
  <1>2. ASSUME CallGpioCfgSet PROVE StartsKept
    <2>1. PICK p \in Pin, c \in Cfg, n \in Name :
              Serve(GpioCfgSet(p, c, n), AsFunction(AskedPins(<<<<p, c, n>>>>)))
      BY <1>2 DEF CallGpioCfgSet
    <2> DEFINE g == GpioCfgSet(p, c, n)
               names == <<<<p, c, n>>>>
               none == {}
    <2>2. Does(g, {<<<<"cfg", p>>, c>>}) BY <1>1, DoesCfg
    <2>3. ToSet(names) = {<<p, c, n>>} BY DEF ToSet
    <2>4. CfgItems(names) = {<<<<"cfg", p>>, c>>}
      <3> DEFINE t == <<p, c, n>>
      <3>1. t[1] = p /\ t[2] = c
        OBVIOUS
      <3> HIDE DEF t, names
      <3>2. CfgItems(names) = {<<<<"cfg", x[1]>>, x[2]>> : x \in {t}} BY <2>3 DEF CfgItems, t
      <3> QED BY <3>1, <3>2
    <2>5. CfgItems(names) \cup none = CfgItems(names) /\ AskedPins(names) \cup none = AskedPins(names)
          /\ \A x \in none : x = <<x[1], x[2]>>
      OBVIOUS
    <2>6. Serve(g, AsFunction(AskedPins(names))) BY <2>1
    <2> HIDE DEF g, names, none
    <2>7. Does(g, CfgItems(names) \cup none) BY <2>2, <2>4, <2>5
    <2>8. Serves(g, AsFunction(AskedPins(names) \cup none)) BY <2>5, <2>7, ServesPins
    <2> QED BY <2>5, <2>6, <2>8 DEF StartsKept
  <1>3. ASSUME CallGpioSet PROVE StartsKept
    <2>1. PICK p \in Pin, high \in BOOLEAN : Serve(GpioSet(p, high), One(<<"out", p>>, high))
      BY <1>3 DEF CallGpioSet
    <2>2. Serves(GpioSet(p, high), One(<<"out", p>>, high)) BY <1>1, DoesSet, ServesOne
    <2> QED BY <2>1, <2>2 DEF StartsKept
  <1>4. ASSUME CallGpioSetAll PROVE StartsKept
    <2>1. PICK S \in SUBSET Pin : Serve(GpioSetAll(S), [i \in {"out"} \X (0..11) |-> i[2] \in S])
      BY <1>4 DEF CallGpioSetAll
    <2>2. S \in SUBSET Pins12 BY <1>1
    <2>3. Serves(GpioSetAll(S), [i \in {"out"} \X (0..11) |-> i[2] \in S]) BY <2>2, ServesSetAll
    <2> QED BY <2>1, <2>3 DEF StartsKept
  <1>5. ASSUME CallSetGPO, \A n \in DOMAIN gpos : gpos[n] \in HiddenPins PROVE StartsKept
    <2>1. PICK n \in DOMAIN gpos, high \in BOOLEAN :
              Serve(GpioSet(gpos[n], high), One(<<"out", Shown(gpos[n])>>, high))
      BY <1>5 DEF CallSetGPO
    <2>2. PICK q \in Pins12 : gpos[n] = Hidden(q) BY <1>5 DEF HiddenPins
    <2>3. Serve(GpioSet(q, high), One(<<"out", q>>, high)) BY <2>1, <2>2, HiddenTwice
    <2>4. Serves(GpioSet(q, high), One(<<"out", q>>, high)) BY DoesSet, ServesOne
    <2> QED BY <2>3, <2>4 DEF StartsKept
  <1> QED BY <1>2, <1>3, <1>4, <1>5 DEF CallPins

LEMMA KeptLinks == CallLinks => StartsKept
  <1>1. ASSUME CallSetupEtx PROVE StartsKept
    <2>1. PICK i \in Etx, enable \in BOOLEAN, no \in BOOLEAN :
              Serve(SetupEtx(i, enable, no, 4), One(<<"etx", i>>, <<enable, no>>))
      BY <1>1 DEF CallSetupEtx
    <2>2. i \in 0..6 BY ServiceAssumption
    <2>3. Does(SetupEtx(i, enable, no, 4), {<<<<"etx", i>>, <<enable, no>>>>}) BY <2>2, DoesEtx
    <2>4. Serves(SetupEtx(i, enable, no, 4), One(<<"etx", i>>, <<enable, no>>)) BY <2>3, ServesOne
    <2> QED BY <2>1, <2>4 DEF StartsKept
  <1>2. ASSUME CallSetupEclk PROVE StartsKept
    <2>1. PICK i \in Etx, rate \in {0, 320} : Serve(SetupEclk(i, rate), One(<<"eclk", i>>, rate))
      BY <1>2 DEF CallSetupEclk
    <2>2. i \in 0..7 BY ServiceAssumption
    <2>3. Serves(SetupEclk(i, rate), One(<<"eclk", i>>, rate)) BY <2>2, DoesEclk, ServesOne
    <2> QED BY <2>1, <2>3 DEF StartsKept
  <1>3. ASSUME CallSetupErx PROVE StartsKept
    <2>1. PICK i \in Etx : i < 6 /\ Serve(SetupErx(i, 0, 0, 3, FALSE, TRUE), One(<<"erx", i>>, 0))
      BY <1>3 DEF CallSetupErx
    <2>2. i \in 0..5 BY <2>1, ServiceAssumption
    <2>3. \A no, yes : Does(SetupErx(i, 0, 0, 3, no, yes), {<<<<"erx", i>>, 0>>}) BY <2>2, DoesErx
    <2>4. \A no, yes : Serves(SetupErx(i, 0, 0, 3, no, yes), One(<<"erx", i>>, 0))
      BY <2>3, ServesOne
    <2> QED BY <2>1, <2>4 DEF StartsKept
  <1>4. ASSUME CallSetupI2c PROVE StartsKept
    <2>1. PICK khz : Serve(SetupI2c(0, khz), <<>>) BY <1>4 DEF CallSetupI2c
    <2> QED BY <2>1, AsideSetups, ServesNothing DEF StartsKept
  <1> QED BY <1>1, <1>2, <1>3, <1>4 DEF CallLinks

LEMMA KeptOthers == CallOthers => StartsKept
  <1>1. ASSUME CallWriteList PROVE StartsKept
    <2>1. PICK rv \in Loads :
              Serve(Write(rv), AskedOf([i \in DOMAIN rv |-> <<rv[i][1], Byte, rv[i][2]>>]))
      BY <1>1 DEF CallWriteList
    <2>2. Serves(Write(rv), AskedOf([i \in DOMAIN rv |-> <<rv[i][1], Byte, rv[i][2]>>]))
      BY DoesWrite, ServesPairs
    <2> QED BY <2>1, <2>2 DEF StartsKept
  <1>2. ASSUME CallApplyTable PROVE StartsKept
    <2>1. PICK lines \in Tables :
              Serve(ApplyTable(lines), AskedOf(SubSeq(lines, 1, Len(ApplyTable(lines)))))
      BY <1>2 DEF CallApplyTable
    <2>2. Serves(ApplyTable(lines), AskedOf(SubSeq(lines, 1, Len(ApplyTable(lines)))))
      BY DoesTable, ServesPairs
    <2> QED BY <2>1, <2>2 DEF StartsKept
  <1> QED BY <1>1, <1>2 DEF CallOthers

LEMMA KeptMeasures == CallMeasure \/ CallCheckPrbs => StartsKept
  <1>1. ASSUME CallMeasure PROVE StartsKept
    <2>1. PICK p \in {AdcRead(3, 15, 8), AdcRead(12, 15, 1), AdcResistanceRead(2, 100, 1), SerialNumber}
                     \cup {ReadInternalTempPrecise(t) : t \in Tunes} : Serve(p, <<>>)
      BY <1>1 DEF CallMeasure
    <2>2. Aside(p) BY AsideAdcRead, AsideMeasures, AsideFuses
    <2> QED BY <2>1, <2>2, ServesNothing DEF StartsKept
  <1>2. ASSUME CallCheckPrbs PROVE StartsKept
    <2>1. PICK i \in Etx, own \in BOOLEAN, errors \in BOOLEAN :
              i < 3 /\ Serve(CheckPrbsErrors(i, 0, own, 3, 4, errors), One(<<"erx", i>>, 1))
      BY <1>2 DEF CallCheckPrbs
    <2>2. i \in 0..2 BY <2>1, ServiceAssumption
    <2>3. Serves(CheckPrbsErrors(i, 0, own, 3, 4, errors), One(<<"erx", i>>, 1))
      BY <2>2, DoesPrbs, ServesOne
    <2> QED BY <2>1, <2>3 DEF StartsKept
  <1> QED BY <1>1, <1>2

\* The items of the standard set-ups are pairs of an item and a value.
LEMMA PairsIn ==
    /\ \A names : \A u \in AllHigh(names) : u = <<u[1], u[2]>>
    /\ \A n : \A u \in AllErx(n) : u = <<u[1], u[2]>>
    /\ \A u \in ClockItems \cup EtxItems \cup EcalLinks : u = <<u[1], u[2]>>
  <1> DEFINE yes == TRUE
  <1>1. \A i, v : <<<<i, v>>[1], <<i, v>>[2]>> = <<i, v>>
    OBVIOUS
  <1>2. (\A names : AllHigh(names) = {<<<<"out", x[1]>>, yes>> : x \in ToSet(names)})
        /\ EtxItems = {<<<<"etx", i>>, Straight>> : i \in 0..6}
        /\ EcalLinks = {<<<<"eclk", 0>>, 320>>, <<<<"eclk", 7>>, 40>>, <<<<"etx", 0>>, Straight>>}
    BY DEF AllHigh, EtxItems, EcalLinks
  <1> HIDE DEF yes
  <1>3. \A names : \A u \in AllHigh(names) : u = <<u[1], u[2]>> BY <1>2
  <1>4. \A u \in EtxItems : u = <<u[1], u[2]>> BY <1>2
  <1>5. \A u \in EcalLinks : u = <<u[1], u[2]>> BY <1>2
  <1>6. \A u \in ClockItems : u = <<u[1], u[2]>> BY DEF ClockItems
  <1>7. \A n : \A u \in AllErx(n) : u = <<u[1], u[2]>> BY DEF AllErx
  <1> QED BY <1>3, <1>4, <1>5, <1>6, <1>7

LEMMA KeptSetups == CallSetupHcalDaq \/ CallSetupHcalTrig \/ CallSetupEcal => StartsKept
  <1>1. ASSUME CallSetupHcalDaq PROVE StartsKept
    <2> DEFINE n == HcalDaqPins
               others == AllHigh(n) \cup AllErx(1) \cup ClockItems \cup EtxItems
               what == AsFunction(AskedPins(n) \cup others)
    <2>1. Serve(SetupHcalDaq, what)
      <3>1. AskedPins(n) \cup AllHigh(n) \cup AllErx(1) \cup ClockItems \cup EtxItems
            = AskedPins(n) \cup others
        OBVIOUS
      <3> HIDE DEF n, others
      <3>2. Serve(SetupHcalDaq, AsFunction(AskedPins(n) \cup AllHigh(n) \cup AllErx(1) \cup ClockItems \cup EtxItems))
        BY <1>1 DEF CallSetupHcalDaq, n, ClockItems, EtxItems
      <3> QED BY <3>1, <3>2
    <2>2. DaqItems = CfgItems(n) \cup others BY DEF DaqItems
    <2>3. \A x \in others : x = <<x[1], x[2]>> BY PairsIn
    <2> HIDE DEF n, others
    <2>4. Serves(SetupHcalDaq, what) BY <2>2, <2>3, DoesHcalDaq, ServesPins
    <2> QED BY <2>1, <2>4 DEF StartsKept
  <1>2. ASSUME CallSetupHcalTrig PROVE StartsKept
    <2> DEFINE n == HcalTrigPins
               others == AllHigh(n) \cup AllErx(6)
               what == AsFunction(AskedPins(n) \cup others)
    <2>1. Serve(SetupHcalTrig, what)
      <3>1. AskedPins(n) \cup AllHigh(n) \cup AllErx(6) = AskedPins(n) \cup others
        OBVIOUS
      <3> HIDE DEF n, others
      <3>2. Serve(SetupHcalTrig, AsFunction(AskedPins(n) \cup AllHigh(n) \cup AllErx(6)))
        BY <1>2 DEF CallSetupHcalTrig, n
      <3> QED BY <3>1, <3>2
    <2>2. TrigItems = CfgItems(n) \cup others BY DEF TrigItems
    <2>3. \A x \in others : x = <<x[1], x[2]>> BY PairsIn
    <2> HIDE DEF n, others
    <2>4. Serves(SetupHcalTrig, what) BY <2>2, <2>3, DoesHcalTrig, ServesPins
    <2> QED BY <2>1, <2>4 DEF StartsKept
  <1>3. ASSUME CallSetupEcal PROVE StartsKept
    <2>1. PICK daq \in BOOLEAN : Serve(SetupEcal(daq), AsFunction(
              AskedPins(EcalPins) \cup
              IF daq THEN AllHigh(EcalPins) \cup AllErx(1) \cup EcalLinks ELSE AllErx(6)))
      BY <1>3 DEF CallSetupEcal, EcalLinks
    <2> DEFINE n == EcalPins
               others == IF daq THEN AllHigh(n) \cup AllErx(1) \cup EcalLinks ELSE AllErx(6)
               what == AsFunction(AskedPins(n) \cup others)
    <2>2. Serve(SetupEcal(daq), what) BY <2>1
    <2>3. EcalItems(daq) = CfgItems(n) \cup others BY DEF EcalItems
    <2>4. \A x \in others : x = <<x[1], x[2]>> BY PairsIn
    <2> HIDE DEF n, others
    <2>5. Serves(SetupEcal(daq), what) BY <2>3, <2>4, DoesEcal, ServesPins
    <2> QED BY <2>2, <2>5 DEF StartsKept
  <1> QED BY <1>1, <1>2, <1>3

LEMMA ServesLinks ==
    ASSUME NEW p, NEW kind, NEW n, NEW v, Does(p, {<<<<kind, i>>, v>> : i \in 0..(n - 1)})
    PROVE  Serves(p, Links(kind, n, v))
  <1> DEFINE f == Links(kind, n, v)
             W == {<<<<kind, i>>, v>> : i \in 0..(n - 1)}
  <1>1. DOMAIN f = {<<kind, i>> : i \in 0..(n - 1)} /\ \A i \in DOMAIN f : f[i] = v BY DEF Links
  <1> HIDE DEF f
  <1>2. (\A i \in DOMAIN f : <<i, f[i]>> \in W) /\ \A w \in W : w[1] \in DOMAIN f BY <1>1
  <1>3. Does(p, W)
    OBVIOUS
  <1> HIDE DEF W
  <1>4. Serves(p, f) BY <1>2, <1>3 DEF Serves
  <1> QED BY <1>4 DEF f

LEMMA KeptBench == TestCalls \/ CallGpioWrite \/ CallReset \/ GetLpgbtTemps => StartsKept
  <1>1. ASSUME TestCalls PROVE StartsKept
    <2>1. CASE \E p \in {TestBasic, TestAdc, TestEc, AdcAll, I2cScan} : Serve(p, <<>>)
      <3>1. PICK p \in {TestBasic, TestAdc, TestEc, AdcAll, I2cScan} : Serve(p, <<>>) BY <2>1
      <3>2. Aside(p) BY AsideTests
      <3> QED BY <3>1, <3>2, ServesNothing DEF StartsKept
    <2>2. CASE Serve(TestCtl, Links("etx", 7, Straight))
      <3> DEFINE yes == Straight
      <3>0. EtxItems = {<<<<"etx", i>>, yes>> : i \in 0..6} /\ 0..6 = 0..(7 - 1) BY DEF EtxItems
      <3>5. Serve(TestCtl, Links("etx", 7, yes)) BY <2>2
      <3> HIDE DEF yes
      <3>1. EtxItems = {<<<<"etx", i>>, yes>> : i \in 0..(7 - 1)} BY <3>0
      <3>2. Serves(TestCtl, Links("etx", 7, yes)) BY <3>1, DoesTests, ServesLinks
      <3> QED BY <3>2, <3>5 DEF StartsKept
    <2>3. CASE Serve(TestElinks, Links("erx", 6, 0))
      <3>1. AllErx(6) = {<<<<"erx", i>>, 0>> : i \in 0..(6 - 1)} BY DEF AllErx
      <3>2. Serves(TestElinks, Links("erx", 6, 0)) BY <3>1, DoesTests, ServesLinks
      <3> QED BY <2>3, <3>2 DEF StartsKept
    <2>4. CASE Serve(TestEclk, Links("eclk", 8, 0))
      <3>1. EclkItems(8) = {<<<<"eclk", i>>, 0>> : i \in 0..(8 - 1)} BY DEF EclkItems
      <3>2. Serves(TestEclk, Links("eclk", 8, 0)) BY <3>1, DoesTestEclk, ServesLinks
      <3> QED BY <2>4, <3>2 DEF StartsKept
    <2> QED BY <1>1, <2>1, <2>2, <2>3, <2>4 DEF TestCalls
  <1>2. ASSUME CallGpioWrite PROVE StartsKept
    <2>1. PICK p \in Pin : Serve(GpioSetAll(GpioGetAll \cup {p}),
                                 [i \in {"out"} \X (0..11) |-> i[2] \in GpioGetAll \cup {p}])
      BY <1>2 DEF CallGpioWrite
    <2>2. GpioGetAll \subseteq Pins12 BY DEF GpioGetAll, AllPins, Pins12
    <2>3. p \in Pins12 BY ServiceAssumption DEF Pins12
    <2> DEFINE S == GpioGetAll \cup {p}
    <2>4. S \in SUBSET Pins12 BY <2>2, <2>3
    <2>5. Serve(GpioSetAll(S), [i \in {"out"} \X (0..11) |-> i[2] \in S]) BY <2>1
    <2> HIDE DEF S
    <2>6. Serves(GpioSetAll(S), [i \in {"out"} \X (0..11) |-> i[2] \in S]) BY <2>4, ServesSetAll
    <2> QED BY <2>5, <2>6 DEF StartsKept
  <1>3. ASSUME CallReset PROVE StartsKept
    <2> DEFINE yes == TRUE
               g == GpioSet(11, FALSE) \o GpioSet(11, TRUE)
               i == <<"out", 11>>
    <2>1. Serve(g, One(i, yes)) BY <1>3 DEF CallReset
    <2>2. Does(g, {<<i, yes>>}) BY DoesReset
    <2> HIDE DEF yes, g, i
    <2>3. Serves(g, One(i, yes)) BY <2>2, ServesOne
    <2> QED BY <2>1, <2>3 DEF StartsKept
  <1>4. ASSUME GetLpgbtTemps PROVE StartsKept
    <2>1. Aside(ReadEfuse(0) \o AdcAverage) BY AsideFuses, AsideMeasures, InJoin DEF Aside
    <2>2. \A t : Aside(IF cache' = "full" THEN ReadInternalTempPrecise(t) ELSE <<>>)
      BY AsideMeasures, InNone DEF Aside
    <2>3. \A t : Aside(ReadEfuse(0) \o IF cache' = "full" THEN ReadInternalTempPrecise(t) ELSE <<>>)
      BY <2>2, AsideFuses, InJoin DEF Aside
    <2>4. CASE Serve(ReadEfuse(0) \o AdcAverage, <<>>) BY <2>1, <2>4, ServesNothing DEF StartsKept
    <2>5. CASE \E t : Serve(ReadEfuse(0) \o IF cache' = "full" THEN ReadInternalTempPrecise(t) ELSE <<>>, <<>>)
      BY <2>3, <2>5, ServesNothing, Zenon DEF StartsKept
    <2> QED BY <1>4, <2>4, <2>5, Zenon DEF GetLpgbtTemps
  <1> QED BY <1>1, <1>2, <1>3, <1>4

LEMMA ServesVolts ==
    ASSUME NEW settings, NEW n, Does(SetAll(settings), VoltsItems(settings, n))
    PROVE  Serves(SetAll(settings), AskedAll(settings, n))
  <1> DEFINE W == VoltsItems(settings, n)
  <1>1. \A x \in W : x = <<x[1], x[2]>> BY DEF VoltsItems
  <1>2. AskedAll(settings, n) = AsFunction(W) BY DEF AskedAll, VoltsItems
  <1> HIDE DEF W
  <1>3. Does(SetAll(settings), W) BY DEF W
  <1>4. Serves(SetAll(settings), AsFunction(W)) BY <1>1, <1>3, ServesAll
  <1> QED BY <1>2, <1>4

LEMMA KeptTester == CallPin \/ CallVolts \/ CallPhase \/ CallPattern => StartsKept
  <1>1. ASSUME CallPin PROVE StartsKept
    <2>1. PICK p \in {0, 7}, m \in DOMAIN Modes : Serve(SetupMode(0, p, m), One(<<"mode", 0, p>>, m))
      BY <1>1 DEF CallPin, One
    <2>2. p \in Byte BY DEF Byte
    <2>3. Serves(SetupMode(0, p, m), One(<<"mode", 0, p>>, m)) BY <2>2, DoesMode, ServesOne
    <2> QED BY <2>1, <2>3 DEF StartsKept
  <1>2. ASSUME CallVolts PROVE StartsKept
    <2>1. \/ Serve(SetAll(Power), AskedAll(Power, 8))
          \/ \E n \in {1, 12} : Serve(SetAll(Volts(n)), AskedAll(Volts(n), n))
      BY <1>2, Zenon DEF CallVolts
    <2>2. Serves(SetAll(Power), AskedAll(Power, 8)) BY DoesPower, ServesVolts
    <2>3. \A n \in {1, 12} : Serves(SetAll(Volts(n)), AskedAll(Volts(n), n))
      BY DoesOtherVolts, ServesVolts
    <2> QED BY <2>1, <2>2, <2>3, Zenon DEF StartsKept
  <1>3. ASSUME CallPhase PROVE StartsKept
    <2> DEFINE p(i, ph) ==
          <<On(R("WIRED_DELAY"), 7..24, {b + 16 : b \in Bits(ph)} \cup {b + 7 : b \in Bits(ph)}),
            On(R("UPLINK_PHASE"), Field(i, 5) \cup {31}, {b + 5 * i : b \in Bits(ph)})>>
    <2>1. PICK i \in {0, 1, 5}, ph \in {3, 31} : Serve(p(i, ph), One(<<"phase", i>>, ph))
      BY <1>3 DEF CallPhase, One
    <2>2. Does(p(i, ph), {<<<<"phase", i>>, ph>>}) BY DoesPhase
    <2> HIDE DEF p
    <2>3. Serves(p(i, ph), One(<<"phase", i>>, ph)) BY <2>2, ServesOne
    <2> QED BY <2>1, <2>3 DEF StartsKept
  <1>4. ASSUME CallPattern PROVE StartsKept
    <2> DEFINE p(i, n) == <<On(R("UPLINK_PATTERN"), Field(i, 4), {b + 4 * i : b \in Bits(n)})>>
    <2>1. PICK i \in {0, 1, 5}, n \in {1, 15} : Serve(p(i, n), One(<<"pattern", i>>, n))
      BY <1>4 DEF CallPattern, One
    <2>2. Does(p(i, n), {<<<<"pattern", i>>, n>>}) BY DoesPattern
    <2> HIDE DEF p
    <2>3. Serves(p(i, n), One(<<"pattern", i>>, n)) BY <2>2, ServesOne
    <2> QED BY <2>1, <2>3 DEF StartsKept
  <1> QED BY <1>1, <1>2, <1>3, <1>4

LEMMA KeptStarts ==
    (Chip \/ Bench \/ Tester) /\ (\A n \in DOMAIN gpos : gpos[n] \in HiddenPins) => StartsKept
  <1>1. CallLong => CallMeasure \/ CallCheckPrbs \/ CallSetupHcalDaq \/ CallSetupHcalTrig \/ CallSetupEcal
    BY DEF CallLong
  <1>2. Chip => CallPins \/ CallLinks \/ CallOthers \/ CallLong BY DEF Chip
  <1>3. Bench => TestCalls \/ CallGpioWrite \/ CallReset \/ GetLpgbtTemps BY DEF Bench
  <1>4. Tester => CallPin \/ CallVolts \/ CallPhase \/ CallPattern BY DEF Tester
  <1> QED
    BY <1>1, <1>2, <1>3, <1>4, KeptPins, KeptLinks, KeptOthers, KeptMeasures, KeptSetups, KeptBench, KeptTester
-----------------------------------------------------------------------------
(***************************************************************************)
(* The invariant of Kept is kept.                                          *)
(***************************************************************************)
LEMMA NowSame ==
    ASSUME UNCHANGED reg
    PROVE  \A i, v : Meets(i, v) => Meets(i, v)'
  <1>1. \A x : Now(x)' = Now(x) BY DEF Now, Value
  <1> QED BY <1>1 DEF Meets

LEMMA SparedNone == \A i : Spared(<<>>, i)
  BY EndsNone DEF Spared

\* A name has no bits.
LEMMA NameIs ==
    ASSUME NEW i, i[1] = "name", NEW v
    PROVE  IsItem(i, v) /\ Foot(i) = {}
  BY DEF IsItem, Foot

\* Entering a pin of the mezzanine.
LEMMA AddPinHidden ==
    ASSUME NEW e, AddPin(e), e[2] \in HiddenPins, \A n \in DOMAIN gpos : gpos[n] \in HiddenPins
    PROVE  \A n \in DOMAIN gpos' : gpos'[n] \in HiddenPins
  <1> DEFINE w == Without(gpos, e)
  <1>1. \A n \in DOMAIN w : w[n] \in HiddenPins BY DEF Without
  <1> HIDE DEF w
  <1>2. \A n \in DOMAIN With(w, e) : With(w, e)[n] \in HiddenPins BY <1>1 DEF With
  <1>3. gpos' = IF e[3] THEN With(w, e) ELSE w BY DEF AddPin, w
  <1> QED BY <1>1, <1>2, <1>3

\* What an access does to a bit.
Made(a) == reg' = [r \in DOMAIN reg \cup DOMAIN a.write |->
                      IF r \in DOMAIN a.write
                      THEN (Value(r) \ a.write[r].mask) \cup a.write[r].val ELSE reg[r]]
LEMMA AccessNow ==
    ASSUME NEW a, Made(a), NEW x
    PROVE  /\ Effect(a, x) = "keep" => Now(x)' = Now(x)
           /\ Effect(a, x) # "keep" => Now(x)' = Effect(a, x)
  <1> DEFINE r == x[1]
             b == x[2]
  <1>1. /\ r \in DOMAIN a.write => Value(r)' = (Value(r) \ a.write[r].mask) \cup a.write[r].val
        /\ r \notin DOMAIN a.write => Value(r)' = Value(r)
    BY DEF Made, Value
  <1>2. Now(x) = To(b \in Value(r)) /\ Now(x)' = To(b \in Value(r)') BY DEF Now, To
  <1>3. CASE r \notin DOMAIN a.write BY <1>1, <1>2, <1>3 DEF Effect
  <1>4. CASE r \in DOMAIN a.write /\ b \in a.write[r].val
    <2>1. Effect(a, x) = "set" /\ b \in Value(r)' BY <1>1, <1>4 DEF Effect
    <2> QED BY <1>2, <2>1 DEF To
  <1>5. CASE r \in DOMAIN a.write /\ b \notin a.write[r].val /\ b \in a.write[r].mask
    <2>1. Effect(a, x) = "clear" /\ b \notin Value(r)' BY <1>1, <1>5 DEF Effect
    <2> QED BY <1>2, <2>1 DEF To
  <1>6. CASE r \in DOMAIN a.write /\ b \notin a.write[r].val /\ b \notin a.write[r].mask
    <2>1. Effect(a, x) = "keep" /\ (b \in Value(r)' <=> b \in Value(r)) BY <1>1, <1>6 DEF Effect
    <2> QED BY <1>2, <2>1 DEF To
  <1> QED BY <1>3, <1>4, <1>5, <1>6

\* An access makes progress to what was asked for and disturbs nothing promised.
LEMMA KeptAccess ==
    ASSUME NEW a, Made(a), todo # <<>>, a = Head(todo), Prog(todo), todo' = Tail(todo)
    PROVE  /\ \A i, v : Meets(i, v) /\ Spared(todo, i) => Meets(i, v)' /\ Spared(todo, i)'
           /\ \A i, v : WillMeet(i, v) => WillMeet(i, v)'
  <1>1. \A x, v : Ends(todo, x, v) =>
            \/ v # "keep" /\ Ends(Tail(todo), x, v)
            \/ Ends(Tail(todo), x, "keep") /\ Effect(a, x) = v
    BY EndsTail
  <1>2. \A x : /\ Effect(a, x) = "keep" => Now(x)' = Now(x)
               /\ Effect(a, x) # "keep" => Now(x)' = Effect(a, x)
    BY AccessNow
  <1>3. \A x : Ends(todo, x, "keep") => Ends(Tail(todo), x, "keep") /\ Now(x)' = Now(x)
    BY <1>1, <1>2
  <1>4. ASSUME NEW i, NEW v, Meets(i, v), Spared(todo, i)
        PROVE  Meets(i, v)' /\ Spared(todo, i)'
    BY <1>3, <1>4 DEF Meets, Spared
  <1>5. ASSUME NEW i, NEW v, WillMeet(i, v)
        PROVE  WillMeet(i, v)'
    <2> SUFFICES ASSUME NEW x \in Foot(i)
                 PROVE  \/ Goal(i, v, x) = "any"
                        \/ Ends(Tail(todo), x, Goal(i, v, x))
                        \/ Ends(Tail(todo), x, "keep") /\ Goal(i, v, x) = Now(x)'
      BY DEF WillMeet
    <2> DEFINE g == Goal(i, v, x)
    <2>1. g # "keep" BY GoalNotKeep
    <2>2. g = "any" \/ Ends(todo, x, g) \/ (Ends(todo, x, "keep") /\ g = Now(x))
      BY <1>5 DEF WillMeet
    <2> HIDE DEF g
    <2>3. g = "any" \/ Ends(Tail(todo), x, g) \/ (Ends(Tail(todo), x, "keep") /\ g = Now(x)')
      BY <1>1, <1>2, <1>3, <2>1, <2>2
    <2> QED BY <2>3 DEF g
  <1> QED BY <1>4, <1>5

\* The rest of a program.
LEMMA KeptTail ==
    ASSUME NEW p, Prog(p), p # <<>>, \A k \in DOMAIN p : Narrow(p[k])
    PROVE  /\ Prog(Tail(p)) /\ Narrow(Head(p)) /\ \A k \in DOMAIN Tail(p) : Narrow(Tail(p)[k])
           /\ \A i : Spared(p, i) => Spared(Tail(p), i)
  <1>1. PICK n \in Nat : /\ n >= 1 /\ DOMAIN p = 1..n /\ DOMAIN Tail(p) = 1..(n - 1)
                         /\ Head(p) = p[1] /\ \A i \in 1..(n - 1) : Tail(p)[i] = p[i + 1]
    BY HeadTail
  <1> DEFINE t == Tail(p)
             h == Head(p)
  <1>2. Narrow(h) /\ \A k \in DOMAIN t : Narrow(t[k])
    <2>1. 1 \in DOMAIN p /\ \A k \in 1..(n - 1) : k + 1 \in DOMAIN p BY <1>1
    <2>2. DOMAIN t = 1..(n - 1) /\ h = p[1] /\ \A k \in 1..(n - 1) : t[k] = p[k + 1] BY <1>1
    <2> HIDE DEF t, h
    <2> QED BY <2>1, <2>2
  <1>3. \A x : Ends(p, x, "keep") => Ends(t, x, "keep") BY EndsTail
  <1>4. Prog(t) BY HeadTail
  <1> QED BY <1>2, <1>3, <1>4 DEF Spared

\* What is left when the last access is made is met.
LEMMA AllMet ==
    ASSUME todo' = <<>>, NEW i, NEW v, WillMeet(i, v)'
    PROVE  Meets(i, v)'
  <1>1. \A x, g : g # "keep" => ~Ends(<<>>, x, g) BY DEF Ends
  <1>2. \A x \in Foot(i) : Goal(i, v, x) = "any" \/ Goal(i, v, x) = Now(x)'
    BY <1>1, GoalNotKeep DEF WillMeet
  <1> QED BY <1>2 DEF Meets

LEMMA KeptInit == InitBench => KeptInv
  <1> SUFFICES ASSUME InitBench PROVE KeptInv
    OBVIOUS
  <1>1. reg = <<>> /\ gpos = <<>> /\ todo = <<>> /\ asked = <<>> /\ promise = <<>>
    BY DEF InitBench, InitChip
  <1>2. DOMAIN reg = {} /\ DOMAIN gpos = {} /\ DOMAIN todo = {} /\ DOMAIN asked = {} /\ DOMAIN promise = {}
    BY <1>1
  <1> QED BY <1>1, <1>2, EmptyProg DEF KeptInv

LEMMA KeptEntries == StartsPlain \/ StartsPins => \A e \in Entries(todo)' : e[2] \in HiddenPins
  <1>1. ASSUME StartsPlain PROVE Entries(todo)' = {}
    <2>1. PICK p : todo' = p /\ Tidy(p, {}) BY <1>1 DEF StartsPlain, Serve
    <2> QED BY <2>1 DEF Tidy
  <1>2. ASSUME StartsPins PROVE \A e \in Entries(todo)' : e[2] \in HiddenPins
    <2>1. PICK p, names : todo' = p /\ Enters(p, names) /\ PinList(names)
      BY <1>2 DEF StartsPins, Serve
    <2>2. PICK n : PinsOf(n, names) BY <2>1 DEF PinList
    <2>3. DOMAIN names = 1..n /\ \A i \in 1..n : names[i][1] \in Pins12 BY <2>2 DEF PinsOf
    <2>4. Entries(todo)' = {EntryOf(names[i][1], names[i][2], names[i][3]) : i \in 1..n}
      BY <2>1, <2>3 DEF Enters, EntriesOf
    <2>5. \A i \in 1..n : EntryOf(names[i][1], names[i][2], names[i][3])[2] = Hidden(names[i][1])
      BY DEF EntryOf
    <2>6. \A i \in 1..n : Hidden(names[i][1]) \in HiddenPins BY <2>3 DEF HiddenPins
    <2> QED BY <2>4, <2>5, <2>6
  <1> QED BY <1>1, <1>2

LEMMA KeptStart ==
    ASSUME KeptInv, StartsKept, \A e \in Entries(todo)' : e[2] \in HiddenPins
    PROVE  KeptInv'
  <1>1. PICK p, what : Serve(p, what) /\ Serves(p, what) BY DEF StartsKept
  <1>2. /\ todo' = p /\ asked' = what /\ UNCHANGED <<reg, gpos>>
        /\ promise' = [i \in DOMAIN promise \ DOMAIN what |-> promise[i]]
    BY <1>1 DEF Serve
  <1>3. PICK W : /\ Does(p, W)
                 /\ \A i \in DOMAIN what : i[1] = "name" \/ <<i, what[i]>> \in W
                 /\ \A w \in W : w[1] \in DOMAIN what
    BY <1>1 DEF Serves
  <1>4. Prog(todo)' /\ \A k \in DOMAIN todo' : Narrow(todo'[k]) BY <1>2, <1>3 DEF Does
  <1>5. /\ \A r \in DOMAIN reg' : r[1] \in Slim => reg'[r] \subseteq Byte
        /\ \A n \in DOMAIN gpos' : gpos'[n] \in HiddenPins
    BY <1>2 DEF KeptInv
  <1>6. \A i \in DOMAIN promise' : IsItem(i, promise'[i]) /\ Meets(i, promise[i])' /\ Spared(todo, i)'
    <2> TAKE i \in DOMAIN promise'
    <2>1. PICK v : v = promise'[i]
      OBVIOUS
    <2>2. i \in DOMAIN promise /\ i \notin DOMAIN what /\ v = promise[i] BY <1>2, <2>1
    <2>3. IsItem(i, v) /\ Meets(i, v) BY <2>2 DEF KeptInv
    <2>4. \A w \in W : w[1] # i BY <1>3, <2>2
    <2>5. Spared(p, i) BY <1>3, <2>3, <2>4 DEF Does
    <2>6. Meets(i, v)' BY <1>2, <2>3, NowSame
    <2> QED BY <1>2, <2>1, <2>3, <2>5, <2>6
  <1>7. \A i \in DOMAIN asked' : IsItem(i, asked'[i]) /\ WillMeet(i, asked[i])'
    <2> TAKE i \in DOMAIN asked'
    <2>1. PICK v : v = asked'[i]
      OBVIOUS
    <2>2. i \in DOMAIN what /\ v = what[i] BY <1>2, <2>1
    <2>3. CASE i[1] = "name"
      <3>1. WillMeet(i, v)' /\ IsItem(i, v) BY <2>3, NameIs DEF WillMeet
      <3> QED BY <2>1, <3>1
    <2>4. CASE i[1] # "name"
      <3>1. <<i, v>> \in W /\ <<i, v>>[1] = i /\ <<i, v>>[2] = v BY <1>3, <2>2, <2>4
      <3>2. IsItem(i, v) /\ Done(p, i, v) BY <1>3, <3>1 DEF Does
      <3>3. \A x \in Foot(i) : Goal(i, v, x) = "any" \/ Ends(p, x, Goal(i, v, x)) BY <3>2 DEF Done
      <3>4. WillMeet(i, v)' BY <1>2, <3>3 DEF WillMeet
      <3> QED BY <2>1, <3>2, <3>4
    <2> QED BY <2>3, <2>4
  <1> QED BY <1>4, <1>5, <1>6, <1>7 DEF KeptInv

LEMMA KeptStep == KeptInv /\ UnitsInv /\ Step => KeptInv'
  <1> SUFFICES ASSUME KeptInv, UnitsInv, Step PROVE KeptInv'
    OBVIOUS
  <1> DEFINE a == Head(todo)
  <1>1. /\ todo # <<>> /\ todo' = Tail(todo) /\ Prog(todo) /\ Leaves(todo) = {}
        /\ IF a.pin = <<>> THEN UNCHANGED <<gpos, gpis>> ELSE AddPin(a.pin)
    BY DEF Step, UnitsInv
  <1>2. Made(a) BY DEF Step, Made
  <1>3. \A k \in DOMAIN todo : Narrow(todo[k]) BY DEF KeptInv
  <1>4. /\ Prog(Tail(todo)) /\ Narrow(a) /\ \A k \in DOMAIN Tail(todo) : Narrow(Tail(todo)[k])
        /\ \A i : Spared(todo, i) => Spared(Tail(todo), i)
    BY <1>1, <1>3, KeptTail
  <1>5. Entries(todo) = Entries(Tail(todo)) \cup (IF a.pin = <<>> THEN {} ELSE {a.pin})
    BY <1>1, TailLeaves
  <1>6. a = Head(todo)
    OBVIOUS
  <1> HIDE DEF a
  <1>7. /\ \A i, v : Meets(i, v) /\ Spared(todo, i) => Meets(i, v)' /\ Spared(todo, i)'
        /\ \A i, v : WillMeet(i, v) => WillMeet(i, v)'
    BY <1>1, <1>2, <1>6, KeptAccess
  <1>8. \A r \in DOMAIN reg' : r[1] \in Slim => reg'[r] \subseteq Byte
    <2> SUFFICES ASSUME NEW r \in DOMAIN reg', r[1] \in Slim PROVE reg'[r] \subseteq Byte
      OBVIOUS
    <2>1. Value(r) \subseteq Byte BY DEF KeptInv, Value
    <2>2. r \in DOMAIN a.write => a.write[r].val \subseteq Byte BY <1>4 DEF Narrow
    <2> QED BY <1>2, <2>1, <2>2 DEF Made, KeptInv
  <1>9. (\A n \in DOMAIN gpos' : gpos'[n] \in HiddenPins) /\ \A e \in Entries(todo)' : e[2] \in HiddenPins
    <2>1. \A e \in Entries(todo)' : e[2] \in HiddenPins BY <1>1, <1>5 DEF KeptInv
    <2>2. CASE a.pin = <<>> BY <1>1, <2>1, <2>2 DEF KeptInv
    <2>3. CASE a.pin # <<>>
      <3>1. PICK d : d = a.pin
        OBVIOUS
      <3>2. d \in Entries(todo) /\ AddPin(d) BY <1>1, <1>5, <2>3, <3>1
      <3>3. d[2] \in HiddenPins BY <3>2 DEF KeptInv
      <3>4. \A n \in DOMAIN gpos' : gpos'[n] \in HiddenPins BY <3>2, <3>3, AddPinHidden DEF KeptInv
      <3> QED BY <2>1, <3>4
    <2> QED BY <2>2, <2>3
  <1>10. Prog(todo)' /\ \A k \in DOMAIN todo' : Narrow(todo'[k]) BY <1>1, <1>4
  <1>11. \/ UNCHANGED <<asked, promise>>
         \/ promise' = MergedPromise /\ asked' = <<>> /\ ~(Len(todo) > 1)
    BY DEF Step, MergedPromise
  <1>12. CASE UNCHANGED <<asked, promise>>
    <2>1. \A i \in DOMAIN promise' : IsItem(i, promise'[i]) /\ Meets(i, promise[i])' /\ Spared(todo, i)'
      <3> TAKE i \in DOMAIN promise'
      <3>1. PICK v : v = promise[i] /\ v = promise'[i] /\ i \in DOMAIN promise BY <1>12
      <3>2. IsItem(i, v) /\ Meets(i, v)' /\ Spared(todo, i)' BY <1>7, <3>1 DEF KeptInv
      <3> QED BY <3>1, <3>2
    <2>2. \A i \in DOMAIN asked' : IsItem(i, asked'[i]) /\ WillMeet(i, asked[i])'
      <3> TAKE i \in DOMAIN asked'
      <3>1. PICK v : v = asked[i] /\ v = asked'[i] /\ i \in DOMAIN asked BY <1>12
      <3>2. IsItem(i, v) /\ WillMeet(i, v)' BY <1>7, <3>1 DEF KeptInv
      <3> QED BY <3>1, <3>2
    <2> QED BY <1>8, <1>9, <1>10, <2>1, <2>2 DEF KeptInv
  <1>13. CASE promise' = MergedPromise /\ asked' = <<>> /\ ~(Len(todo) > 1)
    <2>1. Tail(todo) = <<>>
      <3> DEFINE S == {todo[i] : i \in DOMAIN todo}
      <3>1. todo \in Seq(S) BY <1>1 DEF Prog
      <3> HIDE DEF S
      <3> QED BY <1>1, <1>13, <3>1
    <2>2. todo' = <<>> BY <1>1, <2>1
    <2>3. /\ DOMAIN promise' = DOMAIN asked \cup DOMAIN promise
          /\ \A i \in DOMAIN asked : promise'[i] = asked[i]
          /\ \A i \in DOMAIN promise \ DOMAIN asked : promise'[i] = promise[i]
      BY <1>13 DEF MergedPromise
    <2>4. \A i \in DOMAIN promise' : IsItem(i, promise'[i]) /\ Meets(i, promise[i])' /\ Spared(todo, i)'
      <3> TAKE i \in DOMAIN promise'
      <3>1. PICK v : v = promise'[i]
        OBVIOUS
      <3>2. Spared(todo, i)' BY <2>2, SparedNone
      <3>3. CASE i \in DOMAIN asked
        <4>1. v = asked[i] BY <2>3, <3>1, <3>3
        <4>2. IsItem(i, v) /\ WillMeet(i, v)' BY <1>7, <3>3, <4>1 DEF KeptInv
        <4>3. Meets(i, v)' BY <2>2, <4>2, AllMet
        <4> QED BY <3>1, <3>2, <4>2, <4>3
      <3>4. CASE i \notin DOMAIN asked
        <4>1. v = promise[i] /\ i \in DOMAIN promise BY <2>3, <3>1, <3>4
        <4>2. IsItem(i, v) /\ Meets(i, v)' BY <1>7, <4>1 DEF KeptInv
        <4> QED BY <3>1, <3>2, <4>2
      <3> QED BY <3>3, <3>4
    <2>5. DOMAIN asked' = {} BY <1>13
    <2> QED BY <1>8, <1>9, <1>10, <2>4, <2>5 DEF KeptInv
  <1> QED BY <1>11, <1>12, <1>13

\* A call that is given up asks for nothing any more.
LEMMA KeptCut ==
    ASSUME KeptInv, UNCHANGED <<reg, gpos, promise>>, asked' = <<>>,
           Prog(todo)', \A k \in DOMAIN todo' : Narrow(todo'[k]),
           \A i : Spared(todo, i) => Spared(todo, i)',
           \A e \in Entries(todo)' : e \in Entries(todo)
    PROVE  KeptInv'
  <1>1. \A i \in DOMAIN promise' : IsItem(i, promise'[i]) /\ Meets(i, promise[i])' /\ Spared(todo, i)'
    <2> TAKE i \in DOMAIN promise'
    <2>1. PICK v : v = promise[i] /\ v = promise'[i] /\ i \in DOMAIN promise
      OBVIOUS
    <2>2. IsItem(i, v) /\ Meets(i, v)' /\ Spared(todo, i)' BY <2>1, NowSame DEF KeptInv
    <2> QED BY <2>1, <2>2
  <1>2. DOMAIN asked' = {}
    OBVIOUS
  <1> QED BY <1>1, <1>2 DEF KeptInv

LEMMA KeptRound == KeptInv /\ NamesInv /\ RunsRound => KeptInv'
  <1> SUFFICES ASSUME KeptInv, NamesInv, RunsRound PROVE KeptInv'
    OBVIOUS
  <1>1. /\ todo = <<>> /\ services = 0 /\ UNCHANGED <<todo, asked, promise>>
        /\ DOMAIN promise = {} /\ DOMAIN asked = {}
    BY DEF RunsRound, OnlyWalk, NamesInv
  <1>2. \A r \in DOMAIN reg' : r[1] \in Slim => reg'[r] \subseteq Byte
    <2>1. CASE UNCHANGED reg BY <2>1 DEF KeptInv
    <2>2. ASSUME NEW p, reg' = After(p) PROVE \A r \in DOMAIN reg' : reg'[r] \subseteq Byte
      BY <2>2 DEF After
    <2> QED BY <2>1, <2>2 DEF RunsRound
  <1>3. \A n \in DOMAIN gpos' : gpos'[n] \in HiddenPins
    <2>1. CASE UNCHANGED <<gpos, gpis>> BY <2>1 DEF KeptInv
    <2>2. ASSUME NEW out \in BOOLEAN, AddPin(<<"", 11, out>>)
          PROVE  \A n \in DOMAIN gpos' : gpos'[n] \in HiddenPins
      <3> DEFINE e == <<"", 11, out>>
      <3>1. 11 \in Pins12 /\ Hidden(11) = 11 BY DEF Pins12, Hidden
      <3>2. AddPin(e) /\ e[2] \in HiddenPins BY <2>2, <3>1 DEF HiddenPins
      <3> HIDE DEF e
      <3> QED BY <3>2, AddPinHidden DEF KeptInv
    <2> QED BY <2>1, <2>2 DEF RunsRound
  <1> QED BY <1>1, <1>2, <1>3, EmptyProg DEF KeptInv

LEMMA KeptNext == KeptInv /\ NamesInv /\ UnitsInv /\ [NextBench]_bvars => KeptInv'
  <1> SUFFICES ASSUME KeptInv, NamesInv, UnitsInv, [NextBench]_bvars PROVE KeptInv'
    OBVIOUS
  <1>0. Prog(todo) /\ Leaves(todo) = {} /\ \A k \in DOMAIN todo : Narrow(todo[k])
    BY DEF UnitsInv, KeptInv
  <1>1. CASE Chip \/ Bench \/ Tester
    <2>1. StartsPlain \/ StartsPins
      BY <1>1, PinCalls, LinkCalls, OtherCalls, MeasureCalls, SetupCalls, BenchCalls, TesterCalls
      DEF Chip, CallLong, Bench, Tester
    <2>2. \A e \in Entries(todo)' : e[2] \in HiddenPins BY <2>1, KeptEntries
    <2>3. StartsKept BY <1>1, KeptStarts DEF KeptInv
    <2> QED BY <2>2, <2>3, KeptStart
  <1>2. CASE Walk BY <1>2, WalkRuns, KeptRound
  <1>3. CASE Unnoticed
    <2>1. /\ todo # <<>> /\ todo' = Tail(todo) /\ asked' = <<>>
          /\ UNCHANGED <<reg, gpos, promise>>
      BY <1>3 DEF Unnoticed
    <2>2. \A e \in Entries(todo)' : e \in Entries(todo) BY <1>0, <2>1, TailLeaves
    <2>3. /\ Prog(todo)' /\ \A k \in DOMAIN todo' : Narrow(todo'[k])
          /\ \A i : Spared(todo, i) => Spared(todo, i)'
      BY <1>0, <2>1, KeptTail
    <2> QED BY <2>1, <2>2, <2>3, KeptCut
  <1>4. CASE Step BY <1>4, KeptStep
  <1>5. CASE BreakOff
    <2>1. todo' = <<>> /\ asked' = <<>> /\ UNCHANGED <<reg, gpos, promise>> BY <1>5 DEF BreakOff
    <2>2. /\ Prog(todo)' /\ (\A k \in DOMAIN todo' : Narrow(todo'[k])) /\ Entries(todo)' = {}
          /\ \A i : Spared(todo, i)'
      BY <2>1, EmptyProg, SparedNone
    <2> QED BY <2>1, <2>2, KeptCut
  <1>6. CASE UNCHANGED cvars
    <2>1. UNCHANGED <<reg, gpos, todo, asked, promise>> BY <1>6 DEF cvars
    <2>2. \A i, v : (Meets(i, v) => Meets(i, v)') /\ (WillMeet(i, v) => WillMeet(i, v)')
      <3>1. \A x : Now(x)' = Now(x) BY <2>1 DEF Now, Value
      <3> QED BY <2>1, <3>1 DEF Meets, WillMeet
    <2>3. \A i \in DOMAIN promise' : IsItem(i, promise'[i]) /\ Meets(i, promise[i])' /\ Spared(todo, i)'
      <3> TAKE i \in DOMAIN promise'
      <3>1. PICK v : v = promise[i] /\ v = promise'[i] /\ i \in DOMAIN promise BY <2>1
      <3>2. IsItem(i, v) /\ Meets(i, v)' /\ Spared(todo, i)' BY <2>1, <2>2, <3>1 DEF KeptInv
      <3> QED BY <3>1, <3>2
    <2>4. \A i \in DOMAIN asked' : IsItem(i, asked'[i]) /\ WillMeet(i, asked[i])'
      <3> TAKE i \in DOMAIN asked'
      <3>1. PICK v : v = asked[i] /\ v = asked'[i] /\ i \in DOMAIN asked BY <2>1
      <3>2. IsItem(i, v) /\ WillMeet(i, v)' BY <2>2, <3>1 DEF KeptInv
      <3> QED BY <3>1, <3>2
    <2> QED BY <2>1, <2>3, <2>4 DEF KeptInv
  <1> QED BY <1>1, <1>2, <1>3, <1>4, <1>5, <1>6 DEF NextBench, bvars
-----------------------------------------------------------------------------
(***************************************************************************)
(* Items that are met hold.                                                *)
(***************************************************************************)
LEMMA ToOnce ==
    ASSUME NEW b \in BOOLEAN, NEW c \in BOOLEAN, To(b) \in {"any", To(c)}
    PROVE  b <=> c
  BY DEF To

LEMMA BitMet ==
    ASSUME NEW i, NEW v, Meets(i, v), NEW r, NEW n, <<r, n>> \in Foot(i)
    PROVE  /\ Goal(i, v, <<r, n>>) \in {"any", To(n \in Value(r))}
           /\ \A b \in BOOLEAN : Goal(i, v, <<r, n>>) = To(b) => (b <=> n \in Value(r))
  <1> DEFINE x == <<r, n>>
             c == n \in Value(r)
  <1>1. x[1] = r /\ x[2] = n
    OBVIOUS
  <1>2. Now(x) = To(c) BY <1>1 DEF Now
  <1>3. Goal(i, v, x) \in {"any", Now(x)} BY DEF Meets
  <1>4. c \in BOOLEAN
    OBVIOUS
  <1> HIDE DEF c, x
  <1>5. Goal(i, v, x) \in {"any", To(c)} BY <1>2, <1>3
  <1>6. \A b \in BOOLEAN : Goal(i, v, x) = To(b) => (b <=> c) BY <1>4, <1>5, ToOnce
  <1> QED BY <1>5, <1>6 DEF c, x

\* Pins.
LEMMA MetCfg ==
    ASSUME NEW i, NEW c, IsItem(i, c), i[1] = "cfg", Meets(i, c)
    PROVE  PinIs(i[2], c)
  <1> DEFINE h == Hidden(i[2])
             on(kind) == Bit(kind, h)
             alone(dir) == c \cap {"up", "down"} = {dir}
  <1>1. \A kind \in PinKinds : CfgGoal(c, kind) \in {"any", To(on(kind))}
    <2> TAKE kind \in PinKinds
    <2> DEFINE r == Half(kind, h)
               n == h % 8
    <2>1. <<r, n>> = Place(kind, h) /\ <<r, n>>[1] = r /\ r[1] = kind BY DEF Place, Half
    <2>2. Foot(i) = {Place(k, h) : k \in PinKinds} BY FootIs
    <2>3. on(kind) = (n \in Value(r)) BY DEF Bit
    <2> HIDE DEF r, n, h
    <2>4. <<r, n>> \in Foot(i) /\ <<r, n>>[1][1] = kind BY <2>1, <2>2
    <2>5. Goal(i, c, <<r, n>>) = CfgGoal(c, kind) BY <2>4, GoalIs
    <2>6. CfgGoal(c, kind) \in {"any", To(n \in Value(r))} BY <2>4, <2>5, BitMet
    <2> HIDE DEF on
    <2> QED BY <2>3, <2>6
  <1>2. /\ CfgGoal(c, "PIODIR") = To("output" \in c)
        /\ CfgGoal(c, "PIODRIVE") = To("strong" \in c)
        /\ CfgGoal(c, "PIOPULLENA") = To(c \cap {"up", "down"} \in {{"up"}, {"down"}})
        /\ alone("up") => CfgGoal(c, "PIOUPDOWN") = To(TRUE)
        /\ alone("down") => CfgGoal(c, "PIOUPDOWN") = To(FALSE)
    BY DEF CfgGoal, To
  <1>3. {"PIODIR", "PIODRIVE", "PIOPULLENA", "PIOUPDOWN"} \subseteq PinKinds BY DEF PinKinds
  <1>4. \A kind : on(kind) \in BOOLEAN BY DEF Bit
  <1> HIDE DEF on, h
  <1>10. ASSUME NEW kind \in PinKinds, NEW b \in BOOLEAN, CfgGoal(c, kind) = To(b)
         PROVE  b <=> on(kind)
    <2>1. To(b) \in {"any", To(on(kind))} BY <1>1, <1>10
    <2> QED BY <1>4, <2>1, ToOnce
  <1>5. on("PIODIR") = ("output" \in c)
    <2> DEFINE p == "output" \in c
    <2>1. p \in BOOLEAN /\ CfgGoal(c, "PIODIR") = To(p) /\ "PIODIR" \in PinKinds BY <1>2, <1>3
    <2> HIDE DEF p
    <2>2. p <=> on("PIODIR") BY <2>1, <1>10
    <2> QED BY <1>4, <2>1, <2>2 DEF p
  <1>6. on("PIODRIVE") = ("strong" \in c)
    <2> DEFINE p == "strong" \in c
    <2>1. p \in BOOLEAN /\ CfgGoal(c, "PIODRIVE") = To(p) /\ "PIODRIVE" \in PinKinds BY <1>2, <1>3
    <2> HIDE DEF p
    <2>2. p <=> on("PIODRIVE") BY <2>1, <1>10
    <2> QED BY <1>4, <2>1, <2>2 DEF p
  <1>7. on("PIOPULLENA") = (c \cap {"up", "down"} \in {{"up"}, {"down"}})
    <2> DEFINE p == c \cap {"up", "down"} \in {{"up"}, {"down"}}
    <2>1. p \in BOOLEAN /\ CfgGoal(c, "PIOPULLENA") = To(p) /\ "PIOPULLENA" \in PinKinds
      BY <1>2, <1>3
    <2> HIDE DEF p
    <2>2. p <=> on("PIOPULLENA") BY <2>1, <1>10
    <2> QED BY <1>4, <2>1, <2>2 DEF p
  <1>8. alone("up") => on("PIOUPDOWN")
    <2> DEFINE p == TRUE
    <2>1. p \in BOOLEAN /\ "PIOUPDOWN" \in PinKinds BY <1>3
    <2>2. alone("up") => CfgGoal(c, "PIOUPDOWN") = To(p) BY <1>2
    <2> HIDE DEF p
    <2>3. alone("up") => (p <=> on("PIOUPDOWN")) BY <2>1, <2>2, <1>10
    <2> QED BY <2>3 DEF p
  <1>9. alone("down") => ~on("PIOUPDOWN")
    <2> DEFINE p == FALSE
    <2>1. p \in BOOLEAN /\ "PIOUPDOWN" \in PinKinds BY <1>3
    <2>2. alone("down") => CfgGoal(c, "PIOUPDOWN") = To(p) BY <1>2
    <2> HIDE DEF p
    <2>3. alone("down") => (p <=> on("PIOUPDOWN")) BY <2>1, <2>2, <1>10
    <2> QED BY <2>3 DEF p
  <1> QED BY <1>5, <1>6, <1>7, <1>8, <1>9 DEF PinIs, on, h

LEMMA MetOut ==
    ASSUME NEW i, NEW v, IsItem(i, v), i[1] = "out", Meets(i, v),
           Value(<<"PIOOUT", 0>>) \subseteq Byte, Value(<<"PIOOUT", 1>>) \subseteq Byte
    PROVE  v = (i[2] \in GpioGetAll)
  <1> DEFINE p == i[2]
             h == Hidden(p)
             r == Half("PIOOUT", h)
             n == h % 8
             low == Value(<<"PIOOUT", 1>>)
             high == Value(<<"PIOOUT", 0>>)
  <1>1. p \in Pins12 /\ v \in BOOLEAN BY ItemIs
  <1>2. <<r, n>> \in Foot(i) BY FootIs DEF Place
  <1>3. Goal(i, v, <<r, n>>) = To(v) BY GoalIs
  <1>4. v <=> n \in Value(r) BY <1>1, <1>2, <1>3, BitMet
  <1>5. p \in GpioGetAll <=> n \in Value(r)
    <2>1. GpioGetAll = AllPins(low \cup {b + 8 : b \in high}) BY DEF GpioGetAll
    <2>2. low \subseteq 0..7 /\ high \subseteq 0..7 BY DEF Byte
    <2>3. CASE p = 3
      <3>1. Value(r) = high /\ n = 7 BY <2>3 DEF Hidden, Half
      <3> HIDE DEF low, high, r, n, h, p
      <3>2. 15 \in low \cup {b + 8 : b \in high} <=> 7 \in high BY <2>2
      <3> QED BY <2>1, <2>3, <3>1, <3>2 DEF AllPins
    <2>4. CASE p # 3 /\ p < 8
      <3>1. Value(r) = low /\ n = p /\ p \in 0..7 BY <1>1, <2>4 DEF Hidden, Half, Pins12
      <3> HIDE DEF low, high, r, n, h, p
      <3>2. p \in low \cup {b + 8 : b \in high} <=> p \in low BY <2>2, <3>1
      <3> QED BY <2>1, <2>4, <3>1, <3>2 DEF AllPins
    <2>5. CASE ~(p < 8)
      <3>1. Value(r) = high /\ n = p - 8 /\ p \in 8..11 BY <1>1, <2>5 DEF Hidden, Half, Pins12
      <3> HIDE DEF low, high, r, n, h, p
      <3>2. p \in low \cup {b + 8 : b \in high} <=> p - 8 \in high BY <2>2, <3>1
      <3> QED BY <2>1, <2>5, <3>1, <3>2 DEF AllPins
    <2> QED BY <1>1, <2>3, <2>4, <2>5 DEF Pins12
  <1> QED BY <1>1, <1>4, <1>5

\* Links, clocks and registers.
LEMMA MetEtx ==
    ASSUME NEW i, NEW v, IsItem(i, v), i[1] = "etx", Meets(i, v)
    PROVE  /\ v[1] = (EtxBit(i[2])[2] \in Value(EtxBit(i[2])[1]))
           /\ v[1] /\ Alone(i[2]) => InvertIs(i[2], v[2])
  <1> DEFINE r == EtxBit(i[2])[1]
             n == EtxBit(i[2])[2]
             s == Sole[1]
             m == Sole[2]
             on == v[1]
             no == v[2]
  <1>1. EtxBit(i[2]) = <<r, n>> /\ Sole = <<s, m>> /\ r[1] = "EPTXENABLE" /\ s[1] = "EPTXPAIR"
    BY DEF EtxBit, Sole
  <1>2. /\ on \in BOOLEAN /\ no \in BOOLEAN /\ i[2] \in 0..6
        /\ EtxBit(i[2]) \in Foot(i) /\ (i[2] = 2 => Sole \in Foot(i))
    BY ItemIs, FootIs
  <1>3. \A x : Goal(i, v, x) = IF x[1][1] = "EPTXENABLE" THEN To(on) ELSE IF on THEN To(no) ELSE "any"
    BY GoalIs
  <1> HIDE DEF r, n, s, m, on, no
  <1>4. on <=> n \in Value(r)
    <2>1. <<r, n>> \in Foot(i) /\ Goal(i, v, <<r, n>>) = To(on) BY <1>1, <1>2, <1>3
    <2> QED BY <1>2, <2>1, BitMet
  <1>5. ASSUME on, Alone(i[2]) PROVE InvertIs(i[2], no)
    <2>1. i[2] = 2 /\ InvertBit(i[2]) = <<s, m>> BY <1>1, <1>2, <1>5, SoleIs
    <2>2. <<s, m>> \in Foot(i) /\ Goal(i, v, <<s, m>>) = To(no) BY <1>1, <1>2, <1>3, <1>5, <2>1
    <2>3. no <=> m \in Value(s) BY <1>2, <2>2, BitMet
    <2> QED BY <1>2, <2>1, <2>3 DEF InvertIs
  <1> QED BY <1>2, <1>4, <1>5 DEF r, n, on, no

LEMMA MetAux ==
    ASSUME NEW i, NEW v, IsItem(i, v), i[1] = "aux", Meets(i, v)
    PROVE  v = (i[3] \in Value(<<"AUX", i[2]>>))
  <1> DEFINE r == <<"AUX", i[2]>>
             n == i[3]
  <1>1. v \in BOOLEAN BY ItemIs
  <1>2. <<r, n>> \in Foot(i) BY FootIs
  <1>3. Goal(i, v, <<r, n>>) = To(v) BY GoalIs
  <1> HIDE DEF r, n
  <1>4. v <=> n \in Value(r) BY <1>1, <1>2, <1>3, BitMet
  <1> QED BY <1>1, <1>4 DEF r, n

\* A field of a register that should have some of its bits.
LEMMA FieldMet ==
    ASSUME NEW i, NEW v, Meets(i, v), NEW r, NEW F, NEW S, S \subseteq F,
           \A n \in F : <<r, n>> \in Foot(i) /\ Goal(i, v, <<r, n>>) = To(n \in S)
    PROVE  Value(r) \cap F = S
  <1>1. ASSUME NEW n \in F PROVE n \in S <=> n \in Value(r)
    <2> DEFINE b == n \in S
    <2>1. b \in BOOLEAN /\ <<r, n>> \in Foot(i) /\ Goal(i, v, <<r, n>>) = To(b)
      OBVIOUS
    <2> HIDE DEF b
    <2>2. b <=> n \in Value(r) BY <2>1, BitMet
    <2> QED BY <2>2 DEF b
  <1> QED BY <1>1

LEMMA MetEclk ==
    ASSUME NEW i, NEW v, IsItem(i, v), i[1] = "eclk", Meets(i, v),
           Value(<<"ECLK", 2 * MapEclk(i[2])>>) \subseteq Byte
    PROVE  Value(<<"ECLK", 2 * MapEclk(i[2])>>) = Bits(RateCode(v) + 32)
  <1> DEFINE r == <<"ECLK", 2 * MapEclk(i[2])>>
             S == Bits(RateCode(v) + 32)
  <1>1. S \subseteq Byte BY DEF Bits
  <1>2. Foot(i) = {<<r, b>> : b \in Byte} BY FootIs
  <1>3. \A x : Goal(i, v, x) = To(x[2] \in S) BY GoalIs
  <1> HIDE DEF r, S
  <1>4. \A n \in Byte : <<r, n>> \in Foot(i) /\ <<r, n>>[2] = n BY <1>2
  <1>5. \A n \in Byte : Goal(i, v, <<r, n>>) = To(n \in S) BY <1>3, <1>4
  <1>6. Value(r) \cap Byte = S BY <1>1, <1>4, <1>5, FieldMet
  <1>7. Value(r) \subseteq Byte BY DEF r
  <1> QED BY <1>6, <1>7 DEF r, S

LEMMA MetErx ==
    ASSUME NEW i, NEW v, IsItem(i, v), i[1] = "erx", Meets(i, v)
    PROVE  Value(<<"EPRXCONTROL", IF i[2] >= 3 THEN i[2] + 1 ELSE i[2]>>) \cap 0..1 = Bits(v)
  <1> DEFINE r == Receiver(i[2])
             S == Bits(v)
             F == 0..1
  <1>1. S \subseteq F
    <2>1. v \in 0..1 BY ItemIs
    <2>2. \A b \in 2..7 : <<1, 2, 4, 8, 16, 32, 64, 128>>[b + 1] \in {4, 8, 16, 32, 64, 128}
      OBVIOUS
    <2>3. \A k \in {4, 8, 16, 32, 64, 128} : 0 \div k = 0 /\ 1 \div k = 0
      OBVIOUS
    <2>4. 0 % 2 = 0
      OBVIOUS
    <2> SUFFICES ASSUME NEW b \in S, b \notin 0..1 PROVE FALSE
      OBVIOUS
    <2>5. b \in 2..7 /\ (v \div <<1, 2, 4, 8, 16, 32, 64, 128>>[b + 1]) % 2 = 1 BY DEF Bits, Byte
    <2>6. v \div <<1, 2, 4, 8, 16, 32, 64, 128>>[b + 1] = 0 BY <2>1, <2>2, <2>3, <2>5
    <2> QED BY <2>4, <2>5, <2>6
  <1>2. Foot(i) = {<<r, b>> : b \in F} BY FootIs
  <1>3. \A x : Goal(i, v, x) = To(x[2] \in S) BY GoalIs
  <1>7. r = <<"EPRXCONTROL", IF i[2] >= 3 THEN i[2] + 1 ELSE i[2]>> BY DEF Receiver
  <1> HIDE DEF r, S, F
  <1>4. \A n \in F : <<r, n>> \in Foot(i) /\ <<r, n>>[2] = n BY <1>2
  <1>5. \A n \in F : Goal(i, v, <<r, n>>) = To(n \in S) BY <1>3, <1>4
  <1>6. Value(r) \cap F = S BY <1>1, <1>4, <1>5, FieldMet
  <1> QED BY <1>6, <1>7 DEF S, F

\* Phases and patterns.
LEMMA MetWords ==
    ASSUME NEW i, NEW v, IsItem(i, v), Meets(i, v)
    PROVE  /\ i[1] = "phase" =>
                 Value(R("UPLINK_PHASE")) \cap Field(i[2], 5) = {b + 5 * i[2] : b \in Bits(v)}
           /\ i[1] = "pattern" =>
                 Value(R("UPLINK_PATTERN")) \cap Field(i[2], 4) = {b + 4 * i[2] : b \in Bits(v)}
  <1>1. ASSUME i[1] = "phase"
        PROVE  Value(R("UPLINK_PHASE")) \cap Field(i[2], 5) = {b + 5 * i[2] : b \in Bits(v)}
    <2> DEFINE r == R("UPLINK_PHASE")
               S == {b + 5 * i[2] : b \in Bits(v)}
               F == Field(i[2], 5)
    <2>1. S \subseteq F BY <1>1, ItemIs, FieldBits
    <2>2. Foot(i) = {<<r, b>> : b \in F} BY <1>1, FootIs
    <2>3. \A x : Goal(i, v, x) = To(x[2] \in S) BY <1>1, GoalIs
    <2> HIDE DEF r, S, F
    <2>4. \A n \in F : <<r, n>> \in Foot(i) /\ <<r, n>>[2] = n BY <2>2
    <2>5. \A n \in F : Goal(i, v, <<r, n>>) = To(n \in S) BY <2>3, <2>4
    <2>6. Value(r) \cap F = S BY <2>1, <2>4, <2>5, FieldMet
    <2> QED BY <2>6 DEF r, S, F
  <1>2. ASSUME i[1] = "pattern"
        PROVE  Value(R("UPLINK_PATTERN")) \cap Field(i[2], 4) = {b + 4 * i[2] : b \in Bits(v)}
    <2> DEFINE r == R("UPLINK_PATTERN")
               S == {b + 4 * i[2] : b \in Bits(v)}
               F == Field(i[2], 4)
    <2>1. S \subseteq F BY <1>2, ItemIs, FieldBits
    <2>2. Foot(i) = {<<r, b>> : b \in F} BY <1>2, FootIs
    <2>3. \A x : Goal(i, v, x) = To(x[2] \in S) BY <1>2, GoalIs
    <2> HIDE DEF r, S, F
    <2>4. \A n \in F : <<r, n>> \in Foot(i) /\ <<r, n>>[2] = n BY <2>2
    <2>5. \A n \in F : Goal(i, v, <<r, n>>) = To(n \in S) BY <2>3, <2>4
    <2>6. Value(r) \cap F = S BY <2>1, <2>4, <2>5, FieldMet
    <2> QED BY <2>6 DEF r, S, F
  <1> QED BY <1>1, <1>2

\* Pins of the converters and voltages.
LEMMA MetMode ==
    ASSUME NEW i, NEW v, IsItem(i, v), i[1] = "mode", Meets(i, v)
    PROVE  /\ PinMode(i[2], i[3]) = Modes[v]
           /\ v = "gpo0" => i[3] \notin Value(<<"GPO_WRITE", i[2]>>)
           /\ v = "gpo1" => i[3] \in Value(<<"GPO_WRITE", i[2]>>)
  <1> DEFINE d == i[2]
             p == i[3]
             on(kind) == p \in Value(<<kind, d>>)
             K == {"GPO_ENABLE", "GPI_ENABLE", "ADC_PIN", "DAC_PIN"}
  <1>1. \A kind \in ModeKinds : <<<<kind, d>>, p>> \in Foot(i) BY FootIs
  <1>2. \A x : Goal(i, v, x) = ModeGoal(v, x[1][1]) BY GoalIs
  <1>3. ASSUME NEW kind \in ModeKinds, NEW b \in BOOLEAN, ModeGoal(v, kind) = To(b)
        PROVE  b <=> on(kind)
    <2> DEFINE r == <<kind, d>>
    <2>1. <<r, p>>[1][1] = kind /\ <<r, p>> \in Foot(i) BY <1>1
    <2> HIDE DEF r
    <2>2. Goal(i, v, <<r, p>>) = To(b) BY <1>2, <1>3, <2>1
    <2>3. b <=> p \in Value(r) BY <2>1, <2>2, BitMet
    <2> QED BY <2>3 DEF r
  <1>4. ModeKinds = K \cup {"GPO_WRITE"} /\ "GPO_WRITE" \notin K BY DEF ModeKinds
  <1>5. ASSUME NEW kind \in K PROVE kind \in Modes[v] <=> on(kind)
    <2> DEFINE b == kind \in Modes[v]
    <2>1. b \in BOOLEAN /\ ModeGoal(v, kind) = To(b) BY <1>4 DEF ModeGoal
    <2> HIDE DEF b, on
    <2>2. b <=> on(kind) BY <1>3, <1>4, <2>1
    <2> QED BY <2>2 DEF b
  <1>6. v \in DOMAIN Modes BY ItemIs
  <1>7. \A m \in DOMAIN Modes : Modes[m] \subseteq K BY DEF Modes
  <1>8. PinMode(d, p) = {kind \in K : on(kind)} BY DEF PinMode
  <1>9. "GPO_WRITE" \in ModeKinds /\ ModeGoal("gpo0", "GPO_WRITE") = To(FALSE) /\ ModeGoal("gpo1", "GPO_WRITE") = To(TRUE)
    BY DEF ModeKinds, ModeGoal, To
  <1>10. v = "gpo0" => ~on("GPO_WRITE")
    <2> DEFINE b == FALSE
    <2>1. b \in BOOLEAN /\ (v = "gpo0" => ModeGoal(v, "GPO_WRITE") = To(b)) BY <1>9
    <2> HIDE DEF b, on
    <2>2. v = "gpo0" => (b <=> on("GPO_WRITE")) BY <1>3, <1>9, <2>1
    <2> QED BY <2>2 DEF b
  <1>11. v = "gpo1" => on("GPO_WRITE")
    <2> DEFINE b == TRUE
    <2>1. b \in BOOLEAN /\ (v = "gpo1" => ModeGoal(v, "GPO_WRITE") = To(b)) BY <1>9
    <2> HIDE DEF b, on
    <2>2. v = "gpo1" => (b <=> on("GPO_WRITE")) BY <1>3, <1>9, <2>1
    <2> QED BY <2>2 DEF b
  <1> QED
    <2>1. PinMode(d, p) = Modes[v]
      <3> HIDE DEF on, K
      <3> QED BY <1>5, <1>6, <1>7, <1>8
    <2> QED BY <1>10, <1>11, <2>1

LEMMA MetVolts ==
    ASSUME NEW i, NEW v, IsItem(i, v), i[1] = "volts", Meets(i, v)
    PROVE  GetSetting = v
  <1> DEFINE on(kind, p) == p \in Value(<<kind, 1>>)
             digit(p) == IF ~on("GPO_ENABLE", p) THEN 1 ELSE IF on("GPO_WRITE", p) THEN 2 ELSE 0
             K == {"GPO_ENABLE", "GPO_WRITE"}
  <1>1. \A kind \in K, p \in 5..7 : <<<<kind, 1>>, p>> \in Foot(i) BY FootIs
  <1>2. \A x : Goal(i, v, x) = VoltsGoal(v, x[1][1], x[2]) BY GoalIs
  <1>3. ASSUME NEW kind \in K, NEW p \in 5..7, NEW b \in BOOLEAN, VoltsGoal(v, kind, p) = To(b)
        PROVE  b <=> on(kind, p)
    <2> DEFINE r == <<kind, 1>>
    <2>1. <<r, p>>[1][1] = kind /\ <<r, p>>[2] = p /\ <<r, p>> \in Foot(i) BY <1>1
    <2> HIDE DEF r
    <2>2. Goal(i, v, <<r, p>>) = To(b) BY <1>2, <1>3, <2>1
    <2>3. b <=> p \in Value(r) BY <2>1, <2>2, BitMet
    <2> QED BY <2>3 DEF r
  <1>4. v \in {1, 8, 12} BY ItemIs
  <1>5. ASSUME NEW p \in 5..7, Digit(v, p) \in 0..2 PROVE digit(p) = Digit(v, p)
    <2> DEFINE e == Digit(v, p) # 1
               w == Digit(v, p) = 2
    <2>1. e \in BOOLEAN /\ w \in BOOLEAN /\ "GPO_ENABLE" \in K /\ "GPO_WRITE" \in K
      OBVIOUS
    <2>2. VoltsGoal(v, "GPO_ENABLE", p) = To(e) /\ (e => VoltsGoal(v, "GPO_WRITE", p) = To(w))
      BY DEF VoltsGoal
    <2> HIDE DEF e, w, on, K
    <2>3. e <=> on("GPO_ENABLE", p) BY <1>3, <2>1, <2>2
    <2>4. e => (w <=> on("GPO_WRITE", p)) BY <1>3, <2>1, <2>2
    <2> QED BY <1>5, <2>3, <2>4 DEF e, w
  <1>6. /\ Digit(v, 5) \in 0..2 /\ Digit(v, 6) \in 0..2 /\ Digit(v, 7) \in 0..2
        /\ 9 * Digit(v, 7) + 3 * Digit(v, 6) + Digit(v, 5) = v
    BY <1>4 DEF Digit, Digits
  <1>7. GetSetting = 9 * digit(7) + 3 * digit(6) + digit(5) BY DEF GetSetting
  <1> HIDE DEF digit
  <1>8. digit(5) = Digit(v, 5) /\ digit(6) = Digit(v, 6) /\ digit(7) = Digit(v, 7) BY <1>5, <1>6
  <1> QED BY <1>6, <1>7, <1>8

LEMMA KeptTold == KeptInv => Kept
  <1> SUFFICES ASSUME KeptInv, NEW i \in DOMAIN promise PROVE HoldsBench(i, promise[i]) BY DEF Kept
  <1>1. PICK v : v = promise[i] /\ IsItem(i, v) /\ Meets(i, v) BY DEF KeptInv
  <1>2. \A k : Value(<<"PIOOUT", k>>) \subseteq Byte /\ Value(<<"ECLK", k>>) \subseteq Byte
    <2> TAKE k
    <2>1. <<"PIOOUT", k>>[1] \in Slim /\ <<"ECLK", k>>[1] \in Slim BY DEF Slim
    <2> QED BY <2>1 DEF KeptInv, Value
  <1>3. CASE i[1] = "cfg" BY <1>1, <1>3, MetCfg DEF HoldsBench, Holds
  <1>4. CASE i[1] = "out" BY <1>1, <1>2, <1>4, MetOut DEF HoldsBench, Holds
  <1>5. CASE i[1] = "etx" BY <1>1, <1>5, MetEtx DEF HoldsBench, Holds
  <1>6. CASE i[1] = "eclk" BY <1>1, <1>2, <1>6, MetEclk DEF HoldsBench, Holds
  <1>7. CASE i[1] = "erx" BY <1>1, <1>7, MetErx DEF HoldsBench, Holds
  <1>8. CASE i[1] = "aux" BY <1>1, <1>8, MetAux DEF HoldsBench, Holds
  <1>9. CASE i[1] = "name" BY <1>9 DEF HoldsBench, Holds
  <1>10. CASE i[1] = "mode" BY <1>1, <1>10, MetMode DEF HoldsBench
  <1>11. CASE i[1] = "volts" BY <1>1, <1>11, MetVolts DEF HoldsBench
  <1>12. CASE i[1] = "phase" BY <1>1, <1>12, MetWords DEF HoldsBench
  <1>13. CASE i[1] = "pattern" BY <1>1, <1>13, MetWords DEF HoldsBench
  <1>14. \/ i[1] \in {"cfg", "out", "etx", "eclk", "erx", "aux", "name", "mode", "phase", "pattern"}
         \/ i[1] = "volts"
    BY <1>1 DEF IsItem
  <1> QED BY <1>3, <1>4, <1>5, <1>6, <1>7, <1>8, <1>9, <1>10, <1>11, <1>12, <1>13, <1>14

\* KeptAlways: in every state every pin, link, clock, register, voltage and field is as the
\* last call that finished left it, whatever calls ran since or broke off between two accesses.
\* Of a link out that is whether it is on and, for the third, which has a register to itself,
\* whether it is inverted; the inversion of the others is not kept (HalvesKept is violated).
THEOREM KeptAlways == SpecBench => []Kept
  <1>1. InitBench => KeptInv /\ NamesInv /\ UnitsInv BY KeptInit, NamesInit, UnitsInit
  <1>2. KeptInv /\ NamesInv /\ UnitsInv /\ [NextBench]_bvars => (KeptInv /\ NamesInv /\ UnitsInv)'
    BY KeptNext, NamesNext, UnitsNext
  <1> QED BY <1>1, <1>2, KeptTold, PTL DEF SpecBench
=============================================================================
