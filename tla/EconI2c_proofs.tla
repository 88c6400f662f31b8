--------------------------- MODULE EconI2c_proofs ---------------------------
(***************************************************************************)
(* Proofs about EconI2c: what a call leaves in the registers of an ECON    *)
(* and what a read returns, for any layout of the parameters in blocks,    *)
(* any limit of the master and however the transfers end, although the     *)
(* status the program polls may be that of an earlier transfer.            *)
(***************************************************************************)
EXTENDS EconI2c, FiniteSetTheorems, WellFoundedInduction, TLAPS

-----------------------------------------------------------------------------
(***************************************************************************)
(* Addresses: the first of a set, blocks and runs.                         *)
(***************************************************************************)

\* A set of natural numbers that is not empty has a least one.
LEMMA LeastExists ==
  ASSUME NEW T, T \subseteq Nat, T # {}
  PROVE  \E x \in T : \A y \in T : x <= y
<1> DEFINE R == OpToRel(<, Nat)
<1>1. IsWellFoundedOn(R, Nat)
  BY NatLessThanWellFounded
<1>2. \A x, y \in T : <<y, x>> \in R <=> y < x
  BY DEF OpToRel
<1> HIDE DEF R
<1>3. PICK x \in T : \A y \in T : ~ (<<y, x>> \in R)
  BY <1>1, WFMin
<1>4. \A y \in T : ~ (y < x)
  BY <1>2, <1>3
<1>5. QED
  BY <1>4

LEMMA FirstIsLeast ==
  ASSUME NEW T, T \subseteq Nat, T # {}
  PROVE  First(T) \in T /\ \A q \in T : First(T) <= q
  BY LeastExists DEF First

\* The registers are natural numbers.
LEMMA RegIsNat == Reg \subseteq Nat /\ \A b \in Blocks : b \subseteq Reg /\ b # {}
<1>1. \A b \in Blocks : b \subseteq Nat /\ b # {}
  BY LayoutAssumption
<1>2. QED
  BY <1>1 DEF Reg, Blocks

\* The bytes of a block and its addresses are numbered alike.
LEMMA BlockShape ==
  ASSUME NEW b \in Blocks
  PROVE  /\ Count(b) \in Nat /\ First(b) \in b
         /\ \A i \in 1..Count(b) : First(b) + i - 1 \in b
         /\ \A r \in b : /\ r - First(b) + 1 \in 1..Count(b)
                         /\ First(b) + (r - First(b) + 1) - 1 = r
<1>1. PICK m, n \in b : b = m..n
  BY LayoutAssumption
<1>2. b \subseteq Nat /\ b # {} /\ m \in Nat /\ n \in Nat /\ m <= n
  <2>1. b \subseteq Nat /\ m \in b /\ n \in b
    BY LayoutAssumption
  <2>2. m \in Nat /\ n \in Nat /\ m \in m..n
    BY <1>1, <2>1
  <2>3. m <= n
    BY <2>2
  <2>4. QED
    BY <2>1, <2>2, <2>3
<1>3. First(b) \in b /\ First(b) <= m
  BY <1>1, <1>2, FirstIsLeast
<1>4. First(b) = m
  BY <1>1, <1>2, <1>3
<1>5. Count(b) = n - m + 1
  BY <1>1, <1>2, FS_Interval DEF Count
<1>6. QED
  BY <1>1, <1>2, <1>3, <1>4, <1>5

\* The block a register is in is the layout of each of its parameters.
LEMMA SharingIs ==
  ASSUME NEW p \in Param, NEW r \in Layout[p]
  PROVE  r \in Reg /\ p \in Sharing(r)
  BY DEF Reg, Sharing

\* The longest run of adjacent addresses around one of them.
Run(R, r) == {q \in R : q..r \subseteq R /\ r..q \subseteq R}

LEMMA FittingIs ==
  \A R : Fitting(R) = {r \in R : AddrBytes + Count(Run(R, r)) <= Limit}
  BY DEF Fitting, Run

\* Two addresses of a run have the same run.
LEMMA RunSame ==
  ASSUME NEW R, R \subseteq Nat, NEW r \in R, NEW q \in Run(R, r)
  PROVE  Run(R, q) = Run(R, r) /\ r \in Run(R, q)
<1>1. q \in R /\ r \in Nat /\ q \in Nat /\ q..r \subseteq R /\ r..q \subseteq R
  BY DEF Run
<1>2. \A x \in R : x..q \subseteq R /\ q..x \subseteq R => x..r \subseteq R /\ r..x \subseteq R
  <2> SUFFICES ASSUME NEW x \in R, x..q \subseteq R, q..x \subseteq R
               PROVE  x..r \subseteq R /\ r..x \subseteq R
    OBVIOUS
  <2>1. x \in Nat
    OBVIOUS
  <2>2. \A y \in x..r : y \in x..q \/ y \in q..r
    BY <1>1, <2>1
  <2>3. \A y \in r..x : y \in r..q \/ y \in q..x
    BY <1>1, <2>1
  <2>4. QED
    BY <1>1, <2>2, <2>3
<1>3. \A x \in R : x..r \subseteq R /\ r..x \subseteq R => x..q \subseteq R /\ q..x \subseteq R
  <2> SUFFICES ASSUME NEW x \in R, x..r \subseteq R, r..x \subseteq R
               PROVE  x..q \subseteq R /\ q..x \subseteq R
    OBVIOUS
  <2>1. x \in Nat
    OBVIOUS
  <2>2. \A y \in x..q : y \in x..r \/ y \in r..q
    BY <1>1, <2>1
  <2>3. \A y \in q..x : y \in q..r \/ y \in r..x
    BY <1>1, <2>1
  <2>4. QED
    BY <1>1, <2>2, <2>3
<1>4. QED
  BY <1>1, <1>2, <1>3 DEF Run

\* Two addresses of a block that is read whole are in the same run.
LEMMA BlockRun ==
  ASSUME NEW R, R \subseteq Nat, NEW b \in Blocks, b \subseteq R, NEW r \in b, NEW q \in b
  PROVE  q \in Run(R, r)
<1>1. PICK m, n \in b : b = m..n
  BY LayoutAssumption
<1>2. m \in Nat /\ n \in Nat /\ r \in Nat /\ q \in Nat
  OBVIOUS
<1>3. q..r \subseteq m..n /\ r..q \subseteq m..n
  BY <1>1, <1>2
<1>4. QED
  BY <1>1, <1>3 DEF Run

\* What setRegisters takes from the front of the runs still to write is one of them,
\* and what is left are whole runs.
RunsOf(S, R) == S \subseteq R /\ \A r \in S : Run(R, r) \subseteq S

LEMMA GroupIsRun ==
  ASSUME NEW R, R \subseteq Nat, RunsOf(todo, R), todo # {}
  PROVE  /\ Group \subseteq todo /\ Group # {}
         /\ \A r \in Group : Run(R, r) = Group
         /\ RunsOf(todo \ Group, R)
<1> DEFINE f == First(todo)
<1>1. todo \subseteq Nat /\ todo \subseteq R
  BY DEF RunsOf
<1>2. f \in todo /\ f \in Nat /\ \A q \in todo : f <= q
  BY <1>1, FirstIsLeast
<1> HIDE DEF f
<1>3. Group = {r \in todo : f..r \subseteq todo}
  BY DEF Group, f
<1>4. Group \subseteq Run(R, f)
  <2> SUFFICES ASSUME NEW r \in todo, f..r \subseteq todo
               PROVE  r \in Run(R, f)
    BY <1>3
  <2>1. r \in Nat /\ f <= r
    BY <1>1, <1>2
  <2>2. r..f \subseteq {f}
    BY <1>2, <2>1
  <2>3. QED
    BY <1>1, <1>2, <2>2 DEF Run
<1>5. Run(R, f) \subseteq Group
  <2> SUFFICES ASSUME NEW q \in Run(R, f)
               PROVE  q \in todo /\ f..q \subseteq todo
    BY <1>3
  <2>1. Run(R, f) \subseteq todo
    BY <1>2 DEF RunsOf
  <2>2. q \in Nat /\ f..q \subseteq R /\ q \in todo
    BY <1>1, <2>1 DEF Run
  <2>3. ASSUME NEW y \in f..q
        PROVE  y \in Run(R, f)
    <3>1. y \in R /\ y \in Nat
      BY <1>2, <2>2, <2>3
    <3>2. f..y \subseteq f..q /\ y..f \subseteq {f}
      BY <1>2, <2>2, <2>3, <3>1
    <3>3. QED
      BY <1>1, <1>2, <2>2, <3>1, <3>2 DEF Run
  <2>4. QED
    BY <2>1, <2>2, <2>3
<1>6. Group = Run(R, f)
  BY <1>4, <1>5
<1>7. f \in R
  BY <1>1, <1>2
<1>8. \A r \in Group : Run(R, r) = Group /\ r \in R
  BY <1>6, <1>7, RunSame DEF Run
<1>9. f \in Group
  <2>1. f..f \subseteq {f}
    BY <1>2
  <2>2. QED
    BY <1>2, <1>3, <2>1
<1>10. \A r \in todo \ Group : Run(R, r) \cap Group = {}
  <2> SUFFICES ASSUME NEW r \in todo \ Group, NEW x \in Run(R, r), x \in Group
               PROVE  FALSE
    OBVIOUS
  <2>1. r \in R
    BY <1>1
  <2>2. r \in Run(R, x)
    BY <2>1, RunSame
  <2>3. QED
    BY <1>8, <2>2
<1>11. RunsOf(todo \ Group, R)
  BY <1>1, <1>10 DEF RunsOf
<1>12. QED
  BY <1>3, <1>8, <1>9, <1>11
-----------------------------------------------------------------------------
(***************************************************************************)
(* The invariant.                                                          *)
(***************************************************************************)

\* What the call is about.
OpOK ==
    /\ op.kind # "none" =>
          /\ DOMAIN op.params \subseteq Param
          /\ op.params \in [DOMAIN op.params -> Value]
          /\ op.kind = "load" => DOMAIN op.params = Param
    /\ function = "get" => op.kind \in {"apply", "read"}
    /\ function = "set" => op.kind \in {"apply", "load"}

\* The master works on what the program awaits, and on nothing else.
BusOK ==
    /\ status = "busy" <=> bus # NoBus
    /\ stage = "write" \/ Busy
    /\ bus # NoBus =>
          /\ bus.regs = Target
          /\ \/ stage = "check_write" /\ function = "get" /\ bus.kind = "address"
             \/ /\ stage = "check_write" /\ function = "set" /\ bus.kind = "values"
                /\ AddrBytes + Count(Group) <= Limit
             \/ stage = "check_read" /\ bus.kind = "read"

\* Only the parameters of a call that writes may differ from what was set before.
Spoilt == suspect \cup (IF function = "set" THEN DOMAIN op.params ELSE {})

Held == \A p \in Param \ Spoilt : \A r \in Layout[p] : chip[r][p] = wanted[p]

\* While a call reads: what it has read is what the chip holds, and a transfer that
\* succeeded is the one it launched.
GetOK ==
    function = "get" =>
              /\ DOMAIN image \cup todo = Touched(op.params)
              /\ \A r \in DOMAIN image : image[r] = chip[r]
              /\ \/ stage \in {"read", "check_read"}
                 \/ stage = "check_write" /\ status = "success"
                 => ptr = First(Block)
              /\ stage = "check_read" /\ status = "success" =>
                    \A r \in Block : data[r - First(Block) + 1] = chip[r]

\* The transfer of the group is over, well or never launched.
GroupOver ==
    \/ stage \in {"read", "check_read"}
    \/ stage = "check_write" /\ status = "success"

\* While a call writes: the runs that fit and are not to do any more have landed,
\* the others are untouched.
SetOK ==
    function = "set" =>
              LET R == DOMAIN image
              IN  /\ R = Touched(op.params) /\ RunsOf(todo, R)
                  /\ \A r \in R : \A p \in Sharing(r) :
                        image[r][p] = (IF p \in DOMAIN op.params THEN op.params[p]
                                       ELSE IF p \in suspect THEN image[r][p]
                                       ELSE wanted[p])
                  /\ \A r \in Fitting(R) \ todo : chip[r] = image[r]
                  /\ \A r \in R \ Fitting(R) : \A p \in Sharing(r) \ suspect :
                        chip[r][p] = wanted[p]
                  /\ todo # {} /\ GroupOver => \A r \in Group \cap Fitting(R) : chip[r] = image[r]

EconInv == EconTypeOK /\ OpOK /\ BusOK /\ Held /\ GetOK /\ SetOK /\ ReadsTrue

LEMMA EconBegins == EconInit => EconInv
<1> SUFFICES ASSUME EconInit PROVE EconInv
  OBVIOUS
<1>1. wanted \in [Param -> Value]
  BY ValueAssumption DEF EconInit
<1>2. chip = [r \in Reg |-> [p \in Sharing(r) |-> wanted[p]]]
  BY DEF EconInit, Content
<1>3. \A r \in Reg : Sharing(r) \subseteq Param
  BY DEF Sharing
<1>4. EconTypeOK
  <2>1. DOMAIN chip = Reg /\ \A r \in Reg : chip[r] \in [Sharing(r) -> Value]
    BY <1>1, <1>2, <1>3
  <2>2. DOMAIN image = {}
    BY DEF EconInit
  <2>3. QED
    BY <1>1, <2>1, <2>2 DEF EconInit, EconTypeOK, NoBus
<1>5. OpOK /\ BusOK /\ GetOK /\ SetOK /\ ReadsTrue
  BY DEF EconInit, OpOK, BusOK, GetOK, SetOK, ReadsTrue, Busy
<1>6. Held
  BY <1>2, SharingIs DEF Held
<1>7. QED
  BY <1>4, <1>5, <1>6 DEF EconInv

-----------------------------------------------------------------------------
(***************************************************************************)
(* What the program transfers next.                                        *)
(***************************************************************************)
LEMMA BlockIs ==
  ASSUME EconTypeOK, todo # {}
  PROVE  /\ Block \in Blocks /\ First(todo) \in Block /\ First(todo) \in todo
         /\ Block \subseteq Reg
<1>1. todo \subseteq Reg /\ todo \subseteq Nat
  BY RegIsNat DEF EconTypeOK
<1>2. First(todo) \in todo
  BY <1>1, FirstIsLeast
<1>3. \E b \in Blocks : First(todo) \in b
  BY <1>1, <1>2 DEF Reg, Blocks
<1>4. QED
  BY <1>2, <1>3, RegIsNat DEF Block

\* The first block still to be read is one of the call.
LEMMA BlockTouched ==
  ASSUME EconTypeOK, OpOK, GetOK, function = "get", todo # {}
  PROVE  Block \subseteq Touched(op.params)
<1>1. Block \in Blocks /\ First(todo) \in Block /\ First(todo) \in todo
  BY BlockIs
<1>2. todo \subseteq Touched(op.params) /\ DOMAIN op.params \subseteq Param
  BY DEF GetOK, OpOK
<1>3. PICK p \in DOMAIN op.params : First(todo) \in Layout[p]
  BY <1>1, <1>2 DEF Touched
<1>4. Layout[p] \in Blocks
  BY <1>2 DEF Blocks
<1>5. Block = Layout[p]
  BY <1>1, <1>3, <1>4, LayoutAssumption
<1>6. QED
  BY <1>5 DEF Touched

LEMMA GroupIs ==
  ASSUME EconTypeOK, SetOK, function = "set", todo # {}
  PROVE  LET R == DOMAIN image
         IN  /\ R \subseteq Nat /\ Group \subseteq todo /\ Group \subseteq R
             /\ Group \subseteq Reg
             /\ RunsOf(todo \ Group, R)
             /\ \A r \in Group : r \in Fitting(R) <=> AddrBytes + Count(Group) <= Limit
<1> DEFINE R == DOMAIN image
<1>1. R \subseteq Nat /\ RunsOf(todo, R) /\ todo \subseteq Reg
  BY RegIsNat DEF EconTypeOK, SetOK
<1>2. /\ Group \subseteq todo
      /\ \A r \in Group : Run(R, r) = Group
      /\ RunsOf(todo \ Group, R)
  BY <1>1, GroupIsRun
<1>3. Group \subseteq R
  BY <1>1, <1>2 DEF RunsOf
<1>4. \A r \in Group : r \in Fitting(R) <=> AddrBytes + Count(Group) <= Limit
  BY <1>2, <1>3, FittingIs
<1>5. QED
  BY <1>1, <1>2, <1>3, <1>4

LEMMA TargetIs ==
  ASSUME EconInv, Busy
  PROVE  /\ Target \subseteq Reg
         /\ function = "get" => AddrBytes <= Limit /\ Count(Target) <= Limit /\ Target = Block
         /\ function = "set" => Target = Group
<1>1. EconTypeOK /\ SetOK /\ function \in {"get", "set"} /\ todo # {}
  BY DEF EconInv, Busy
<1>2. CASE function = "get"
  <2>1. Target = Block /\ Block \in Blocks /\ Block \subseteq Reg
    BY <1>1, <1>2, BlockIs DEF Target
  <2>2. Count(Block) \in Nat
    BY <2>1, BlockShape
  <2>3. Count(Block) + AddrBytes <= Limit /\ AddrBytes \in Nat /\ Limit \in Nat
    BY <2>1, EconAssumption
  <2>4. QED
    BY <1>2, <2>1, <2>2, <2>3
<1>3. CASE function = "set"
  BY <1>1, <1>3, GroupIs DEF Target
<1>4. QED
  BY <1>1, <1>2, <1>3

-----------------------------------------------------------------------------
(***************************************************************************)
(* general_write_read, step by step.                                       *)
(***************************************************************************)
LEMMA StartWriteKeeps == EconInv /\ StartWrite => EconInv'
<1> SUFFICES ASSUME EconInv, StartWrite PROVE EconInv'
  OBVIOUS
<1>1. /\ Busy /\ stage = "write" /\ stage' = "check_write" /\ data' = data
      /\ UNCHANGED <<chip, ptr, function, op, image, todo, wanted, suspect>>
      /\ Busy'
  BY DEF StartWrite, Launch, econHist, Busy
<1>2. bus = NoBus /\ status # "busy"
  BY <1>1 DEF EconInv, BusOK
<1>3. Target' = Target /\ Block' = Block /\ Group' = Group
  BY <1>1 DEF Target, Block, Group
<1>4. CASE function = "get"
  <2>1. status' = "busy" /\ bus' = [kind |-> "address", regs |-> Target]
    BY <1>1, <1>4, TargetIs DEF StartWrite, Launch
  <2>2. EconTypeOK'
    BY <1>1, <2>1, TargetIs DEF EconInv, EconTypeOK
  <2>3. BusOK'
    BY <1>1, <1>3, <1>4, <2>1 DEF BusOK, NoBus
  <2>4. OpOK' /\ Held' /\ GetOK' /\ SetOK' /\ ReadsTrue'
    BY <1>1, <1>4, <2>1 DEF EconInv, OpOK, Held, Spoilt, GetOK, SetOK, ReadsTrue
  <2>5. QED
    BY <2>2, <2>3, <2>4 DEF EconInv
<1>5. CASE function = "set"
  <2> DEFINE fits == AddrBytes + Count(Group) <= Limit
  <2>1. /\ fits => status' = "busy" /\ bus' = [kind |-> "values", regs |-> Target]
        /\ ~fits => status' = status /\ bus' = bus
    BY <1>1, <1>5, TargetIs DEF StartWrite, Launch
  <2>2. EconTypeOK'
    BY <1>1, <2>1, TargetIs DEF EconInv, EconTypeOK
  <2>3. BusOK'
    BY <1>1, <1>2, <1>3, <1>5, <2>1 DEF BusOK, NoBus
  <2>4. OpOK' /\ Held' /\ GetOK' /\ ReadsTrue'
    BY <1>1, <1>5 DEF EconInv, OpOK, Held, Spoilt, GetOK, ReadsTrue
  <2>5. GroupOver' => Group \cap Fitting(DOMAIN image) = {}
    <3>1. GroupOver' => ~fits
      BY <1>1, <2>1 DEF GroupOver
    <3>2. \A r \in Group : r \in Fitting(DOMAIN image) <=> fits
      BY <1>1, <1>5, GroupIs DEF EconInv, Busy
    <3>3. QED
      BY <3>1, <3>2
  <2>6. SetOK'
    BY <1>1, <1>3, <1>5, <2>5 DEF EconInv, SetOK, RunsOf, Fitting
  <2>7. QED
    BY <2>2, <2>3, <2>4, <2>6 DEF EconInv
<1>6. QED
  BY <1>1, <1>4, <1>5 DEF Busy

LEMMA EndWriteKeeps == EconInv /\ EndWrite => EconInv'
<1> SUFFICES ASSUME EconInv, EndWrite PROVE EconInv'
  OBVIOUS
<1>1. /\ Busy /\ Busy' /\ stage = "check_write" /\ status = "success" /\ stage' = "read"
      /\ UNCHANGED <<chip, ptr, status, bus, data, function, op, image, todo, wanted, suspect>>
  BY DEF EndWrite, master, econHist, Busy
<1>2. Target' = Target /\ Block' = Block /\ Group' = Group /\ bus = NoBus
  BY <1>1 DEF Target, Block, Group, EconInv, BusOK
<1>3. EconTypeOK' /\ BusOK'
  BY <1>1, <1>2 DEF EconInv, EconTypeOK, BusOK
<1>4. OpOK' /\ Held' /\ GetOK' /\ ReadsTrue'
  BY <1>1, <1>2 DEF EconInv, OpOK, Held, Spoilt, GetOK, ReadsTrue
<1>5. SetOK'
  BY <1>1, <1>2 DEF EconInv, SetOK, RunsOf, Fitting, GroupOver
<1>6. QED
  BY <1>3, <1>4, <1>5 DEF EconInv

LEMMA StartReadKeeps == EconInv /\ BeginRead => EconInv'
<1> SUFFICES ASSUME EconInv, BeginRead PROVE EconInv'
  OBVIOUS
<1>1. /\ Busy /\ Busy' /\ stage = "read" /\ stage' = "check_read" /\ data' = data
      /\ UNCHANGED <<chip, ptr, function, op, image, todo, wanted, suspect>>
      /\ \/ status' = "busy" /\ bus' = [kind |-> "read", regs |-> Target]
         \/ function = "set" /\ status' = status /\ bus' = bus
  BY TargetIs DEF BeginRead, Launch, econHist, Busy
<1>2. Target' = Target /\ Block' = Block /\ Group' = Group
  BY <1>1 DEF Target, Block, Group
<1>3. bus = NoBus /\ status # "busy"
  BY <1>1 DEF EconInv, BusOK
<1>4. EconTypeOK'
  BY <1>1, TargetIs DEF EconInv, EconTypeOK
<1>5. BusOK'
  BY <1>1, <1>2, <1>3 DEF BusOK, NoBus
<1>6. OpOK' /\ Held' /\ GetOK' /\ ReadsTrue'
  BY <1>1, <1>2 DEF EconInv, OpOK, Held, Spoilt, GetOK, ReadsTrue, Busy
<1>7. SetOK'
  BY <1>1, <1>2 DEF EconInv, SetOK, RunsOf, Fitting, GroupOver
<1>8. QED
  BY <1>4, <1>5, <1>6, <1>7 DEF EconInv

\* A transfer that ends well leaves what it promised.
LEMMA DoneKeeps == EconInv /\ Done => EconInv'
<1> SUFFICES ASSUME EconInv, Done PROVE EconInv'
  OBVIOUS
<1>1. /\ bus # NoBus /\ status' = "success" /\ bus' = NoBus
      /\ UNCHANGED <<function, stage, op, image, todo, wanted, suspect>>
      /\ EconTypeOK /\ OpOK /\ BusOK /\ Held /\ GetOK /\ SetOK /\ ReadsTrue
  BY DEF Done, program, econHist, EconInv
<1>2. Busy /\ bus.regs = Target /\ stage # "write" /\ function \in {"get", "set"} /\ todo # {}
  BY <1>1 DEF BusOK, Busy
<1>3. Target' = Target /\ Block' = Block /\ Group' = Group /\ Busy'
  BY <1>1, <1>2 DEF Target, Block, Group, Busy
<1>4. OpOK' /\ BusOK' /\ ReadsTrue'
  BY <1>1, <1>2, <1>3 DEF OpOK, BusOK, ReadsTrue
<1>5. CASE stage = "check_write" /\ function = "get"
  <2>1. bus.kind = "address"
    BY <1>1, <1>2, <1>5 DEF BusOK
  <2>2. ptr' = First(Block) /\ chip' = chip /\ data' = data
    BY <1>2, <1>5, <2>1 DEF Done, Target
  <2>3. EconTypeOK' /\ Held' /\ GetOK' /\ SetOK'
    BY <1>1, <1>3, <1>5, <2>2 DEF EconTypeOK, NoBus, Held, Spoilt, GetOK, SetOK
  <2>4. QED
    BY <1>4, <2>3 DEF EconInv
<1>6. CASE stage = "check_write" /\ function = "set"
  <2> DEFINE R == DOMAIN image
  <2>1. bus.kind = "values" /\ AddrBytes + Count(Group) <= Limit
    BY <1>1, <1>2, <1>6 DEF BusOK
  <2>2. chip' = [r \in Reg |-> IF r \in Group THEN image[r] ELSE chip[r]]
    BY <1>2, <1>6, <2>1 DEF Done, Target, Written
  <2>3. Group \subseteq todo /\ Group \subseteq R /\ Group \subseteq Fitting(R) /\ R \subseteq Reg
    BY <1>1, <1>2, <1>6, <2>1, GroupIs DEF EconTypeOK
  <2>4. /\ \A r \in Group : chip'[r] = image[r]
        /\ \A r \in Reg \ Group : chip'[r] = chip[r]
    BY <2>2, <2>3
  <2>5. EconTypeOK'
    <3>1. \A r \in Reg : chip'[r] \in [Sharing(r) -> Value]
      BY <1>1, <2>3, <2>4 DEF EconTypeOK
    <3>2. DOMAIN chip' = Reg
      BY <2>2
    <3>3. QED
      BY <1>1, <3>1, <3>2 DEF EconTypeOK, NoBus
  <2>6. Held'
    <3> SUFFICES ASSUME NEW p \in Param, p \notin suspect, p \notin DOMAIN op.params,
                        NEW r \in Layout[p]
                 PROVE  chip'[r][p] = wanted[p]
      BY <1>1, <1>6 DEF Held, Spoilt
    <3>1. r \in Reg /\ p \in Sharing(r)
      BY SharingIs
    <3>2. CASE r \in Group
      BY <1>1, <1>6, <2>3, <2>4, <3>1, <3>2 DEF SetOK
    <3>3. CASE r \notin Group
      BY <1>1, <1>6, <2>4, <3>1, <3>3 DEF Held, Spoilt
    <3>4. QED
      BY <3>2, <3>3
  <2>7. SetOK'
    <3>1. /\ R = Touched(op.params) /\ RunsOf(todo, R)
          /\ \A r \in R : \A p \in Sharing(r) :
                image[r][p] = (IF p \in DOMAIN op.params THEN op.params[p]
                               ELSE IF p \in suspect THEN image[r][p]
                               ELSE wanted[p])
          /\ \A r \in Fitting(R) \ todo : chip[r] = image[r]
          /\ \A r \in R \ Fitting(R) : \A p \in Sharing(r) \ suspect :
                chip[r][p] = wanted[p]
      BY <1>1, <1>6 DEF SetOK
    <3>2. \A r \in Fitting(R) \ todo : chip'[r] = image[r]
      BY <2>3, <2>4, <3>1 DEF Fitting
    <3>3. \A r \in R \ Fitting(R) : chip'[r] = chip[r]
      BY <2>3, <2>4
    <3>4. Fitting(R)' = Fitting(R)
      BY <1>1 DEF Fitting
    <3>5. QED
      BY <1>1, <1>3, <2>4, <3>1, <3>2, <3>3, <3>4 DEF SetOK, RunsOf
  <2>8. GetOK'
    BY <1>1, <1>6 DEF GetOK
  <2>9. QED
    BY <1>4, <2>5, <2>6, <2>7, <2>8 DEF EconInv
<1>7. CASE stage = "check_read"
  <2>1. bus.kind = "read"
    BY <1>1, <1>2, <1>7 DEF BusOK
  <2>2. /\ ptr' = ptr /\ chip' = chip
        /\ data' = [i \in 1..Count(Target) |->
                       IF ptr + i - 1 \in Reg THEN chip[ptr + i - 1] ELSE <<>>]
    BY <1>2, <2>1 DEF Done
  <2>3. ASSUME function = "get", NEW r \in Block
        PROVE  data'[r - First(Block) + 1] = chip[r]
    <3>1. ptr = First(Block) /\ Target = Block /\ Block \in Blocks /\ Block \subseteq Reg
      BY <1>1, <1>2, <1>7, <2>3, BlockIs DEF GetOK, Target
    <3>2. /\ r - First(Block) + 1 \in 1..Count(Block)
          /\ First(Block) + (r - First(Block) + 1) - 1 = r
      BY <2>3, <3>1, BlockShape
    <3> DEFINE i == r - First(Block) + 1
    <3>3. i \in 1..Count(Target) /\ ptr + i - 1 = r /\ r \in Reg
      BY <2>3, <3>1, <3>2
    <3> HIDE DEF i
    <3>4. data'[i] = chip[r]
      BY <2>2, <3>3
    <3>5. QED
      BY <3>4 DEF i
  <2>4. GetOK'
    BY <1>1, <1>3, <1>7, <2>2, <2>3 DEF GetOK
  <2>5. EconTypeOK' /\ Held'
    BY <1>1, <2>2 DEF EconTypeOK, NoBus, Held, Spoilt
  <2>6. SetOK'
    BY <1>1, <1>3, <1>7, <2>2 DEF SetOK, GroupOver, RunsOf, Fitting
  <2>7. QED
    BY <1>4, <2>4, <2>5, <2>6 DEF EconInv
<1>8. stage \in {"check_write", "check_read"}
  BY <1>1 DEF BusOK
<1>9. QED
  BY <1>2, <1>5, <1>6, <1>7, <1>8

\* A transfer that fails may have left a part of its values.
LEMMA ErrorKeeps == EconInv /\ Error => EconInv'
<1> SUFFICES ASSUME EconInv, Error PROVE EconInv'
  OBVIOUS
<1>1. /\ bus # NoBus /\ status' = "error" /\ bus' = NoBus
      /\ UNCHANGED <<ptr, data, function, stage, op, image, todo, wanted, suspect>>
      /\ EconTypeOK /\ OpOK /\ BusOK /\ Held /\ GetOK /\ SetOK /\ ReadsTrue
  BY DEF Error, program, econHist, EconInv
<1>2. Busy /\ bus.regs = Target /\ stage # "write" /\ function \in {"get", "set"} /\ todo # {}
  BY <1>1 DEF BusOK, Busy
<1>3. Target' = Target /\ Block' = Block /\ Group' = Group /\ Busy'
  BY <1>1, <1>2 DEF Target, Block, Group, Busy
<1>4. OpOK' /\ BusOK' /\ ReadsTrue'
  BY <1>1, <1>2, <1>3 DEF OpOK, BusOK, ReadsTrue
<1>5. CASE chip' = chip
  <2>1. EconTypeOK' /\ Held' /\ GetOK'
    BY <1>1, <1>3, <1>5 DEF EconTypeOK, NoBus, Held, Spoilt, GetOK
  <2>2. SetOK'
    BY <1>1, <1>3, <1>5 DEF SetOK, GroupOver, RunsOf, Fitting
  <2>3. QED
    BY <1>4, <2>1, <2>2 DEF EconInv
<1>6. CASE bus.kind = "values" /\ \E r \in bus.regs : chip' = Written({q \in bus.regs : q <= r})
  <2> DEFINE R == DOMAIN image
  <2>1. function = "set" /\ stage = "check_write" /\ AddrBytes + Count(Group) <= Limit
    BY <1>1, <1>2, <1>6 DEF BusOK
  <2>2. PICK part \in SUBSET Group :
           chip' = [r \in Reg |-> IF r \in part THEN image[r] ELSE chip[r]]
    BY <1>2, <1>6, <2>1 DEF Target, Written
  <2>3. Group \subseteq todo /\ Group \subseteq R /\ Group \subseteq Fitting(R) /\ R \subseteq Reg
    BY <1>1, <1>2, <2>1, GroupIs DEF EconTypeOK
  <2>4. /\ \A r \in part : chip'[r] = image[r]
        /\ \A r \in Reg \ part : chip'[r] = chip[r]
        /\ part \subseteq todo /\ part \subseteq R /\ part \subseteq Fitting(R)
    BY <2>2, <2>3
  <2>5. EconTypeOK'
    <3>1. \A r \in Reg : chip'[r] \in [Sharing(r) -> Value]
      BY <1>1, <2>4 DEF EconTypeOK
    <3>2. DOMAIN chip' = Reg
      BY <2>2
    <3>3. QED
      BY <1>1, <3>1, <3>2 DEF EconTypeOK, NoBus
  <2>6. Held'
    <3> SUFFICES ASSUME NEW p \in Param, p \notin suspect, p \notin DOMAIN op.params,
                        NEW r \in Layout[p]
                 PROVE  chip'[r][p] = wanted[p]
      BY <1>1, <2>1 DEF Held, Spoilt
    <3>1. r \in Reg /\ p \in Sharing(r)
      BY SharingIs
    <3>2. CASE r \in part
      BY <1>1, <2>1, <2>4, <3>1, <3>2 DEF SetOK
    <3>3. CASE r \notin part
      BY <1>1, <2>1, <2>4, <3>1, <3>3 DEF Held, Spoilt
    <3>4. QED
      BY <3>2, <3>3
  <2>7. SetOK'
    <3>1. /\ R = Touched(op.params) /\ RunsOf(todo, R)
          /\ \A r \in R : \A p \in Sharing(r) :
                image[r][p] = (IF p \in DOMAIN op.params THEN op.params[p]
                               ELSE IF p \in suspect THEN image[r][p]
                               ELSE wanted[p])
          /\ \A r \in Fitting(R) \ todo : chip[r] = image[r]
          /\ \A r \in R \ Fitting(R) : \A p \in Sharing(r) \ suspect :
                chip[r][p] = wanted[p]
      BY <1>1, <2>1 DEF SetOK
    <3>2. \A r \in Fitting(R) \ todo : chip'[r] = image[r]
      BY <2>3, <2>4, <3>1 DEF Fitting
    <3>3. \A r \in R \ Fitting(R) : chip'[r] = chip[r]
      BY <2>3, <2>4
    <3>4. Fitting(R)' = Fitting(R) /\ ~GroupOver'
      BY <1>1, <2>1 DEF Fitting, GroupOver
    <3>5. QED
      BY <1>1, <3>1, <3>2, <3>3, <3>4 DEF SetOK, RunsOf
  <2>8. GetOK'
    BY <1>1, <2>1 DEF GetOK
  <2>9. QED
    BY <1>4, <2>5, <2>6, <2>7, <2>8 DEF EconInv
<1>7. QED
  BY <1>5, <1>6 DEF Error

\* An exception leaves only the parameters of the call in doubt.
LEMMA ThrowKeeps == EconInv /\ Throw => EconInv'
<1> SUFFICES ASSUME EconInv, Throw PROVE EconInv'
  OBVIOUS
<1>1. /\ Busy /\ status = "error" /\ function' = "client" /\ stage' = "write"
      /\ op' = [kind |-> "none"] /\ DOMAIN image' = {} /\ todo' = {}
      /\ suspect' = (IF op.kind = "read" THEN suspect ELSE suspect \cup DOMAIN op.params)
      /\ UNCHANGED <<chip, ptr, status, bus, data, wanted>>
      /\ EconTypeOK /\ OpOK /\ BusOK /\ Held
  BY DEF Throw, master, EconInv
<1>2. bus = NoBus /\ function \in {"get", "set"} /\ op.kind # "none"
  BY <1>1 DEF BusOK, Busy, OpOK
<1>3. EconTypeOK' /\ OpOK' /\ BusOK'
  BY <1>1, <1>2 DEF EconTypeOK, OpOK, BusOK
<1>4. GetOK' /\ SetOK' /\ ReadsTrue'
  BY <1>1 DEF GetOK, SetOK, ReadsTrue
<1>5. Spoilt \subseteq Spoilt'
  BY <1>1, <1>2 DEF Spoilt, OpOK
<1>6. Held'
  BY <1>1, <1>5 DEF Held
<1>7. QED
  BY <1>3, <1>4, <1>6 DEF EconInv

\* getValues files the bytes of the chip under the addresses of the block.
LEMMA EndGetKeeps == EconInv /\ EndGet => EconInv'
<1> SUFFICES ASSUME EconInv, EndGet PROVE EconInv'
  OBVIOUS
<1>1. /\ function = "get" /\ stage = "check_read" /\ status = "success" /\ stage' = "write"
      /\ image' = [r \in DOMAIN image \cup Block |->
                      IF r \in Block THEN data[r - First(Block) + 1] ELSE image[r]]
      /\ todo' = todo \ Block
      /\ UNCHANGED <<chip, ptr, status, bus, data, function, op, wanted, suspect>>
      /\ EconTypeOK /\ OpOK /\ BusOK /\ Held /\ GetOK /\ SetOK /\ ReadsTrue
  BY DEF EndGet, master, econHist, EconInv
<1>2. Busy /\ todo # {} /\ bus = NoBus
  BY <1>1 DEF BusOK, Busy
<1>3. Block \subseteq Reg /\ Block \subseteq Touched(op.params)
  BY <1>1, <1>2, BlockIs, BlockTouched
<1>4. /\ DOMAIN image' = DOMAIN image \cup Block
      /\ \A r \in DOMAIN image' : image'[r] = chip[r]
  BY <1>1 DEF GetOK
<1>5. EconTypeOK'
  BY <1>1, <1>3, <1>4 DEF EconTypeOK
<1>6. DOMAIN image' \cup todo' = Touched(op.params)
  BY <1>1, <1>3, <1>4 DEF GetOK
<1>7. GetOK'
  BY <1>1, <1>4, <1>6 DEF GetOK
<1>8. OpOK' /\ BusOK' /\ Held' /\ SetOK' /\ ReadsTrue'
  BY <1>1, <1>2 DEF OpOK, BusOK, Held, Spoilt, SetOK, ReadsTrue
<1>9. QED
  BY <1>5, <1>7, <1>8 DEF EconInv

\* setValues is through with a run, landed or too long.
LEMMA EndSetKeeps == EconInv /\ EndSet => EconInv'
<1> SUFFICES ASSUME EconInv, EndSet PROVE EconInv'
  OBVIOUS
<1>1. /\ function = "set" /\ stage = "check_read" /\ status = "success" /\ stage' = "write"
      /\ todo' = todo \ Group
      /\ UNCHANGED <<chip, ptr, status, bus, data, function, op, image, wanted, suspect>>
      /\ EconTypeOK /\ OpOK /\ BusOK /\ Held /\ GetOK /\ SetOK /\ ReadsTrue
  BY DEF EndSet, master, econHist, EconInv
<1>2. Busy /\ todo # {} /\ bus = NoBus
  BY <1>1 DEF BusOK, Busy
<1> DEFINE R == DOMAIN image
<1>3. RunsOf(todo \ Group, R)
  BY <1>1, <1>2, GroupIs
<1>4. \A r \in Fitting(R) \ todo' : chip[r] = image[r]
  BY <1>1, <1>2 DEF SetOK, GroupOver
<1>5. Fitting(R)' = Fitting(R)
  BY <1>1 DEF Fitting
<1>6. SetOK'
  BY <1>1, <1>3, <1>4, <1>5 DEF SetOK, GroupOver, RunsOf
<1>7. EconTypeOK' /\ OpOK' /\ BusOK' /\ Held' /\ GetOK' /\ ReadsTrue'
  BY <1>1, <1>2 DEF EconTypeOK, OpOK, BusOK, Held, Spoilt, GetOK, ReadsTrue
<1>8. QED
  BY <1>6, <1>7 DEF EconInv

-----------------------------------------------------------------------------
(***************************************************************************)
(* The calls and their returns.                                            *)
(***************************************************************************)

\* Between the calls the master has nothing to do.
LEMMA ClientIdle == EconInv /\ function = "client" => bus = NoBus /\ stage = "write"
  BY DEF EconInv, BusOK, Busy

\* The parameter maps of the callers, and those with the defaults laid under.
LEMMA SettingType ==
  ASSUME NEW ps \in Settings
  PROVE  /\ DOMAIN ps \subseteq Param /\ ps \in [DOMAIN ps -> Value]
         /\ [p \in Param |-> IF p \in DOMAIN ps THEN ps[p] ELSE Default] \in [Param -> Value]
<1>1. DOMAIN ps \subseteq Param /\ ps \in [DOMAIN ps -> Value]
  BY SettingAssumption
<1>2. \A p \in DOMAIN ps : ps[p] \in Value
  BY <1>1
<1>3. QED
  BY <1>1, <1>2, ValueAssumption

LEMMA CallWithReadKeeps == EconInv /\ CallWithRead => EconInv'
<1> SUFFICES ASSUME EconInv, CallWithRead PROVE EconInv'
  OBVIOUS
<1>1. PICK ps \in Settings, kind \in {"apply", "read"} :
         op' = [kind |-> kind, params |-> ps] /\ todo' = Touched(ps)
  BY DEF CallWithRead
<1>2. /\ function = "client" /\ function' = "get" /\ stage' = "write" /\ image' = <<>>
      /\ UNCHANGED <<chip, ptr, status, bus, data, wanted, suspect>>
      /\ EconTypeOK /\ BusOK /\ Held
      /\ bus = NoBus
  BY ClientIdle DEF CallWithRead, master, econHist, EconInv
<1>3. /\ op'.kind = kind /\ op'.params = ps /\ DOMAIN image' = {}
      /\ DOMAIN ps \subseteq Param /\ ps \in [DOMAIN ps -> Value]
  BY <1>1, <1>2, SettingType
<1>4. Touched(ps) \subseteq Reg
  BY <1>3 DEF Touched, Reg
<1>5. EconTypeOK'
  BY <1>1, <1>2, <1>3, <1>4 DEF EconTypeOK
<1>6. OpOK' /\ BusOK' /\ SetOK' /\ ReadsTrue'
  BY <1>1, <1>2, <1>3 DEF OpOK, BusOK, SetOK, ReadsTrue
<1>7. Held'
  BY <1>2 DEF Held, Spoilt
<1>8. GetOK'
  BY <1>1, <1>2, <1>3 DEF GetOK, Touched
<1>9. QED
  BY <1>5, <1>6, <1>7, <1>8 DEF EconInv

LEMMA LoadKeeps == EconInv /\ LoadParameters => EconInv'
<1> SUFFICES ASSUME EconInv, LoadParameters PROVE EconInv'
  OBVIOUS
<1>1. PICK ps \in Settings :
         LET all == [p \in Param |-> IF p \in DOMAIN ps THEN ps[p] ELSE Default]
         IN  op' = [kind |-> "load", params |-> all] /\ image' = Content(all)
  BY DEF LoadParameters
<1> DEFINE all == [p \in Param |-> IF p \in DOMAIN ps THEN ps[p] ELSE Default]
<1>2. /\ function = "client" /\ function' = "set" /\ stage' = "write" /\ todo' = Reg
      /\ UNCHANGED <<chip, ptr, status, bus, data, wanted, suspect>>
      /\ EconTypeOK /\ BusOK /\ Held
      /\ bus = NoBus
  BY ClientIdle DEF LoadParameters, master, econHist, EconInv
<1>3. all \in [Param -> Value] /\ DOMAIN all = Param
  BY SettingType
<1>4. op'.kind = "load" /\ op'.params = all /\ image' = Content(all)
  BY <1>1
<1> HIDE DEF all
<1>5. /\ DOMAIN image' = Reg
      /\ \A r \in Reg : Sharing(r) \subseteq Param
      /\ \A r \in Reg : image'[r] = [p \in Sharing(r) |-> all[p]]
  BY <1>4 DEF Content, Sharing
<1>6. EconTypeOK'
  <2>1. \A r \in DOMAIN image' : image'[r] \in [Sharing(r) -> Value]
    BY <1>3, <1>5
  <2>2. QED
    BY <1>2, <1>4, <1>5, <2>1 DEF EconTypeOK
<1>7. OpOK' /\ BusOK' /\ GetOK' /\ ReadsTrue'
  BY <1>2, <1>3, <1>4 DEF OpOK, BusOK, GetOK, ReadsTrue
<1>8. Held'
  BY <1>2, <1>3, <1>4 DEF Held, Spoilt
<1>9. Touched(all) = Reg
  BY <1>3 DEF Touched, Reg
<1>10. RunsOf(Reg, Reg)
  BY DEF RunsOf, Run
<1>11. \A r \in Reg : \A p \in Sharing(r) : image'[r][p] = all[p] /\ p \in DOMAIN all
  BY <1>3, <1>5
<1>12. \A r \in Reg : \A p \in Sharing(r) \ suspect : chip[r][p] = wanted[p]
  BY <1>2 DEF Held, Spoilt, Sharing
<1>13. Fitting(Reg) \subseteq Reg
  BY DEF Fitting
<1>14. SetOK'
  BY <1>2, <1>4, <1>5, <1>9, <1>10, <1>11, <1>12, <1>13 DEF SetOK, GroupOver
<1>15. QED
  BY <1>6, <1>7, <1>8, <1>14 DEF EconInv

LEMMA ReadThroughKeeps == EconInv /\ ReadThrough => EconInv'
<1> SUFFICES ASSUME EconInv, ReadThrough PROVE EconInv'
  OBVIOUS
<1> DEFINE R == DOMAIN image
<1>1. /\ function = "get" /\ todo = {}
      /\ UNCHANGED <<chip, ptr, status, bus, data, stage, op, wanted, suspect>>
      /\ EconTypeOK /\ OpOK /\ BusOK /\ Held /\ GetOK
  BY DEF ReadThrough, master, econHist, EconInv
<1>2. stage = "write" /\ bus = NoBus
  BY <1>1 DEF BusOK, Busy
<1>3. R = Touched(op.params) /\ \A r \in R : image[r] = chip[r]
  BY <1>1 DEF GetOK
<1>4. /\ DOMAIN op.params \subseteq Param
      /\ \A p \in DOMAIN op.params : op.params[p] \in Value
      /\ op.kind \in {"apply", "read"}
  BY <1>1 DEF OpOK
<1>5. CASE op.kind = "read"
  <2>1. function' = "client" /\ image' = image /\ todo' = todo
    BY <1>5 DEF ReadThrough
  <2>2. ASSUME NEW p \in DOMAIN op.params, p \notin suspect, NEW r \in Layout[p]
        PROVE  image[r][p] = wanted[p]
    <3>1. r \in R
      BY <1>3 DEF Touched
    <3>2. chip[r][p] = wanted[p]
      BY <1>1, <1>4, <2>2 DEF Held, Spoilt
    <3>3. QED
      BY <1>3, <3>1, <3>2
  <2>3. ReadsTrue'
    BY <1>1, <2>1, <2>2 DEF ReadsTrue
  <2>4. EconTypeOK' /\ OpOK' /\ BusOK' /\ Held' /\ GetOK' /\ SetOK'
    BY <1>1, <1>2, <2>1 DEF EconTypeOK, OpOK, BusOK, Held, Spoilt, GetOK, SetOK
  <2>5. QED
    BY <2>3, <2>4 DEF EconInv
<1>6. CASE op.kind = "apply"
  <2>1. function' = "set" /\ image' = Overlay(image, op.params) /\ todo' = R
    BY <1>6 DEF ReadThrough
  <2>2. /\ DOMAIN image' = R
        /\ \A r \in R : image'[r] =
              [p \in Sharing(r) |-> IF p \in DOMAIN op.params THEN op.params[p] ELSE image[r][p]]
    BY <2>1 DEF Overlay
  <2>3. \A r \in R : r \in Reg /\ image[r] \in [Sharing(r) -> Value]
    BY <1>1 DEF EconTypeOK
  <2>4. EconTypeOK'
    <3>1. \A r \in DOMAIN image' : image'[r] \in [Sharing(r) -> Value]
      BY <1>4, <2>2, <2>3
    <3>2. R \subseteq Reg
      BY <2>3
    <3>3. QED
      BY <1>1, <2>1, <2>2, <3>1, <3>2 DEF EconTypeOK
  <2>5. \A r \in R : \A p \in Sharing(r) \ suspect : chip[r][p] = wanted[p]
    BY <1>1 DEF Held, Spoilt, Sharing
  <2>6. \A r \in R : \A p \in Sharing(r) :
           image'[r][p] = (IF p \in DOMAIN op.params THEN op.params[p]
                           ELSE IF p \in suspect THEN image'[r][p]
                           ELSE wanted[p])
    BY <1>3, <2>2, <2>5
  <2>7. RunsOf(R, R) /\ Fitting(R) \subseteq R
    BY DEF RunsOf, Run, Fitting
  <2>8. SetOK'
    BY <1>1, <1>2, <1>3, <2>1, <2>2, <2>5, <2>6, <2>7 DEF SetOK, GroupOver
  <2>9. OpOK' /\ BusOK' /\ Held' /\ GetOK' /\ ReadsTrue'
    BY <1>1, <1>2, <1>6, <2>1 DEF OpOK, BusOK, Held, Spoilt, GetOK, ReadsTrue
  <2>10. QED
    BY <2>4, <2>8, <2>9 DEF EconInv
<1>7. QED
  BY <1>4, <1>5, <1>6

\* Everything that the master could hold is on the chip, the rest is as it was.
LEMMA WriteThroughKeeps == EconInv /\ WriteThrough => EconInv'
<1> SUFFICES ASSUME EconInv, WriteThrough PROVE EconInv'
  OBVIOUS
<1> DEFINE R == DOMAIN image
           set == {p \in DOMAIN op.params : Layout[p] \subseteq Fitting(R)}
<1>1. /\ function = "set" /\ todo = {} /\ function' = "client" /\ DOMAIN image' = {}
      /\ wanted' = [p \in Param |-> IF p \in set THEN op.params[p] ELSE wanted[p]]
      /\ suspect' = suspect \ set
      /\ UNCHANGED <<chip, ptr, status, bus, data, stage, op, todo>>
      /\ EconTypeOK /\ OpOK /\ BusOK /\ Held /\ SetOK
  BY DEF WriteThrough, master, EconInv
<1>2. stage = "write" /\ bus = NoBus
  BY <1>1 DEF BusOK, Busy
<1>3. /\ DOMAIN op.params \subseteq Param
      /\ \A p \in DOMAIN op.params : op.params[p] \in Value
      /\ op.kind \in {"apply", "load"}
  BY <1>1 DEF OpOK
<1>4. /\ R = Touched(op.params)
      /\ \A r \in R : \A p \in Sharing(r) \cap DOMAIN op.params : image[r][p] = op.params[p]
      /\ \A r \in Fitting(R) : chip[r] = image[r]
      /\ \A r \in R \ Fitting(R) : \A p \in Sharing(r) \ suspect : chip[r][p] = wanted[p]
      /\ Fitting(R) \subseteq R
  BY <1>1 DEF SetOK, Fitting
<1>5. set \subseteq Param
  BY <1>3
<1>6. ASSUME NEW p \in set, NEW r \in Layout[p]
      PROVE  chip[r][p] = op.params[p]
  <2>1. r \in Fitting(R) /\ p \in DOMAIN op.params /\ p \in Sharing(r)
    BY <1>5, <1>6, SharingIs
  <2>2. QED
    BY <1>4, <2>1
<1>7. ASSUME NEW p \in DOMAIN op.params, p \notin set, p \notin suspect, NEW r \in Layout[p]
      PROVE  chip[r][p] = wanted[p]
  <2>1. Layout[p] \in Blocks /\ Layout[p] \subseteq R /\ R \subseteq Nat /\ p \in Sharing(r)
    BY <1>1, <1>3, <1>4, RegIsNat, SharingIs DEF Blocks, Touched, EconTypeOK
  <2>2. PICK q \in Layout[p] : q \notin Fitting(R)
    BY <1>7
  <2>3. q \in Run(R, r) /\ r \in R /\ q \in R
    BY <2>1, BlockRun
  <2>4. Run(R, q) = Run(R, r)
    BY <2>1, <2>3, RunSame
  <2>5. r \notin Fitting(R)
    BY <2>2, <2>3, <2>4, FittingIs
  <2>6. QED
    BY <1>4, <1>7, <2>1, <2>3, <2>5
<1>8. Held'
  <2> SUFFICES ASSUME NEW p \in Param, p \notin suspect \ set, NEW r \in Layout[p]
               PROVE  chip[r][p] = wanted'[p]
    BY <1>1 DEF Held, Spoilt
  <2>1. CASE p \in set
    BY <1>1, <1>6, <2>1
  <2>2. CASE p \in DOMAIN op.params /\ p \notin set
    BY <1>1, <1>7, <2>2
  <2>3. CASE p \notin DOMAIN op.params
    <3>1. p \notin set /\ p \notin suspect
      BY <2>3
    <3>2. chip[r][p] = wanted[p]
      BY <1>1, <2>3, <3>1 DEF Held, Spoilt
    <3>3. QED
      BY <1>1, <3>1, <3>2
  <2>4. QED
    BY <2>1, <2>2, <2>3
<1>9. EconTypeOK'
  <2>1. wanted' \in [Param -> Value]
    BY <1>1, <1>3 DEF EconTypeOK
  <2>2. suspect' \subseteq Param
    BY <1>1 DEF EconTypeOK
  <2>3. QED
    BY <1>1, <2>1, <2>2 DEF EconTypeOK
<1>10. OpOK' /\ BusOK' /\ GetOK' /\ SetOK' /\ ReadsTrue'
  BY <1>1, <1>2, <1>3 DEF OpOK, BusOK, GetOK, SetOK, ReadsTrue
<1>11. QED
  BY <1>8, <1>9, <1>10 DEF EconInv

LEMMA StutterKeeps == EconInv /\ UNCHANGED econVars => EconInv'
<1> SUFFICES ASSUME EconInv, UNCHANGED econVars PROVE EconInv'
  OBVIOUS
<1>1. UNCHANGED <<chip, ptr, status, bus, data, function, stage, op, image, todo, wanted, suspect>>
  BY DEF econVars, master, program, econHist
<1>2. Target' = Target /\ Block' = Block /\ Group' = Group
  BY <1>1 DEF Target, Block, Group
<1>3. EconTypeOK' /\ OpOK' /\ BusOK' /\ Held' /\ GetOK' /\ ReadsTrue'
  BY <1>1, <1>2 DEF EconInv, EconTypeOK, OpOK, BusOK, Busy, Held, Spoilt, GetOK, ReadsTrue
<1>4. SetOK'
  BY <1>1, <1>2 DEF EconInv, SetOK, RunsOf, Fitting, GroupOver
<1>5. QED
  BY <1>3, <1>4 DEF EconInv

LEMMA EconStep == EconInv /\ [EconNext]_econVars => EconInv'
<1>1. EconInv /\ EconCall => EconInv'
  BY CallWithReadKeeps, LoadKeeps DEF EconCall
<1>2. EconInv /\ EconProgram => EconInv'
  BY StartWriteKeeps, EndWriteKeeps, StartReadKeeps, EndGetKeeps, EndSetKeeps, ThrowKeeps,
     ReadThroughKeeps, WriteThroughKeeps DEF EconProgram
<1>3. EconInv /\ Master => EconInv'
  BY DoneKeeps, ErrorKeeps DEF Master
<1>4. EconInv /\ Poll => EconInv'
  BY StutterKeeps DEF Poll
<1>5. QED
  BY <1>1, <1>2, <1>3, <1>4, StutterKeeps DEF EconNext
-----------------------------------------------------------------------------
\* Type correctness of a call and of the bus (ECON::getValues, setValues, lpgbt/I2C).
THEOREM TypeCorrect == EconSpec => []EconTypeOK
<1>1. EconInv => EconTypeOK
  BY DEF EconInv
<1>2. QED
  BY <1>1, EconBegins, EconStep, PTL DEF EconSpec

\* View for every layout, limit and end of the transfers: ECON::applyParameters and
\* loadParameters leave every parameter as the calls that returned have set it, but
\* for those of a call that threw.
THEOREM ViewCorrect == EconSpec => []View
<1>1. EconInv => View
  BY DEF EconInv, Held, Spoilt, View
<1>2. QED
  BY <1>1, EconBegins, EconStep, PTL DEF EconSpec

\* ReadsTrue for every layout, limit and end of the transfers: what
\* ECON::readParameters returns was read from the registers it names, although the
\* status it polls has no tag.
THEOREM ReadsCorrect == EconSpec => []ReadsTrue
<1>1. EconInv => ReadsTrue
  BY DEF EconInv
<1>2. QED
  BY <1>1, EconBegins, EconStep, PTL DEF EconSpec
=============================================================================
