------------------------- MODULE CalibSearch_proofs -------------------------
(***************************************************************************)
(* The bisectional search for v_t50 keeps its two ends on the two sides of *)
(* the crossing (Bracketed), for every range of CALIB, every limit on the  *)
(* turns and every chip; it gives up for good reason (NothingMissed) when  *)
(* the limit lets the range be halved down to one value; get_calibs leaves *)
(* the range for good reason (OnlyHopeless) when its long step divides the *)
(* value it starts at; and the binary search stops near v_t50              *)
(* (BinaryClose) when the limit lets its steps shrink to 1.                *)
(*                                                                         *)
(* Bracketed is not inductive: the end that moves takes the value measured *)
(* last, so the reading kept in `last' must be the one at `value', and     *)
(* `value' must be between the ends and not the lower one after a high     *)
(* reading.  The search leaves at 0 (AtAnEnd) for that reason: with both   *)
(* ends one apart the middle is the lower end, which has read low or is 0. *)
(***************************************************************************)
EXTENDS CalibSearch, TLAPS

Bisecting == case.search = "bisectional"

Ends ==
    /\ calib_list \in Int \X Int
    /\ 0 <= calib_list[1] /\ calib_list[1] < calib_list[2] /\ calib_list[2] <= Top

Sides ==
    /\ calib_list[1] = 0 \/ Level(calib_list[1]) = "low"
    /\ calib_list[2] = Top \/ Level(calib_list[2]) = "high"

Measured ==
    outcome = "running" /\ effs # 0 =>
        /\ value \in Int /\ value # 0
        /\ calib_list[1] <= value /\ value < calib_list[2]
        /\ last = Level(value) /\ last # "near"

\* The inductive invariant.
BracketInv ==
    /\ case \in Cases /\ effs \in Nat
    /\ Bisecting /\ case.noise = {} => Ends /\ Sides /\ Measured

\* The middle of two different ends is at least the lower and less than the upper.
LEMMA Middle ==
    ASSUME NEW a \in Int, NEW b \in Int, a < b
    PROVE  /\ (b - a) \div 2 + a \in Int
           /\ a <= (b - a) \div 2 + a
           /\ (b - a) \div 2 + a < b
  OBVIOUS

\* The ends that a turn works with are on their two sides again.
LEMMA BracketKept ==
    ASSUME BracketInv, Bisecting, case.noise = {}, outcome = "running"
    PROVE  /\ Bracket \in Int \X Int
           /\ 0 <= Bracket[1] /\ Bracket[1] < Bracket[2] /\ Bracket[2] <= Top
           /\ Bracket[1] = 0 \/ Level(Bracket[1]) = "low"
           /\ Bracket[2] = Top \/ Level(Bracket[2]) = "high"
  <1>1. Ends /\ Sides /\ Measured
    BY DEF BracketInv
  <1>2. CASE effs = 0
    BY <1>1, <1>2 DEF Ends, Sides, Bracket
  <1>3. CASE effs # 0 /\ last = "high"
    <2>1. /\ value \in Int /\ value # 0 /\ Level(value) = "high"
          /\ calib_list[1] <= value /\ value < calib_list[2]
      BY <1>1, <1>3 DEF Measured
    <2>2. calib_list[1] # value
      BY <1>1, <2>1 DEF Sides
    <2>3. Bracket = <<calib_list[1], value>>
      BY <1>3 DEF Bracket
    <2> QED
      BY <1>1, <2>1, <2>2, <2>3, SearchAssumption DEF Ends, Sides
  <1>4. CASE effs # 0 /\ last # "high"
    <2>1. /\ value \in Int
          /\ calib_list[1] <= value /\ value < calib_list[2]
          /\ Level(value) = "low"
      BY <1>1, <1>4 DEF Measured, Level
    <2>2. Bracket = <<value, calib_list[2]>>
      BY <1>4 DEF Bracket
    <2> QED
      BY <1>1, <2>1, <2>2, SearchAssumption DEF Ends, Sides
  <1> QED
    BY <1>2, <1>3, <1>4

LEMMA BracketInit == SearchInit => BracketInv
  BY SearchAssumption DEF SearchInit, BracketInv, Ends, Sides, Measured

LEMMA BracketNext == BracketInv /\ [SearchNext]_searchVars => BracketInv'
  <1> SUFFICES ASSUME BracketInv, [SearchNext]_searchVars
               PROVE  BracketInv'
    OBVIOUS
  <1>1. CASE Bisect
    <2>1. case' = case /\ case.search = "bisectional" /\ outcome = "running"
      BY <1>1 DEF Bisect
    <2>2. effs' \in Nat /\ case' \in Cases
      BY <1>1 DEF Bisect, Recorded, BracketInv
    <2>3. CASE case.noise # {}
      BY <2>1, <2>2, <2>3 DEF BracketInv, Bisecting
    <2>4. CASE case.noise = {}
      <3>1. /\ Bracket \in Int \X Int
            /\ 0 <= Bracket[1] /\ Bracket[1] < Bracket[2] /\ Bracket[2] <= Top
            /\ Bracket[1] = 0 \/ Level(Bracket[1]) = "low"
            /\ Bracket[2] = Top \/ Level(Bracket[2]) = "high"
        BY <2>1, <2>4, BracketKept DEF Bisecting
      <3>2. calib_list' = Bracket /\ value' = (Bracket[2] - Bracket[1]) \div 2 + Bracket[1]
        BY <1>1 DEF Bisect
      <3>3. Ends' /\ Sides'
        BY <2>1, <3>1, <3>2 DEF Ends, Sides, Level
      <3>4. /\ value' \in Int /\ Bracket[1] <= value' /\ value' < Bracket[2]
        BY <3>1, <3>2, Middle
      <3>5. last' = Level(value')
        BY <1>1, <2>4 DEF Bisect, Readings
      <3>6. Level(value') = Level(value)'
        BY <2>1 DEF Level
      <3>7. outcome' = "running" => last' # "near" /\ value' # 0
        BY <1>1 DEF Bisect, AtAnEnd
      <3>8. Measured'
        BY <3>2, <3>4, <3>5, <3>6, <3>7 DEF Measured
      <3> QED
        BY <2>2, <3>3, <3>8 DEF BracketInv
    <2> QED
      BY <2>3, <2>4
  <1>2. CASE Binary
    <2>1. case' = case /\ case.search = "binary" /\ effs' \in Nat
      BY <1>2 DEF Binary, Recorded, BracketInv
    <2> QED
      BY <2>1 DEF BracketInv, Bisecting
  <1>3. CASE GetCalib
    BY <1>3 DEF GetCalib, BracketInv, Bisecting
  <1>4. CASE UNCHANGED searchVars
    BY <1>4 DEF searchVars, BracketInv, Bisecting, Ends, Sides, Measured, Level
  <1> QED
    BY <1>1, <1>2, <1>3, <1>4 DEF SearchNext, Search, SearchTerminated

\* BracketCorrect: in every run of the bisectional search the point where the
\* efficiency crosses one half stays between the two ends (Bracketed).
THEOREM BracketCorrect == SearchSpec => []Bracketed
  <1>1. BracketInv => Bracketed
    BY DEF BracketInv, Bisecting, Ends, Sides, Bracketed
  <1> QED
    BY <1>1, BracketInit, BracketNext, PTL DEF SearchSpec
-----------------------------------------------------------------------------
(***************************************************************************)
(* NothingMissed.  The search gives up at one of two values, 0 and one     *)
(* below the greatest, or when it has had its turns; then the ends must be *)
(* one apart, so that no value is between them.  How far they are apart    *)
(* after how many turns needs a bound on repeated halving, w.              *)
(***************************************************************************)

\* w bounds the distance of the ends after so many halvings, rounded up.
Halves(w) ==
    /\ w \in [Nat -> Nat] /\ Top <= w[0]
    /\ \A n \in Nat : w[n] <= 2 * w[n + 1]

\* The limit on the turns lets the range be halved down to one value.
EnoughTurns == \E w : Halves(w) /\ w[MaxIts] <= 1

\* The sizes in the code let it: 12 halvings of 0..4095, and 25 turns.
LEMMA CodeHasEnoughTurns == Top = 4095 /\ MaxIts = 25 => EnoughTurns
  <1> SUFFICES ASSUME Top = 4095, MaxIts = 25
               PROVE  EnoughTurns
    OBVIOUS
  <1> DEFINE w == [n \in Nat |->
                      IF n = 0 THEN 4095 ELSE IF n = 1 THEN 2048 ELSE IF n = 2 THEN 1024
                      ELSE IF n = 3 THEN 512 ELSE IF n = 4 THEN 256 ELSE IF n = 5 THEN 128
                      ELSE IF n = 6 THEN 64 ELSE IF n = 7 THEN 32 ELSE IF n = 8 THEN 16
                      ELSE IF n = 9 THEN 8 ELSE IF n = 10 THEN 4 ELSE IF n = 11 THEN 2
                      ELSE 1]
  <1>1. w \in [Nat -> Nat] /\ w[0] = 4095 /\ w[25] = 1
    OBVIOUS
  <1>2. ASSUME NEW n \in Nat
        PROVE  w[n] <= 2 * w[n + 1]
    OBVIOUS
  <1> HIDE DEF w
  <1> QED
    BY <1>1, <1>2 DEF EnoughTurns, Halves

\* After a turn the ends are as far apart as the halvings of the turns before leave.
Narrow(w) ==
    Bisecting /\ case.noise = {} /\ outcome = "running" /\ effs # 0 =>
        /\ value = (calib_list[2] - calib_list[1]) \div 2 + calib_list[1]
        /\ calib_list[2] - calib_list[1] <= w[effs - 1]
        /\ effs <= MaxIts

\* Half of a distance, on either side of the middle, is within the next bound.
LEMMA HalfOf ==
    ASSUME NEW a \in Int, NEW b \in Int, NEW m \in Nat, NEW n \in Nat,
           a < b, b - a <= m, m <= 2 * n
    PROVE  LET v == (b - a) \div 2 + a
           IN  v - a <= n /\ b - v <= n
  OBVIOUS

\* A turn halves the distance.
LEMMA BracketNarrow ==
    ASSUME BracketInv, Bisecting, case.noise = {}, outcome = "running",
           NEW w, Halves(w), Narrow(w)
    PROVE  Bracket[2] - Bracket[1] <= w[effs]
  <1>1. /\ calib_list \in Int \X Int /\ calib_list[1] < calib_list[2]
        /\ 0 <= calib_list[1] /\ calib_list[2] <= Top /\ effs \in Nat
    BY DEF BracketInv, Ends
  <1>2. CASE effs = 0
    <2>1. Bracket = calib_list /\ Top \in Nat /\ Top <= w[0] /\ w[0] \in Nat
      BY <1>2, SearchAssumption DEF Bracket, Halves
    <2> QED
      BY <1>1, <1>2, <2>1
  <1>3. CASE effs # 0
    <2>1. /\ value = (calib_list[2] - calib_list[1]) \div 2 + calib_list[1]
          /\ calib_list[2] - calib_list[1] <= w[effs - 1]
      BY <1>3 DEF Narrow
    <2>2. effs - 1 \in Nat /\ effs = (effs - 1) + 1
      BY <1>1, <1>3
    <2>3. w[effs - 1] \in Nat /\ w[effs] \in Nat /\ w[effs - 1] <= 2 * w[effs]
      BY <2>2 DEF Halves
    <2>4. value - calib_list[1] <= w[effs] /\ calib_list[2] - value <= w[effs]
      BY <1>1, <2>1, <2>3, HalfOf
    <2>5. Bracket = <<calib_list[1], value>> \/ Bracket = <<value, calib_list[2]>>
      BY <1>3 DEF Bracket
    <2> QED
      BY <2>4, <2>5
  <1> QED
    BY <1>2, <1>3

\* What the curve of a chip is made of.
LEMMA CurveType ==
    ASSUME case \in Cases
    PROVE  case.near \in Int /\ case.high \in Int /\ case.near <= case.high
  BY CaseAssumption, SearchAssumption

LEMMA MissedInit == \A w : SearchInit => Narrow(w) /\ NothingMissed
  BY DEF SearchInit, Narrow, NothingMissed

LEMMA MissedNext ==
    ASSUME Top > 2, NEW w, Halves(w), w[MaxIts] <= 1,
           BracketInv, Narrow(w), NothingMissed, [SearchNext]_searchVars
    PROVE  Narrow(w)' /\ NothingMissed'
  <1>1. CASE Bisect
    <2>1. case' = case /\ case.search = "bisectional" /\ outcome = "running"
      BY <1>1 DEF Bisect
    <2>2. CASE case.noise # {}
      BY <2>1, <2>2 DEF Narrow, NothingMissed
    <2>3. CASE case.noise = {}
      <3> DEFINE a == Bracket[1]
                 b == Bracket[2]
      <3>1. /\ a \in Int /\ b \in Int /\ 0 <= a /\ a < b /\ b <= Top
            /\ a = 0 \/ Level(a) = "low"
            /\ b = Top \/ Level(b) = "high"
        BY <2>1, <2>3, BracketKept DEF Bisecting
      <3>2. b - a <= w[effs]
        BY <2>1, <2>3, BracketNarrow DEF Bisecting
      <3>3. calib_list' = Bracket /\ value' = (b - a) \div 2 + a
        BY <1>1 DEF Bisect
      <3>4. last' = Level(value')
        BY <1>1, <2>3 DEF Bisect, Readings
      <3> HIDE DEF a, b
      <3>5. Narrow(w)'
        <4> SUFFICES ASSUME outcome' = "running"
                     PROVE  effs' - 1 = effs /\ effs' <= MaxIts
          BY <3>2, <3>3 DEF Narrow, a, b
        <4>1. effs' = effs + 1 /\ effs \in Nat /\ ~(effs + 1 > MaxIts)
          BY <1>1 DEF Bisect, Recorded, BracketInv
        <4> QED
          BY <4>1, SearchAssumption
      <3>6. ASSUME outcome' \in {"none", "ended"}, NEW v \in 0..(Top - 1)
            PROVE  Level(v) # "near"
        <4>1. /\ case.near \in Int /\ case.high \in Int /\ case.near <= case.high
              /\ Top \in Nat /\ MaxIts \in Nat /\ v \in Int
          BY CurveType, SearchAssumption DEF BracketInv
        <4>2. last' # "near" /\ value' \in Int
          BY <1>1, <3>1, <3>3, <3>6 DEF Bisect, Recorded
        <4>3. CASE AtAnEnd(value')
          <5>1. CASE value' = 0
            <6>1. a = 0 /\ b = 1
              BY <3>1, <3>3, <5>1
            <6> QED
              BY <3>1, <3>4, <4>1, <4>2, <5>1, <6>1 DEF Level
          <5>2. CASE value' = Top - 1
            <6>1. a = Top - 1 \/ a = Top - 2
              BY <3>1, <3>3, <4>1, <5>2
            <6>2. a # 0
              BY <4>1, <6>1
            <6> QED
              BY <3>1, <3>4, <4>1, <4>2, <5>2, <6>1, <6>2 DEF Level
          <5> QED
            BY <4>3, <5>1, <5>2 DEF AtAnEnd
        <4>4. CASE ~AtAnEnd(value')
          <5>1. effs + 1 > MaxIts /\ effs \in Nat
            BY <1>1, <3>6, <4>4 DEF Bisect, Recorded, BracketInv
          <5>2. effs = MaxIts
            BY <2>1, <2>3, <4>1, <5>1 DEF Narrow, Bisecting
          <5>3. b = a + 1
            <6>1. w[effs] \in Nat /\ w[effs] <= 1
              BY <5>1, <5>2 DEF Halves
            <6> QED
              BY <3>1, <3>2, <6>1
          <5>4. value' = a /\ a # 0 /\ b # Top
            BY <3>1, <3>3, <4>1, <4>4, <5>3 DEF AtAnEnd
          <5> QED
            BY <3>1, <3>4, <4>1, <4>2, <5>3, <5>4 DEF Level
        <4> QED
          BY <4>3, <4>4
      <3>7. NothingMissed'
        BY <2>1, <3>6 DEF NothingMissed, Level
      <3> QED
        BY <3>5, <3>7
    <2> QED
      BY <2>2, <2>3
  <1>2. CASE Binary \/ GetCalib
    BY <1>2 DEF Binary, GetCalib, Narrow, NothingMissed, Bisecting
  <1>3. CASE UNCHANGED searchVars
    BY <1>3 DEF searchVars, Narrow, NothingMissed, Bisecting, Level
  <1> QED
    BY <1>1, <1>2, <1>3 DEF SearchNext, Search, SearchTerminated

\* MissedCorrect: where the turns allowed reach down to one value (25 do, of 0..4095),
\* the bisectional search of vt50_scan gives up only when there is nothing to find.
THEOREM MissedCorrect == Top > 2 /\ EnoughTurns => (SearchSpec => []NothingMissed)
  <1> SUFFICES ASSUME Top > 2, EnoughTurns
               PROVE  SearchSpec => []NothingMissed
    OBVIOUS
  <1> PICK w : Halves(w) /\ w[MaxIts] <= 1
    BY DEF EnoughTurns
  <1>1. SearchInit => BracketInv /\ Narrow(w) /\ NothingMissed
    BY BracketInit, MissedInit
  <1>2. BracketInv /\ Narrow(w) /\ NothingMissed /\ [SearchNext]_searchVars
        => (BracketInv /\ Narrow(w) /\ NothingMissed)'
    BY BracketNext, MissedNext
  <1> QED
    BY <1>1, <1>2, PTL DEF SearchSpec
-----------------------------------------------------------------------------
(***************************************************************************)
(* OnlyHopeless.  Going down in long steps could pass 0; it does not,      *)
(* because the first value, and so every value until the first low         *)
(* reading, is a multiple of the step (1000 and 50).  From then on the     *)
(* value goes up one by one and meets the target, if there is one.         *)
(***************************************************************************)
Reachable == case.search = "get_calibs" /\ case.noise = {} /\ case.near < case.high /\ case.near <= Top

Descending == \E k \in Nat : value = k * StepDown

HopeInv ==
    /\ case \in Cases
    /\ Reachable =>
           /\ value \in Nat /\ value <= Top
           /\ Descending \/ value <= case.near
           /\ outcome # "ValOver"

\* A long step from a multiple of it above 0 ends at 0 or above.
LEMMA DownOneStep ==
    ASSUME NEW k \in Nat, NEW s \in Nat, k * s > 0
    PROVE  k - 1 \in Nat /\ k * s - s = (k - 1) * s /\ (k - 1) * s >= 0
  <1>1. k # 0
    OBVIOUS
  <1>2. k - 1 \in Nat
    BY <1>1
  <1>3. k * s - s = (k - 1) * s
    OBVIOUS
  <1>4. \A i, j \in Nat : i * j >= 0
    OBVIOUS
  <1> QED
    BY <1>2, <1>3, <1>4

LEMMA HopeNext == HopeInv /\ [SearchNext]_searchVars => HopeInv'
  <1> SUFFICES ASSUME HopeInv, [SearchNext]_searchVars
               PROVE  HopeInv'
    OBVIOUS
  <1>1. CASE GetCalib
    <2>1. case' = case /\ case \in Cases
      BY <1>1 DEF GetCalib, HopeInv
    <2> SUFFICES ASSUME Reachable
                 PROVE  /\ value' \in Nat /\ value' <= Top
                        /\ Descending' \/ value' <= case.near
                        /\ outcome' # "ValOver"
      BY <2>1 DEF HopeInv, Reachable
    <2>2. /\ value \in Nat /\ value <= Top /\ Top \in Nat /\ StepDown \in Nat
          /\ Descending \/ value <= case.near
          /\ case.near \in Int /\ case.high \in Int
          /\ 0 <= case.near /\ case.near < case.high /\ case.near <= Top
      BY SearchAssumption, CaseAssumption, CurveType DEF HopeInv, Reachable
    <2>3. /\ last' = Level(value) /\ outcome = "running"
          /\ IF last' = "near" THEN outcome' = "found" /\ value' = value
                               ELSE value' = Move(last') /\ outcome' = outcome
      BY <1>1, <2>2 DEF GetCalib, Readings, Reachable
    <2>4. CASE last' = "near"
      BY <2>2, <2>3, <2>4 DEF Descending
    <2>5. CASE last' = "low"
      <3>1. value' = value + 1 /\ value < case.near
        BY <2>2, <2>3, <2>5 DEF Move, Level
      <3> QED
        BY <2>2, <2>3, <2>5, <3>1
    <2>6. CASE last' = "high"
      <3>1. value' = value - StepDown /\ value >= case.high
        BY <2>2, <2>3, <2>6 DEF Move, Level
      <3>2. PICK k \in Nat : value = k * StepDown
        BY <2>2, <3>1 DEF Descending
      <3>3. value > 0
        BY <2>2, <3>1
      <3>4. k - 1 \in Nat /\ value' = (k - 1) * StepDown /\ value' >= 0
        BY <2>2, <3>1, <3>2, <3>3, DownOneStep
      <3>5. value' \in Nat /\ value' <= Top
        BY <2>2, <3>1, <3>4
      <3>6. Descending'
        BY <3>4 DEF Descending
      <3> QED
        BY <2>3, <2>6, <3>5, <3>6
    <2> QED
      BY <2>3, <2>4, <2>5, <2>6 DEF Level
  <1>2. CASE Bisect \/ Binary
    BY <1>2 DEF Bisect, Binary, HopeInv, Reachable
  <1>3. CASE UNCHANGED searchVars
    BY <1>3 DEF searchVars, HopeInv, Reachable, Descending
  <1> QED
    BY <1>1, <1>2, <1>3 DEF SearchNext, Search, SearchTerminated

\* HopelessCorrect: where the step divides the first value (50 and 1000 do), get_calibs
\* throws only for a target that no CALIB reaches: it never steps below 0 past one it does.
THEOREM HopelessCorrect ==
    (\E k \in Nat : Start = k * StepDown) => (SearchSpec => []OnlyHopeless)
  <1> SUFFICES ASSUME \E k \in Nat : Start = k * StepDown
               PROVE  SearchSpec => []OnlyHopeless
    OBVIOUS
  <1>1. SearchInit => HopeInv
    BY SearchAssumption DEF SearchInit, HopeInv, Descending
  <1>2. HopeInv => OnlyHopeless
    <2> SUFFICES ASSUME HopeInv, case.search = "get_calibs", case.noise = {}, outcome = "ValOver",
                        NEW v \in 0..Top, Level(v) = "near"
                 PROVE  FALSE
      BY DEF OnlyHopeless
    <2>1. case.near \in Int /\ case.high \in Int /\ Top \in Nat
      BY CurveType, SearchAssumption DEF HopeInv
    <2>2. case.near <= v /\ v < case.high
      BY <2>1 DEF Level
    <2>3. Reachable
      BY <2>1, <2>2 DEF Reachable
    <2> QED
      BY <2>3 DEF HopeInv
  <1> QED
    BY <1>1, <1>2, HopeNext, PTL DEF SearchSpec
-----------------------------------------------------------------------------
(***************************************************************************)
(* BinaryClose.  The binary search keeps no two ends: it adds half of its  *)
(* last step to the greatest value that has read low, which it finds in    *)
(* its list by counting back.  Every half is rounded down, in the step and *)
(* again in the step after it, so the steps and the distance to the        *)
(* crossing drift apart: going up by what an odd step loses, coming down   *)
(* by one in every two turns.  Both drifts are bounded by the number of    *)
(* turns, and the steps still shrink to 1 within the turns allowed.        *)
(***************************************************************************)
Halving == case.search = "binary" /\ case.noise = {} /\ case.high \in 1..Top

\* The value tried before the last, and how far the last one is from it.
Before == calib_list[Len(calib_list) - 1]
Step == IF value < Before THEN Before - value ELSE value - Before

\* w bounds the step of each turn: a step is at most half of the one before the last,
\* and at most half of the last but for the drift.
Shrinks(w) ==
    /\ w \in [Nat -> Nat] /\ Top <= w[1]
    /\ \A n \in Nat :
           /\ w[n + 1] <= w[n]
           /\ \/ w[n] <= 2 * w[n + 2]
              \/ w[n + 1] + 1 + 2 * (n \div 2) <= 2 * w[n + 2]

\* lg[d] bounds how often a step of d can be halved before it is 1.
Halvings(lg) ==
    /\ lg \in [Nat -> Nat]
    /\ \A d, e \in Nat : d <= e => lg[d] <= lg[e]
    /\ \A d \in Nat : d >= 2 => lg[d \div 2] + 1 <= lg[d]

\* The limit on the turns lets the steps shrink to 1, and Slack covers the drifts.
EnoughHalvings ==
    /\ \E w : Shrinks(w) /\ w[MaxIts - 1] <= 1
    /\ \E lg : Halvings(lg) /\ lg[Top] + 1 <= Slack
    /\ MaxIts >= 2 /\ (MaxIts - 1) \div 2 <= Slack

\* What the list holds after a turn.
Tried(w) ==
    /\ calib_list \in Seq(Int) /\ effs \in 1..MaxIts /\ Len(calib_list) = effs + 2
    /\ value = calib_list[Len(calib_list)]
    /\ value \in 0..Top /\ Before \in 0..Top
    /\ last = "high" <=> value >= case.high
    /\ 1 <= Step /\ Step <= w[effs]

\* After a low reading the crossing is at most one step up, and what the halvings lost.
Below(lg) ==
    last # "high" =>
        /\ value + Step <= Top
        /\ \E g \in Nat : g + lg[Step] <= lg[Top] /\ case.high <= value + Step + g

\* After a high reading the count leads back to a value that read low, the crossing is
\* between the two, and their distance is the step but for the drift.
Above(w) ==
    last = "high" =>
        /\ count \in 2..(Len(calib_list) - 1)
        /\ 0 <= LowerEnd /\ LowerEnd < case.high /\ LowerEnd <= Before
        /\ 2 * (value - LowerEnd) <= w[effs - 1]
        /\ -((effs - 2) \div 2) <= Step - (value - LowerEnd)
        /\ Step - (value - LowerEnd) <= (effs - 1) \div 2

\* The inductive invariant.
HalvingInv(w, lg) ==
    /\ case \in Cases
    /\ Halving =>
           /\ outcome \in {"running", "found"}
           /\ outcome = "found" => value - case.high \in (-Slack)..Slack
           /\ outcome = "running" /\ effs = 0 => calib_list = <<0, Top>>
           /\ outcome = "running" /\ effs # 0 => Tried(w) /\ Below(lg) /\ Above(w)

\* The sizes in the code let it: 25 turns and 12 halvings of 0..4095.
LEMMA CodeHasEnoughHalvings ==
    Top = 4095 /\ MaxIts = 25 /\ Slack = 12 => EnoughHalvings
  <1> SUFFICES ASSUME Top = 4095, MaxIts = 25, Slack = 12
               PROVE  EnoughHalvings
    OBVIOUS
  <1> DEFINE w == [n \in Nat |->
                      IF n <= 1 THEN 4095 ELSE IF n = 2 THEN 2048 ELSE IF n = 3 THEN 1025
                      ELSE IF n = 4 THEN 514 ELSE IF n = 5 THEN 259 ELSE IF n = 6 THEN 132
                      ELSE IF n = 7 THEN 69 ELSE IF n = 8 THEN 38 ELSE IF n = 9 THEN 23
                      ELSE IF n = 10 THEN 16 ELSE IF n = 11 THEN 12 ELSE IF n = 12 THEN 8
                      ELSE IF n = 13 THEN 6 ELSE IF n = 14 THEN 4 ELSE IF n = 15 THEN 3
                      ELSE IF n <= 17 THEN 2 ELSE 1]
             lg == [d \in Nat |->
                      IF d < 2 THEN 0 ELSE IF d < 4 THEN 1 ELSE IF d < 8 THEN 2
                      ELSE IF d < 16 THEN 3 ELSE IF d < 32 THEN 4 ELSE IF d < 64 THEN 5
                      ELSE IF d < 128 THEN 6 ELSE IF d < 256 THEN 7 ELSE IF d < 512 THEN 8
                      ELSE IF d < 1024 THEN 9 ELSE IF d < 2048 THEN 10 ELSE IF d < 4096 THEN 11
                      ELSE d]
  <1>1. Shrinks(w) /\ w[24] <= 1
    <2>1. w \in [Nat -> Nat] /\ w[1] = 4095 /\ w[24] = 1
      OBVIOUS
    <2>2. ASSUME NEW n \in Nat
          PROVE  /\ w[n + 1] <= w[n]
                 /\ \/ w[n] <= 2 * w[n + 2]
                    \/ w[n + 1] + 1 + 2 * (n \div 2) <= 2 * w[n + 2]
      OBVIOUS
    <2> HIDE DEF w
    <2> QED
      BY <2>1, <2>2 DEF Shrinks
  <1>2. Halvings(lg) /\ lg[4095] = 11
    <2>1. lg \in [Nat -> Nat] /\ lg[4095] = 11
      OBVIOUS
    <2>2. ASSUME NEW d \in Nat, NEW e \in Nat, d <= e
          PROVE  lg[d] <= lg[e]
      BY <2>2
    <2>3. ASSUME NEW d \in Nat, d >= 2
          PROVE  lg[d \div 2] + 1 <= lg[d]
      BY <2>3
    <2> HIDE DEF lg
    <2> QED
      BY <2>1, <2>2, <2>3 DEF Halvings
  <1> HIDE DEF w, lg
  <1>3. MaxIts - 1 = 24 /\ (MaxIts - 1) \div 2 = 12
    OBVIOUS
  <1> QED
    BY <1>1, <1>2, <1>3 DEF EnoughHalvings

\* Half of a step, rounded down.
LEMMA Rounded ==
    ASSUME NEW d \in Int
    PROVE  d \div 2 \in Int /\ 2 * (d \div 2) <= d /\ d <= 2 * (d \div 2) + 1
  OBVIOUS

\* The list after a value is appended: the rest of it stays.
LEMMA Appended ==
    ASSUME NEW s \in Seq(Int), NEW v \in Int, NEW n \in Nat, Len(s) = n
    PROVE  /\ Append(s, v) \in Seq(Int) /\ Len(Append(s, v)) = n + 1
           /\ Append(s, v)[n + 1] = v
           /\ \A i \in 1..n : Append(s, v)[i] = s[i]
  OBVIOUS

\* Up by half a step from a low reading: the new step is that half, and what the
\* rounding loses is at most one.
LEMMA StepUp ==
    ASSUME NEW v \in Int, NEW d \in Int, NEW h \in Int, NEW y \in Int, NEW top \in Int,
           2 * h <= d, d <= 2 * h + 1, 1 <= d, y = h + v, y # v, 0 <= v, v + d <= top
    PROVE  /\ d >= 2 /\ h >= 1 /\ y > v /\ y - v = h /\ h - (y - v) = 0
           /\ y \in 0..top /\ y + h <= top
  OBVIOUS

LEMMA StepUpLoses ==
    ASSUME NEW v \in Int, NEW d \in Int, NEW h \in Int, NEW y \in Int,
           NEW t \in Int, NEW g \in Int, d <= 2 * h + 1, y = h + v, t <= v + d + g
    PROVE  t <= y + h + (g + 1)
  OBVIOUS

\* How far two values are apart.
LEMMA Apart ==
    ASSUME NEW y \in Int, NEW z \in Int
    PROVE  /\ y >= z => (IF y < z THEN z - y ELSE y - z) = y - z
           /\ y <= z => (IF y < z THEN z - y ELSE y - z) = z - y
  OBVIOUS

\* Two values between two bounds are no further apart than the bounds.
LEMMA ApartWithin ==
    ASSUME NEW y \in Int, NEW z \in Int, NEW lo \in Int, NEW hi \in Int,
           lo <= y, lo <= z, y <= hi, z <= hi
    PROVE  (IF y < z THEN z - y ELSE y - z) <= hi - lo
  OBVIOUS

\* Down to half a step above the lower end, which stays in the range.
LEMMA DownTo ==
    ASSUME NEW l \in Int, NEW v \in Int, NEW d \in Int, NEW h \in Int, NEW y \in Int,
           NEW t \in Int, NEW top \in Int, 2 * h <= d, d <= 2 * h + 1, d >= 1, y = h + l,
           0 <= l, l < t, t <= v, v <= top, d <= top - l
    PROVE  /\ y \in 0..top /\ y >= l /\ (y < t => y < v)
           /\ ~(y > top) /\ y - l = h /\ h >= 0 /\ v - l >= 1
  OBVIOUS

\* Where the value there is the last one again, the drift bounds how far the crossing is.
LEMMA DownFound ==
    ASSUME NEW l \in Int, NEW v \in Int, NEW d \in Int, NEW h \in Int, NEW t \in Int,
           NEW a \in Int, 2 * h <= d, v = h + l, l < t, t <= v, d - (v - l) <= a,
           NEW m \in Int, NEW slack \in Nat, a <= m, m <= slack
    PROVE  v - t \in (-slack)..slack
  OBVIOUS

\* And where it reads low, its distance to the value before is the new step.
LEMMA DownLow ==
    ASSUME NEW y \in Int, NEW v \in Int, NEW top \in Int, NEW s \in Int, 0 <= y, y < v, v <= top,
           s = v - y
    PROVE  y + s = v /\ s \in Nat /\ s <= top
  OBVIOUS

\* The new value y is half of the step d above the lower end l, the last value was v and
\* the drift between -b and a.
Turned(l, v, d, y, s, a, b) ==
    /\ l \in Int /\ v \in Int /\ d \in Int /\ y \in Int /\ s \in Int /\ a \in Int /\ b \in Int
    /\ 2 * (y - l) <= d /\ d <= 2 * (y - l) + 1 /\ d >= 1 /\ v - l >= 1 /\ y # v
    /\ -b <= d - (v - l) /\ d - (v - l) <= a /\ b <= a /\ a <= b + 1
    /\ s = IF y < v THEN v - y ELSE y - v

\* How far the new step and the new distance drift apart there.
LEMMA StepDrift ==
    ASSUME NEW l, NEW v, NEW d, NEW y, NEW s, NEW a, NEW b, Turned(l, v, d, y, s, a, b)
    PROVE  /\ s >= 1
           /\ -a <= s - (y - l) /\ s - (y - l) <= b + 1
           /\ 2 * s <= d + 1 + 2 * a
           /\ s <= v - l \/ 2 * s <= d
  BY DEF Turned

\* The new step s after a step d and at most half of the step before, p.
Fits(p, d, s, a, w0, w1, w2) ==
    /\ p \in Int /\ d \in Int /\ s \in Int /\ a \in Int
    /\ w0 \in Nat /\ w1 \in Nat /\ w2 \in Nat
    /\ 2 * p <= w0 /\ d <= w1 /\ w1 <= w0
    /\ w0 <= 2 * w2 \/ w1 + 1 + 2 * a <= 2 * w2
    /\ 2 * s <= d + 1 + 2 * a
    /\ s <= p \/ 2 * s <= d

LEMMA StepFits ==
    ASSUME NEW p, NEW d, NEW s, NEW a, NEW w0, NEW w1, NEW w2, Fits(p, d, s, a, w0, w1, w2)
    PROVE  s <= w2
  BY DEF Fits

\* What a turn leaves when its value is in the range and not the last one again.
LEMMA TurnTaken ==
    ASSUME NEW w, Binary, Halving, Tried(w), case \in Cases,
           value' \in 0..Top, value' # value
    PROVE  /\ case' = case /\ effs' = effs + 1 /\ effs \in 1..MaxIts
           /\ calib_list' \in Seq(Int) /\ Len(calib_list') = effs + 3
           /\ calib_list'[effs + 3] = value' /\ Before' = value
           /\ \A i \in 1..(effs + 2) : calib_list'[i] = calib_list[i]
           /\ last' = "high" <=> value' >= case.high
           /\ outcome' = IF effs + 1 > MaxIts THEN "ended" ELSE "running"
           /\ count' = NextCount
  <1>1. /\ calib_list \in Seq(Int) /\ effs \in 1..MaxIts /\ Len(calib_list) = effs + 2
        /\ value = calib_list[effs + 2] /\ value \in 0..Top /\ Top \in Nat /\ MaxIts \in Nat
    BY SearchAssumption DEF Tried
  <1>2. Last(calib_list) = value
    BY <1>1 DEF Last
  <1>3. ~(value' \notin 0..Top) /\ value' \in Int /\ effs \in Nat
    BY <1>1
  <1>4. /\ calib_list' = Append(calib_list, value') /\ Recorded
        /\ last' \in Readings(value') /\ case' = case /\ count' = NextCount
    BY <1>2, <1>3 DEF Binary
  <1>5. /\ calib_list' \in Seq(Int) /\ Len(calib_list') = effs + 3
        /\ calib_list'[effs + 3] = value'
        /\ \A i \in 1..(effs + 2) : calib_list'[i] = calib_list[i]
    <2>1. effs + 2 \in Nat /\ (effs + 2) + 1 = effs + 3
      BY <1>3
    <2> QED
      BY <1>1, <1>3, <1>4, <2>1, Appended
  <1>6. Before' = value
    <2>1. Before' = calib_list'[Len(calib_list') - 1]
      BY DEF Before
    <2>2. (effs + 3) - 1 = effs + 2 /\ effs + 2 \in 1..(effs + 2)
      BY <1>3
    <2> QED
      BY <1>1, <1>5, <2>1, <2>2
  <1>7. last' = "high" <=> value' >= case.high
    <2>1. last' = Level(value') /\ case.near \in Int /\ case.high \in Int /\ case.near <= case.high
      BY <1>4, CurveType DEF Readings, Halving
    <2> QED
      BY <1>3, <2>1 DEF Level
  <1> QED
    BY <1>1, <1>4, <1>5, <1>6, <1>7 DEF Recorded

\* What a turn works with.
LEMMA TurnFrom ==
    ASSUME NEW w, Halving, Tried(w), case \in Cases
    PROVE  /\ HalfStep = Step \div 2 /\ Last(calib_list) = value
           /\ Step \in Int /\ Step >= 1 /\ Step \div 2 \in Int
           /\ 2 * (Step \div 2) <= Step /\ Step <= 2 * (Step \div 2) + 1
           /\ NextBinary = IF last = "high" THEN Step \div 2 + LowerEnd ELSE Step \div 2 + value
           /\ NextCount = IF last = "high" THEN count + 1 ELSE 2
           /\ case.high \in Int /\ 1 <= case.high /\ case.high <= Top
           /\ value \in Int /\ Before \in Int /\ Top \in Nat /\ MaxIts \in Nat /\ effs \in Nat
  <1>1. /\ calib_list \in Seq(Int) /\ effs \in 1..MaxIts /\ Len(calib_list) = effs + 2
        /\ value = calib_list[Len(calib_list)] /\ Step >= 1 /\ MaxIts \in Nat /\ Top \in Nat
        /\ value \in Int /\ Before \in Int
    BY SearchAssumption DEF Tried
  <1>2. Step \in Int
    BY <1>1 DEF Step
  <1>3. HalfStep = Step \div 2
    <2>1. Before = calib_list[Len(calib_list) - 1]
      BY DEF Before
    <2>2. (IF value - Before < 0 THEN -(value - Before) ELSE value - Before) = Step
      BY <1>1 DEF Step
    <2> QED
      BY <1>1, <2>1, <2>2 DEF HalfStep
  <1>4. Last(calib_list) = value /\ effs # 0 /\ effs \in Nat
    BY <1>1 DEF Last
  <1>5. /\ Step \div 2 \in Int
        /\ 2 * (Step \div 2) <= Step /\ Step <= 2 * (Step \div 2) + 1
    BY <1>2, Rounded
  <1>6. case.high \in Int /\ 1 <= case.high /\ case.high <= Top
    BY <1>1 DEF Halving
  <1> QED
    BY <1>1, <1>2, <1>3, <1>4, <1>5, <1>6 DEF NextBinary, NextCount

\* A turn up, from a low reading.
LEMMA HalvingUp ==
    ASSUME NEW w, NEW lg, Shrinks(w), Halvings(lg), lg[Top] + 1 <= Slack,
           Binary, Halving, case \in Cases, Tried(w), Below(lg), last # "high",
           w[MaxIts - 1] <= 1
    PROVE  \/ outcome' = "found" /\ value' - case.high \in (-Slack)..Slack
           \/ outcome' = "running" /\ effs' # 0 /\ Tried(w)' /\ Below(lg)' /\ Above(w)'
  <1> DEFINE d == Step
             h == Step \div 2
             v == value
             t == case.high
  <1>1. /\ d \in Int /\ d >= 1 /\ h \in Int /\ 2 * h <= d /\ d <= 2 * h + 1
        /\ t \in Int /\ 1 <= t /\ t <= Top /\ v \in Int /\ Top \in Nat
        /\ MaxIts \in Nat /\ effs \in Nat
    BY TurnFrom
  <1>2. value' = h + v /\ count' = 2 /\ Last(calib_list) = v
    BY TurnFrom DEF Binary, ReadsAstray
  <1>3. /\ effs \in 1..MaxIts /\ v \in 0..Top /\ v < t /\ d <= w[effs]
        /\ v + d <= Top /\ 0 <= v
    BY <1>1 DEF Tried, Below
  <1>4. PICK g \in Nat : g + lg[d] <= lg[Top] /\ t <= v + d + g
    BY DEF Below
  <1>5. lg[d] \in Nat /\ lg[Top] \in Nat /\ Slack \in Nat
    BY <1>1, SearchAssumption DEF Halvings
  <1> HIDE DEF d, h
  <1>6. CASE value' = value
    <2>1. d = 1 /\ value' \in 0..Top
      BY <1>1, <1>2, <1>3, <1>6
    <2>2. outcome' = "found"
      BY <1>2, <1>6, <2>1 DEF Binary
    <2>3. v - t \in (-Slack)..Slack
      BY <1>1, <1>3, <1>4, <1>5, <2>1
    <2> QED
      BY <1>6, <2>2, <2>3
  <1>7. CASE value' # value
    <2>1. value' \in Int /\ Top \in Int
      BY <1>1, <1>2
    <2>2. /\ d >= 2 /\ h >= 1 /\ value' > v /\ value' - v = h /\ h - (value' - v) = 0
          /\ value' \in 0..Top /\ value' + h <= Top
      BY <1>1, <1>2, <1>3, <1>7, <2>1, StepUp
    <2>3. /\ case' = case /\ effs' = effs + 1
          /\ calib_list' \in Seq(Int) /\ Len(calib_list') = effs + 3
          /\ calib_list'[effs + 3] = value' /\ Before' = value
          /\ \A i \in 1..(effs + 2) : calib_list'[i] = calib_list[i]
          /\ last' = "high" <=> value' >= t
          /\ outcome' = IF effs + 1 > MaxIts THEN "ended" ELSE "running"
      BY <1>7, <2>2, TurnTaken
    <2>4. Step' = h
      <3>1. Step' = IF value' < v THEN v - value' ELSE value' - v
        BY <2>3 DEF Step
      <3>2. value' >= v
        BY <1>1, <2>1, <2>2
      <3>3. Step' = value' - v
        BY <1>1, <2>1, <3>1, <3>2, Apart
      <3> QED
        BY <2>2, <3>3
    <2>5. effs + 1 <= MaxIts
      <3>1. CASE effs = MaxIts
        <4>1. MaxIts - 1 \in Nat /\ (MaxIts - 1) + 1 = MaxIts
          BY <1>1, <1>3
        <4>2. w[MaxIts] \in Nat /\ w[MaxIts - 1] \in Nat /\ w[MaxIts] <= w[MaxIts - 1]
          BY <4>1 DEF Shrinks
        <4> QED
          BY <1>1, <1>3, <2>2, <3>1, <4>2
      <3> QED
        BY <1>1, <1>3, <3>1
    <2>6. /\ outcome' = "running" /\ effs' # 0 /\ effs' \in 1..MaxIts
          /\ effs' - 1 = effs /\ effs' - 2 = effs - 1 /\ Len(calib_list') = effs' + 2
      BY <1>1, <2>3, <2>5
    <2>7. Tried(w)'
      <3>1. h <= w[effs + 1]
        <4>1. effs - 1 \in Nat /\ (effs - 1) + 1 = effs /\ (effs - 1) + 2 = effs + 1
          BY <1>1, <1>3
        <4>2. w[effs - 1] \in Nat /\ w[effs] \in Nat /\ w[effs + 1] \in Nat /\ w[effs] <= w[effs - 1]
          BY <4>1 DEF Shrinks
        <4>3. \/ w[effs - 1] <= 2 * w[effs + 1]
              \/ w[effs] + 1 + 2 * ((effs - 1) \div 2) <= 2 * w[effs + 1]
          BY <4>1 DEF Shrinks
        <4>4. (effs - 1) \div 2 \in Int /\ (effs - 1) \div 2 >= 0
          BY <4>1
        <4> QED
          BY <1>1, <1>3, <4>2, <4>3, <4>4
      <3> QED
        BY <1>3, <2>2, <2>3, <2>4, <2>6, <3>1 DEF Tried
    <2>8. Below(lg)'
      <3>1. lg[h] \in Nat /\ lg[h] <= lg[d] /\ lg[h] + 1 <= lg[d]
        <4>1. d \in Nat /\ h \in Nat
          BY <1>1, <2>2
        <4>2. lg[h] + 1 <= lg[d] /\ lg[h] \in Nat
          BY <2>2, <4>1 DEF Halvings, d, h
        <4> QED
          BY <1>5, <4>2
      <3>2. value' + h <= Top
        BY <2>2
      <3>3. \E e \in Nat : e + lg[h] <= lg[Top] /\ t <= value' + h + e
        <4>1. g + 1 \in Nat /\ (g + 1) + lg[h] <= lg[Top]
          BY <1>4, <1>5, <3>1
        <4>2. t <= value' + h + (g + 1)
          BY <1>1, <1>2, <1>4, <2>1, StepUpLoses
        <4> QED
          BY <4>1, <4>2
      <3> QED
        BY <2>3, <2>4, <3>2, <3>3 DEF Below
    <2>9. Above(w)'
      <3>1. LowerEnd' = v
        <4>1. LowerEnd' = calib_list'[Len(calib_list') - count' + 1]
          BY DEF LowerEnd
        <4>2. (effs + 3) - 2 + 1 = effs + 2 /\ effs + 2 \in 1..(effs + 2)
          BY <1>1
        <4>3. calib_list[effs + 2] = v
          BY DEF Tried
        <4> QED
          BY <1>2, <2>3, <4>1, <4>2, <4>3
      <3>2. /\ count' \in 2..(Len(calib_list') - 1)
        BY <1>1, <1>2, <1>3, <2>3
      <3>3. 2 * h <= w[effs]
        <4>1. w[effs] \in Nat
          BY <1>1 DEF Shrinks
        <4> QED
          BY <1>1, <1>3, <4>1
      <3>4. -((effs - 1) \div 2) <= 0 /\ 0 <= effs \div 2
        BY <1>1, <1>3
      <3>5. Step' - (value' - LowerEnd') = 0
        BY <2>2, <2>4, <3>1
      <3>6. /\ 0 <= LowerEnd' /\ LowerEnd' < case'.high /\ LowerEnd' <= Before'
            /\ 2 * (value' - LowerEnd') <= w[effs' - 1]
        <4>1. value' - LowerEnd' = h
          BY <2>2, <3>1
        <4> QED
          BY <1>1, <1>3, <2>3, <2>6, <3>1, <3>3, <4>1
      <3>7. /\ -((effs' - 2) \div 2) <= Step' - (value' - LowerEnd')
            /\ Step' - (value' - LowerEnd') <= (effs' - 1) \div 2
        BY <2>6, <3>4, <3>5
      <3> QED
        BY <3>2, <3>6, <3>7 DEF Above
    <2> QED
      BY <2>6, <2>7, <2>8, <2>9
  <1> QED
    BY <1>6, <1>7

\* A turn down, from a high reading.
LEMMA HalvingDown ==
    ASSUME NEW w, NEW lg, Shrinks(w), Halvings(lg), (MaxIts - 1) \div 2 <= Slack,
           Binary, Halving, case \in Cases, Tried(w), Above(w), last = "high",
           w[MaxIts - 1] <= 1
    PROVE  \/ outcome' = "found" /\ value' - case.high \in (-Slack)..Slack
           \/ outcome' = "running" /\ effs' # 0 /\ Tried(w)' /\ Below(lg)' /\ Above(w)'
  <1> DEFINE d == Step
             h == Step \div 2
             l == LowerEnd
             v == value
             t == case.high
             a == (effs - 1) \div 2
             b == (effs - 2) \div 2
  <1>1. /\ d \in Int /\ d >= 1 /\ h \in Int /\ 2 * h <= d /\ d <= 2 * h + 1
        /\ t \in Int /\ 1 <= t /\ t <= Top /\ v \in Int /\ Top \in Int /\ Before \in Int
        /\ MaxIts \in Nat /\ effs \in Nat
    BY TurnFrom
  <1>2. value' = h + l /\ count' = count + 1 /\ Last(calib_list) = v
    <2>1. ~ReadsAstray
      BY DEF ReadsAstray, Above, Tried
    <2> QED
      BY <2>1, TurnFrom DEF Binary
  <1>3. /\ effs \in 1..MaxIts /\ v <= Top /\ t <= v /\ d <= w[effs] /\ Before <= Top
        /\ Len(calib_list) = effs + 2 /\ calib_list \in Seq(Int)
    BY <1>1 DEF Tried
  <1>4. /\ count \in 2..(Len(calib_list) - 1)
        /\ 0 <= l /\ l < t /\ l <= Before
        /\ 2 * (v - l) <= w[effs - 1] /\ -b <= d - (v - l) /\ d - (v - l) <= a
    BY DEF Above
  <1>5. l \in Int /\ a \in Int /\ b \in Int
    <2>1. (effs + 2) - count + 1 \in 1..(effs + 2)
      BY <1>1, <1>3, <1>4
    <2>2. l = calib_list[(effs + 2) - count + 1]
      BY <1>3 DEF LowerEnd
    <2> QED
      BY <1>1, <1>3, <2>1, <2>2
  <1>6. d <= Top - l
    <2>1. d = IF v < Before THEN Before - v ELSE v - Before
      BY DEF Step
    <2>2. l <= v
      BY <1>1, <1>3, <1>4, <1>5
    <2> QED
      BY <1>1, <1>3, <1>4, <1>5, <2>1, <2>2, ApartWithin
  <1>7. /\ effs - 1 \in Nat /\ (effs - 1) + 1 = effs /\ (effs - 1) + 2 = effs + 1
    BY <1>1, <1>3
  <1>8. /\ w[effs - 1] \in Nat /\ w[effs] \in Nat /\ w[effs + 1] \in Nat
        /\ w[effs] <= w[effs - 1]
        /\ \/ w[effs - 1] <= 2 * w[effs + 1]
           \/ w[effs] + 1 + 2 * a <= 2 * w[effs + 1]
    BY <1>7 DEF Shrinks
  <1>9. b <= a /\ a <= b + 1 /\ a <= (MaxIts - 1) \div 2 /\ (MaxIts - 1) \div 2 \in Int
        /\ effs \div 2 = b + 1
    BY <1>1, <1>3
  <1> HIDE DEF d, h, l, a, b
  <1>10. value' \in Int
    BY <1>1, <1>2, <1>5
  <1>11. /\ value' \in 0..Top /\ value' >= l /\ (value' < t => value' < v)
         /\ ~(value' > Top) /\ value' - l = h /\ h >= 0 /\ v - l >= 1
    BY <1>1, <1>2, <1>3, <1>4, <1>5, <1>6, <1>10, DownTo
  <1>12. CASE value' = value
    <2>1. outcome' = "found"
      BY <1>2, <1>11, <1>12 DEF Binary
    <2>2. v - t \in (-Slack)..Slack
      <3>1. v = h + l
        BY <1>2, <1>12
      <3> QED
        BY <1>1, <1>3, <1>4, <1>5, <1>9, <3>1, SearchAssumption, DownFound
    <2> QED
      BY <1>12, <2>1, <2>2
  <1>13. CASE value' # value
    <2>1. /\ case' = case /\ effs' = effs + 1
          /\ calib_list' \in Seq(Int) /\ Len(calib_list') = effs + 3
          /\ calib_list'[effs + 3] = value' /\ Before' = value
          /\ \A i \in 1..(effs + 2) : calib_list'[i] = calib_list[i]
          /\ last' = "high" <=> value' >= t
          /\ outcome' = IF effs + 1 > MaxIts THEN "ended" ELSE "running"
      BY <1>11, <1>13, TurnTaken
    <2>2. effs + 1 <= MaxIts
      <3>1. CASE effs = MaxIts
        BY <1>1, <1>4, <1>5, <1>8, <1>11, <3>1
      <3> QED
        BY <1>1, <1>3, <3>1
    <2>3. /\ outcome' = "running" /\ effs' # 0 /\ effs' \in 1..MaxIts
          /\ effs' - 1 = effs /\ effs' - 2 = effs - 1 /\ Len(calib_list') = effs' + 2
      BY <1>1, <2>1, <2>2
    <2>4. Step' = IF value' < v THEN v - value' ELSE value' - v
      BY <2>1 DEF Step
    <2>5. Step' \in Int
      BY <1>1, <1>10, <2>4
    <2>6. /\ Step' >= 1
          /\ -a <= Step' - (value' - l) /\ Step' - (value' - l) <= b + 1
          /\ 2 * Step' <= d + 1 + 2 * a
          /\ Step' <= v - l \/ 2 * Step' <= d
      <3>1. Turned(l, v, d, value', Step', a, b)
        BY <1>1, <1>4, <1>5, <1>9, <1>10, <1>11, <1>13, <2>4, <2>5 DEF Turned
      <3> QED
        BY <3>1, StepDrift
    <2>7. Tried(w)'
      <3>1. Step' <= w[effs + 1]
        <4>1. v - l \in Int
          BY <1>1, <1>5
        <4>2. 2 * (v - l) <= w[effs - 1] /\ d <= w[effs]
          BY <1>3, <1>4
        <4>3. Fits(v - l, d, Step', a, w[effs - 1], w[effs], w[effs + 1])
          BY <1>1, <1>5, <1>8, <2>5, <2>6, <4>1, <4>2 DEF Fits
        <4> QED
          BY <4>3, StepFits
      <3> QED
        BY <1>1, <1>3, <1>4, <1>5, <1>11, <2>1, <2>3, <2>6, <3>1 DEF Tried
    <2>8. Below(lg)'
      <3> SUFFICES ASSUME last' # "high"
                   PROVE  /\ value' + Step' <= Top
                          /\ \E g \in Nat : g + lg[Step'] <= lg[Top] /\ t <= value' + Step' + g
        BY <2>1 DEF Below
      <3>1. value' < t /\ value' < v
        BY <1>1, <1>10, <1>11, <2>1
      <3>2. value' + Step' = v /\ Step' \in Nat /\ Step' <= Top
        <4>1. 0 <= value'
          BY <1>1, <1>11
        <4>2. value' <= v /\ value' < v /\ v <= Top
          BY <1>1, <1>3, <1>10, <3>1
        <4>3. Step' = v - value'
          BY <1>1, <1>10, <2>4, <4>2, Apart
        <4> QED
          BY <1>1, <1>10, <2>5, <4>1, <4>2, <4>3, DownLow, ZenonT(60)
      <3>3. Step' \in Nat /\ Top \in Nat /\ Step' <= Top
        BY <3>2, SearchAssumption
      <3>4. lg[Step'] \in Nat /\ lg[Top] \in Nat /\ lg[Step'] <= lg[Top]
        BY <3>3 DEF Halvings
      <3>5. 0 + lg[Step'] <= lg[Top] /\ t <= value' + Step' + 0
        BY <1>1, <1>3, <3>2, <3>4
      <3> QED
        BY <1>3, <3>2, <3>5
    <2>9. Above(w)'
      <3> SUFFICES ASSUME last' = "high"
                   PROVE  Above(w)'
        BY DEF Above
      <3>1. LowerEnd' = l
        <4>1. LowerEnd' = calib_list'[Len(calib_list') - count' + 1]
          BY DEF LowerEnd
        <4>2. /\ (effs + 3) - (count + 1) + 1 = (effs + 2) - count + 1
              /\ (effs + 2) - count + 1 \in 1..(effs + 2)
          BY <1>1, <1>3, <1>4
        <4>3. l = calib_list[(effs + 2) - count + 1]
          BY <1>3 DEF LowerEnd, l
        <4> QED
          BY <1>2, <2>1, <4>1, <4>2, <4>3
      <3>2. count' \in 2..(Len(calib_list') - 1)
        BY <1>1, <1>2, <1>3, <1>4, <2>1
      <3>3. 0 <= LowerEnd' /\ LowerEnd' < case'.high /\ LowerEnd' <= Before'
        BY <1>1, <1>3, <1>4, <1>5, <2>1, <3>1
      <3>4. 2 * (value' - LowerEnd') <= w[effs' - 1]
        <4>1. value' - LowerEnd' = h
          BY <1>11, <3>1
        <4>2. 2 * h <= w[effs]
          BY <1>1, <1>3, <1>8
        <4> QED
          BY <2>3, <4>1, <4>2
      <3>5. -((effs' - 2) \div 2) <= Step' - (value' - LowerEnd')
        BY <2>3, <2>6, <3>1 DEF a
      <3>6. Step' - (value' - LowerEnd') <= (effs' - 1) \div 2
        BY <1>9, <2>3, <2>6, <3>1
      <3> QED
        BY <3>2, <3>3, <3>4, <3>5, <3>6 DEF Above
    <2> QED
      BY <2>3, <2>7, <2>8, <2>9
  <1> QED
    BY <1>12, <1>13

\* The first turn, which tries 0.
LEMMA HalvingFirst ==
    ASSUME NEW w, NEW lg, Shrinks(w), Halvings(lg), MaxIts >= 2,
           Binary, Halving, case \in Cases, effs = 0, calib_list = <<0, Top>>
    PROVE  outcome' = "running" /\ effs' # 0 /\ Tried(w)' /\ Below(lg)' /\ Above(w)'
  <1>1. /\ Top \in Nat /\ Top > 1 /\ MaxIts \in Nat /\ case.high \in Int
        /\ 1 <= case.high /\ case.high <= Top
    BY SearchAssumption DEF Halving
  <1>2. /\ calib_list \in Seq(Int) /\ Len(calib_list) = 2
        /\ calib_list[1] = 0 /\ calib_list[2] = Top /\ Last(calib_list) = Top
    BY <1>1 DEF Last
  <1>3. value' = 0 /\ value' \in 0..Top /\ value' # Last(calib_list)
    BY <1>1, <1>2 DEF Binary, NextBinary, ReadsAstray
  <1>4. /\ calib_list' = Append(calib_list, 0) /\ effs' = 1 /\ outcome' = "running"
        /\ case' = case /\ last' \in Readings(0)
    BY <1>1, <1>3 DEF Binary, Recorded
  <1>5. /\ calib_list' \in Seq(Int) /\ Len(calib_list') = 3
        /\ calib_list'[3] = 0 /\ calib_list'[2] = Top
    <2>1. 2 + 1 = 3 /\ 2 \in 1..2
      OBVIOUS
    <2> QED
      BY <1>2, <1>4, <2>1, Appended
  <1>6. last' # "high"
    <2>1. last' = Level(0) /\ case.near \in Int
      BY <1>4, CurveType DEF Readings, Halving
    <2> QED
      BY <1>1, <2>1 DEF Level
  <1>7. Before' = Top
    <2>1. Before' = calib_list'[Len(calib_list') - 1]
      BY DEF Before
    <2> QED
      BY <1>5, <2>1
  <1>8. Step' = Top
    <2>1. Step' = IF 0 < Top THEN Top - 0 ELSE 0 - Top
      BY <1>3, <1>7 DEF Step
    <2> QED
      BY <1>1, <2>1
  <1>9. Tried(w)'
    <2>1. 1 \in 1..MaxIts /\ 0 \in 0..Top /\ Top \in 0..Top /\ ~(0 >= case.high) /\ 3 = 1 + 2
      BY <1>1
    <2>2. 1 <= Top /\ Top <= w[1]
      BY <1>1 DEF Shrinks
    <2> QED
      BY <1>3, <1>4, <1>5, <1>6, <1>7, <1>8, <2>1, <2>2 DEF Tried
  <1>10. Below(lg)'
    <2>1. lg[Top] \in Nat
      BY <1>1 DEF Halvings
    <2>2. 0 + lg[Top] <= lg[Top] /\ case.high <= 0 + Top + 0 /\ 0 + Top <= Top
      BY <1>1, <2>1
    <2>3. \E g \in Nat : g + lg[Top] <= lg[Top] /\ case.high <= 0 + Top + g
      BY <2>2
    <2> QED
      BY <1>3, <1>4, <1>8, <2>2, <2>3 DEF Below
  <1>11. Above(w)'
    BY <1>6 DEF Above
  <1> QED
    BY <1>4, <1>9, <1>10, <1>11

LEMMA HalvingInit == \A w, lg : SearchInit => HalvingInv(w, lg)
  BY DEF SearchInit, HalvingInv

LEMMA HalvingNext ==
    ASSUME NEW w, NEW lg, Shrinks(w), w[MaxIts - 1] <= 1, Halvings(lg), lg[Top] + 1 <= Slack,
           MaxIts >= 2, (MaxIts - 1) \div 2 <= Slack, HalvingInv(w, lg), [SearchNext]_searchVars
    PROVE  HalvingInv(w, lg)'
  <1>1. CASE Binary
    <2>1. case' = case /\ case \in Cases /\ outcome = "running"
      BY <1>1 DEF Binary, HalvingInv
    <2>2. CASE Halving
      <3>1. CASE effs = 0
        <4>1. outcome' = "running" /\ effs' # 0 /\ Tried(w)' /\ Below(lg)' /\ Above(w)'
          BY <1>1, <2>1, <2>2, <3>1, HalvingFirst DEF HalvingInv
        <4> QED
          BY <2>1, <4>1 DEF HalvingInv
      <3>2. CASE effs # 0
        <4>1. Tried(w) /\ Below(lg) /\ Above(w)
          BY <2>1, <2>2, <3>2 DEF HalvingInv
        <4>2. \/ outcome' = "found" /\ value' - case.high \in (-Slack)..Slack
              \/ outcome' = "running" /\ effs' # 0 /\ Tried(w)' /\ Below(lg)' /\ Above(w)'
          BY <1>1, <2>1, <2>2, <4>1, HalvingUp, HalvingDown
        <4> QED
          BY <2>1, <4>2 DEF HalvingInv
      <3> QED
        BY <3>1, <3>2
    <2>3. CASE ~Halving
      BY <2>1, <2>3 DEF HalvingInv, Halving
    <2> QED
      BY <2>2, <2>3
  <1>2. CASE Bisect \/ GetCalib
    BY <1>2 DEF Bisect, GetCalib, HalvingInv, Halving
  <1>3. CASE UNCHANGED searchVars
    BY <1>3 DEF searchVars, HalvingInv, Halving, Tried, Below, Above, Before, Step, LowerEnd
  <1> QED
    BY <1>1, <1>2, <1>3 DEF SearchNext, Search, SearchTerminated

\* BinaryCorrect: where the turns allowed let the steps shrink to 1 (25 do, in 0..4095),
\* the binary search of vt50_scan always finds a value, in the range and within Slack
\* of the crossing, though it keeps no two ends.
THEOREM BinaryCorrect == EnoughHalvings => (SearchSpec => []BinaryClose)
  <1> SUFFICES ASSUME EnoughHalvings
               PROVE  SearchSpec => []BinaryClose
    OBVIOUS
  <1> PICK w : Shrinks(w) /\ w[MaxIts - 1] <= 1
    BY DEF EnoughHalvings
  <1> PICK lg : Halvings(lg) /\ lg[Top] + 1 <= Slack
    BY DEF EnoughHalvings
  <1>1. MaxIts >= 2 /\ (MaxIts - 1) \div 2 <= Slack
    BY DEF EnoughHalvings
  <1>2. SearchInit => HalvingInv(w, lg)
    BY HalvingInit
  <1>3. HalvingInv(w, lg) /\ [SearchNext]_searchVars => HalvingInv(w, lg)'
    BY <1>1, HalvingNext
  <1>4. HalvingInv(w, lg) => BinaryClose
    BY DEF HalvingInv, Halving, BinaryClose
  <1> QED
    BY <1>2, <1>3, <1>4, PTL DEF SearchSpec
=============================================================================
