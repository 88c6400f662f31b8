----------------------------- MODULE CalibSearch -----------------------------
(***************************************************************************)
(* The searches for a CALIB value, each a `while (true)' around a daq_run: *)
(* the bisectional and the binary search of the half-efficiency point      *)
(* v_t50 (app/tool/tasks/vt50_scan.cxx), for one threshold TOT_VREF, and   *)
(* the search for the charge that gives a target ADC                       *)
(* (app/tool/algorithm/get_calibs.cxx), for one channel.                   *)
(*                                                                         *)
(* All three see the chip through a three-level reading that rises with    *)
(* CALIB: too low, near enough, too high.  A curve is where "near" and     *)
(* "high" begin.  The binary search only asks whether the efficiency is    *)
(* above one half, so "near" stands on the lower side there.  With noise   *)
(* a reading may be any of a few, wherever it is taken.                    *)
(***************************************************************************)
EXTENDS Integers, Sequences, SequencesExt

CONSTANTS
    Top,      \* greatest value of CALIB, a 12 bit parameter: 4095 in the code
    MaxIts,   \* max_its of vt50_scan: 25 in the code
    Start,    \* first value of get_calibs: 1000 in the code
    StepDown, \* and its step downwards: 50 in the code
    Slack,    \* how far the binary search may stop from v_t50
    Stray,    \* what may be computed from memory in front of the list
    Cases     \* [search, near, high, noise, before]: what is searched, in what chip,
              \* and the count the threshold before has left, 2 for none

ASSUME SearchAssumption ==
    /\ Top \in Nat /\ Top > 1 /\ MaxIts \in Nat
    /\ Start \in 0..Top /\ StepDown \in Nat /\ Slack \in Nat
    /\ Stray \subseteq Int
ASSUME CaseAssumption ==
    \A c \in Cases :
        /\ c.search \in {"bisectional", "binary", "get_calibs"}
        /\ c.near \in 0..(Top + 1) /\ c.high \in c.near..(Top + 1)
        /\ c.noise \subseteq {"low", "near", "high"} /\ c.before \in Nat \ {0, 1}

VARIABLES
    case,       \* the search and the chip
    calib_list, \* the two ends, or every value the binary search has tried
    count,      \* how far back the binary search finds its lower end
    value,      \* calib_value / calib: the value tried last
    effs,       \* tot_eff_list.size()
    last,       \* the reading at value
    outcome     \* "running", or how the search ended

searchVars == <<case, calib_list, count, value, effs, last, outcome>>

Levels == {"low", "near", "high"}
Outcomes == {"running", "found", "none", "ended", "ValOver"}

Level(v) == IF v < case.near THEN "low" ELSE IF v < case.high THEN "near" ELSE "high"
Readings(v) == IF case.noise # {} THEN case.noise ELSE {Level(v)}

SearchTypeOK ==
    /\ case.search \in {"bisectional", "binary", "get_calibs"}
    /\ calib_list \in Seq(Int) /\ Len(calib_list) >= 2
    /\ count \in Nat /\ value \in Int /\ effs \in 0..(MaxIts + 1)
    /\ last \in Levels
    /\ outcome \in Outcomes

\* One threshold of vt50_scan.  calib_value starts at 100000, which no step reads;
\* the list is new for each threshold, the count is not.
SearchInit ==
    /\ case \in Cases
    /\ calib_list = <<0, Top>> /\ count = case.before
    /\ value = Start /\ effs = 0 /\ last = "low" /\ outcome = "running"
-----------------------------------------------------------------------------
(***************************************************************************)
(* One turn of the loop of vt50_scan, bisectional.                         *)
(***************************************************************************)

\* Mutated form: the reading moves the other end.
BracketSwapped ==
    IF effs = 0 THEN calib_list
    ELSE IF last # "high" THEN <<calib_list[1], value>> ELSE <<value, calib_list[2]>>

\* The end that the last reading moves.
Bracket ==
    IF effs = 0 THEN calib_list
    ELSE IF last = "high" THEN <<calib_list[1], value>> ELSE <<value, calib_list[2]>>

\* Mutated form: a value next to an end is taken for the end.
AtAnEndEarly(v) == v <= 1 \/ v >= Top - 2

\* calib_value == 0 || calib_value == 4094
AtAnEnd(v) == v = 0 \/ v = Top - 1

\* tot_eff_list.push_back(tot_eff), and the limit on the turns.
Recorded ==
    /\ effs' = effs + 1
    /\ outcome' = IF effs + 1 > MaxIts THEN "ended" ELSE "running"

Bisect ==
    /\ case.search = "bisectional" /\ outcome = "running"
    /\ calib_list' = Bracket
    /\ value' = (Bracket[2] - Bracket[1]) \div 2 + Bracket[1]
    /\ last' \in Readings(value')
    /\ \/ last' = "near" /\ outcome' = "found" /\ UNCHANGED effs
       \/ last' # "near" /\ AtAnEnd(value') /\ outcome' = "none" /\ UNCHANGED effs
       \/ last' # "near" /\ ~AtAnEnd(value') /\ Recorded
    /\ UNCHANGED <<case, count>>
-----------------------------------------------------------------------------
(***************************************************************************)
(* One turn of the loop of vt50_scan, binary.                              *)
(***************************************************************************)
HalfStep ==
    LET n == Len(calib_list)
        d == calib_list[n] - calib_list[n - 1]
    IN  (IF d < 0 THEN -d ELSE d) \div 2

\* Mutated form: the lower end is always the value before the last.
LowerEndBeforeLast == calib_list[Len(calib_list) - 1]

\* calib_list[calib_list.size() - count]
LowerEnd == calib_list[Len(calib_list) - count + 1]

NextBinary ==
    IF effs = 0 THEN calib_list[1]
    ELSE IF last = "high" THEN HalfStep + LowerEnd
    ELSE HalfStep + Last(calib_list)

NextCount == IF effs = 0 THEN count ELSE IF last = "high" THEN count + 1 ELSE 2

\* A count from the threshold before leads in front of the list if CALIB 0 reads high.
ReadsAstray == effs # 0 /\ last = "high" /\ count > Len(calib_list)

\* The parameter compiler refuses a value of more than 12 bits: "ValOver".
Binary ==
    /\ case.search = "binary" /\ outcome = "running"
    /\ value' \in IF ReadsAstray THEN Stray ELSE {NextBinary}
    /\ count' = NextCount
    /\ IF value' \notin 0..Top
       THEN outcome' = "ValOver" /\ UNCHANGED <<calib_list, effs, last>>
       ELSE /\ last' \in Readings(value')
            /\ IF value' = Last(calib_list)
               THEN outcome' = "found" /\ UNCHANGED <<calib_list, effs>>
               ELSE calib_list' = Append(calib_list, value') /\ Recorded
    /\ UNCHANGED case
-----------------------------------------------------------------------------
(***************************************************************************)
(* One turn of the loop of get_calibs: measure, then keep or move.         *)
(***************************************************************************)

\* Mutated form: both directions take the long step.
MoveFar(level) == value + (IF level = "high" THEN -StepDown ELSE StepDown)

\* Mutated form: a high ADC raises the charge.
MoveWrongWay(level) == value + (IF level # "high" THEN -StepDown ELSE 1)

\* calib -= 50, or calib += 1.
Move(level) == value + (IF level = "high" THEN -StepDown ELSE 1)

GetCalib ==
    /\ case.search = "get_calibs" /\ outcome = "running"
    /\ IF value \notin 0..Top
       THEN outcome' = "ValOver" /\ UNCHANGED <<value, last>>
       ELSE /\ last' \in Readings(value)
            /\ IF last' = "near" THEN outcome' = "found" /\ UNCHANGED value
                                 ELSE value' = Move(last') /\ UNCHANGED outcome
    /\ UNCHANGED <<case, calib_list, count, effs>>
-----------------------------------------------------------------------------
Search == Bisect \/ Binary \/ GetCalib

SearchTerminated == outcome # "running" /\ UNCHANGED searchVars

SearchNext == Search \/ SearchTerminated

SearchSpec == SearchInit /\ [][SearchNext]_searchVars

SearchFairSpec == SearchSpec /\ WF_searchVars(Search)
-----------------------------------------------------------------------------
\* Bracketed: while the bisectional search runs, its lower end is 0 or has read low
\* and its upper end is the greatest value or has read high, and they never meet:
\* the point where the efficiency crosses one half is between them, after any
\* number of turns.
Bracketed ==
    case.search = "bisectional" /\ case.noise = {} =>
        /\ calib_list[1] < calib_list[2]
        /\ calib_list[1] = 0 \/ Level(calib_list[1]) = "low"
        /\ calib_list[2] = Top \/ Level(calib_list[2]) = "high"

\* NothingMissed: the bisectional search gives up, at an end ("No v_t50 was found!")
\* or after max_its, only when no value but perhaps the greatest would have been
\* near enough.
NothingMissed ==
    case.search = "bisectional" /\ case.noise = {} /\ outcome \in {"none", "ended"} =>
        \A v \in 0..(Top - 1) : Level(v) # "near"

\* BinaryClose: the binary search, which keeps no two ends but a list of all the
\* values tried, rounds every half step down and counts back in the list with a count
\* it has from another threshold, still stops within Slack (the number of halvings,
\* 12) of the crossing, when that is in the range and above 0.
BinaryClose ==
    case.search = "binary" /\ case.noise = {} /\ case.high \in 1..Top =>
        /\ outcome \notin {"none", "ended", "ValOver"}
        /\ outcome = "found" => value - case.high \in (-Slack)..Slack

\* OnlyHopeless: get_calibs leaves the range of CALIB, and so throws, only for a
\* target that no CALIB value reaches: the long step down never jumps over it for good.
OnlyHopeless ==
    case.search = "get_calibs" /\ case.noise = {} /\ outcome = "ValOver" =>
        \A v \in 0..Top : Level(v) # "near"

\* SearchEnds: the loops, which have no other bound, end: vt50_scan even when every
\* reading is by chance, get_calibs when the ADC does not jump over the target.
SearchEnds ==
    LET Reachable == \/ case.search # "get_calibs"
                     \/ case.noise = {} /\ (case.near < case.high \/ case.high \in {0, Top + 1})
    IN  []<>(Reachable => outcome # "running")
=============================================================================
