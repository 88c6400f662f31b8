--------------------------- MODULE TotScan_proofs ---------------------------
(***************************************************************************)
(* tp50_scan keeps one TOT_VREF per link while it goes through the         *)
(* channels, and each channel may change it under the ones before.  That   *)
(* those stay below one half (Covered) is proved here for every number of  *)
(* channels and links, every range and every chip.                         *)
(*                                                                         *)
(* The argument: the efficiency falls with TOT_VREF (FallsWithVref), the   *)
(* local search starts at the value of the link and only goes up (Local),  *)
(* and the bisectional search, which may go anywhere, runs only while no   *)
(* channel of the link has been scanned (Begun, and Neighbours: a channel  *)
(* that is not the first of its link has a predecessor on it).             *)
(*                                                                         *)
(* Then what the bisectional search has found when it is given up          *)
(* (RightlyThrown) or settled (GlobalClose), and what trim_tot_scan leaves *)
(* (TrimTight), which builds on Covered.                                   *)
(***************************************************************************)
EXTENDS TotScan, TLAPS

Types ==
    /\ curve \in [Chans -> Curves]
    /\ channel \in 0..Channels
    /\ link_vref_list \in [Links -> -1..TopVref]
    /\ vref_value \in Int /\ vref_effs \in Nat

Global ==
    loop = "global" =>
          /\ channel < Channels /\ LinkVref = -1
          /\ vref_list \in (0..TopVref) \X (0..TopVref)
          /\ vref_effs = 0 => vref_list = <<0, TopVref>>
          /\ vref_effs # 0 => vref_value \in 0..TopVref

Local ==
    loop = "local" =>
          /\ channel < Channels /\ LinkVref # -1
          /\ LinkVref <= vref_value
          /\ vref_value > LinkVref => ~BelowHalf(Eff(channel, vref_value - 1, 0))
          /\ vref_value <= TopVref + 1

Begun ==
    loop # "thrown" =>
          \A c \in Chans : Scanned(c) => link_vref_list[Link(c)] # -1

\* The inductive invariant.
CoverInv == Types /\ Global /\ Local /\ Begun /\ Covered

LEMMA ChansNat == Chans \subseteq Nat /\ \A c \in Chans : Link(c) \in Links
  BY TotAssumption DEF Chans, Links

\* A channel that is not the first of its link follows one of the same link.
LEMMA Neighbours ==
    ASSUME NEW c \in Chans, ~First(c)
    PROVE  c - 1 \in Chans /\ Link(c - 1) = Link(c)
  <1>1. c \in Nat /\ PerLink \in Nat /\ PerLink > 0 /\ c < Channels /\ Channels \in Nat
    BY TotAssumption DEF Chans
  <1>2. c % PerLink # 0
    BY DEF First
  <1>3. c > 0
    BY <1>1, <1>2
  <1>4. (c - 1) \div PerLink = c \div PerLink
    BY <1>1, <1>2, <1>3
  <1> QED
    BY <1>1, <1>3, <1>4, TotAssumption DEF Chans, Link

\* An efficiency below one half stays below at every higher TOT_VREF.
LEMMA FallsWithVref ==
    ASSUME curve \in [Chans -> Curves], NEW c \in Chans,
           NEW v \in Int, NEW w \in Int, v <= w, BelowHalf(Eff(c, v, 0))
    PROVE  BelowHalf(Eff(c, w, 0))
  <1>1. curve[c] \in Curves
    OBVIOUS
  <1>2. /\ curve[c][1] \in Int /\ curve[c][2] \in Int /\ curve[c][3] \in Int
        /\ curve[c][1] <= curve[c][2] /\ curve[c][2] <= curve[c][3]
    BY <1>1, CurveAssumption
  <1> QED
    BY <1>2 DEF BelowHalf, Eff

LEMMA CoverInit == TotInit => CoverInv
  <1> SUFFICES ASSUME TotInit
               PROVE  CoverInv
    OBVIOUS
  <1>1. Types
    BY TotAssumption DEF TotInit, Types
  <1>2. Global /\ Local
    BY DEF TotInit, Global, Local
  <1>3. \A c \in Chans : ~Scanned(c)
    BY TotAssumption DEF TotInit, Scanned, Chans
  <1> QED
    BY <1>1, <1>2, <1>3 DEF CoverInv, Begun, Covered

\* What a step that keeps v for the link of the channel has to show.
LEMMA KeepCovers ==
    ASSUME CoverInv, loop \in {"global", "local"}, channel < Channels,
           NEW v \in 0..TopVref, Keep(v), curve' = curve,
           LinkVref <= v,
           First(channel) \/ BelowHalf(Eff(channel, v, 0)) \/ Exhausted(channel)
    PROVE  (Begun /\ Covered)' /\ channel' \in 0..Channels
           /\ link_vref_list' \in [Links -> -1..TopVref]
  <1>1. /\ channel \in Chans /\ Link(channel) \in Links
        /\ channel' = channel + 1 /\ loop' = "channel"
        /\ link_vref_list \in [Links -> -1..TopVref]
        /\ link_vref_list' = [link_vref_list EXCEPT ![Link(channel)] = v]
    BY ChansNat, TotAssumption DEF CoverInv, Types, Keep, Chans
  <1>2. channel' \in 0..Channels /\ link_vref_list' \in [Links -> -1..TopVref]
    BY <1>1, TotAssumption DEF CoverInv, Types
  <1>3. ASSUME NEW c \in Chans
        PROVE  /\ link_vref_list'[Link(c)] =
                      IF Link(c) = Link(channel) THEN v ELSE link_vref_list[Link(c)]
               /\ link_vref_list[Link(c)] \in Int /\ TopVref \in Int
    BY <1>1, ChansNat, TotAssumption
  <1>4. ASSUME NEW c \in Chans, Scanned(c)'
        PROVE  c = channel \/ Scanned(c)
    BY <1>1, <1>4, TotAssumption DEF Scanned, Chans
  <1>5. Begun'
    <2> SUFFICES ASSUME NEW c \in Chans, Scanned(c)'
                 PROVE  link_vref_list'[Link(c)] # -1
      BY DEF Begun
    <2> QED
      BY <1>3, <1>4, TotAssumption DEF CoverInv, Begun
  <1>6. Covered'
    <2> SUFFICES ASSUME NEW c \in Chans, Scanned(c)', ~First(c), ~Exhausted(c)
                 PROVE  BelowHalf(Eff(c, link_vref_list'[Link(c)], 0))
      BY DEF Covered, Exhausted, Eff, BelowHalf
    <2>1. CASE c = channel
      BY <1>3, <2>1
    <2>2. CASE Scanned(c)
      <3>1. BelowHalf(Eff(c, link_vref_list[Link(c)], 0))
        BY <2>2 DEF CoverInv, Covered
      <3>2. CASE Link(c) = Link(channel)
        <4>1. link_vref_list[Link(c)] <= v /\ v \in Int
          BY <3>2, TotAssumption DEF LinkVref
        <4> QED
          BY <1>3, <3>1, <3>2, <4>1, FallsWithVref DEF CoverInv, Types
      <3>3. CASE Link(c) # Link(channel)
        BY <1>3, <3>1, <3>3
      <3> QED
        BY <3>2, <3>3
    <2> QED
      BY <1>4, <2>1, <2>2
  <1> QED
    BY <1>2, <1>5, <1>6

\* The channel of a bisectional search is the first of its link.
LEMMA GlobalIsFirst ==
    ASSUME CoverInv, loop = "global"
    PROVE  channel \in Chans /\ First(channel)
  <1>1. channel \in Chans /\ LinkVref = -1 /\ channel \in Int
    BY TotAssumption DEF CoverInv, Types, Global, Chans
  <1>2. ASSUME ~First(channel)
        PROVE  FALSE
    <2>1. channel - 1 \in Chans /\ Link(channel - 1) = Link(channel)
      BY <1>1, <1>2, Neighbours
    <2>2. Scanned(channel - 1)
      BY <1>1 DEF Scanned
    <2>3. link_vref_list[Link(channel - 1)] # -1
      BY <2>1, <2>2 DEF CoverInv, Begun
    <2> QED
      BY <1>1, <2>1, <2>3 DEF LinkVref
  <1> QED
    BY <1>1, <1>2

\* A step that leaves the chip, the links and the set of scanned channels alone.
LEMMA SameCover ==
    ASSUME CoverInv, curve' = curve, link_vref_list' = link_vref_list,
           loop # "thrown" /\ loop' # "thrown",
           \A c \in Chans : Scanned(c)' = Scanned(c)
    PROVE  (Begun /\ Covered)'
  <1>1. Begun'
    BY DEF CoverInv, Begun
  <1>2. Covered'
    BY DEF CoverInv, Covered, Exhausted, Eff, BelowHalf
  <1> QED
    BY <1>1, <1>2

\* A turn of the bisectional search works between two ends in the range.
LEMMA BracketInRange ==
    ASSUME CoverInv, loop = "global"
    PROVE  /\ VrefBracket \in (0..TopVref) \X (0..TopVref)
           /\ (VrefBracket[2] + VrefBracket[1]) \div 2 \in 0..TopVref
  <1>1. VrefBracket \in (0..TopVref) \X (0..TopVref)
    BY DEF CoverInv, Global, VrefBracket
  <1>2. \A a, b \in 0..TopVref : (a + b) \div 2 \in 0..TopVref
    BY TotAssumption
  <1> QED
    BY <1>1, <1>2

\* A step that leaves the chip alone keeps the types of the rest.
LEMMA TypesKept ==
    ASSUME Types, curve' = curve, channel' \in 0..Channels,
           link_vref_list' \in [Links -> -1..TopVref],
           vref_value' \in Int, vref_effs' \in Nat
    PROVE  Types'
  <1>1. Chans' = Chans /\ Links' = Links
    BY DEF Chans, Links, Link
  <1> QED
    BY <1>1 DEF Types

LEMMA CoverNext == CoverInv /\ [TotNext]_totVars => CoverInv'
  <1> SUFFICES ASSUME CoverInv, [TotNext]_totVars
               PROVE  CoverInv'
    OBVIOUS
  <1> USE TotAssumption
  <1>1. CASE StartGlobal
    <2>1. (Begun /\ Covered)'
      BY <1>1, SameCover DEF StartGlobal, Scanned
    <2>2. Types' /\ Global' /\ Local'
      BY <1>1 DEF StartGlobal, CoverInv, Types, Global, Local, LinkVref, Links, Link, Chans
    <2> QED
      BY <2>1, <2>2 DEF CoverInv
  <1>2. CASE Accounted
    <2>1. channel \in Chans /\ loop = "channel" /\ loop' = "channel" /\ channel' = channel + 1
      BY <1>2 DEF Accounted, CoverInv, Types, Chans
    <2>2. /\ curve' = curve /\ link_vref_list' = link_vref_list
          /\ LinkVref # -1 /\ BelowHalf(Eff(channel, LinkVref, 0))
      BY <1>2 DEF Accounted
    <2>3. ASSUME NEW c \in Chans, Scanned(c)'
          PROVE  c = channel \/ Scanned(c)
      BY <2>1, <2>3 DEF Scanned, Chans
    <2>4. Begun'
      BY <2>1, <2>2, <2>3 DEF CoverInv, Begun, LinkVref
    <2>5. Covered'
      BY <2>1, <2>2, <2>3 DEF CoverInv, Covered, LinkVref, Exhausted, Eff, BelowHalf
    <2>6. Types'
      BY <1>2, TypesKept DEF Accounted, CoverInv, Types
    <2>7. Global' /\ Local'
      BY <2>1 DEF Global, Local
    <2> QED
      BY <2>4, <2>5, <2>6, <2>7 DEF CoverInv
  <1>3. CASE StartLocal
    <2>1. (Begun /\ Covered)'
      BY <1>3, SameCover DEF StartLocal, Scanned
    <2>2. channel \in Chans /\ LinkVref \in -1..TopVref
      BY <1>3, ChansNat DEF StartLocal, CoverInv, Types, Chans, LinkVref
    <2>3. Types' /\ Global'
      BY <1>3, <2>2, TypesKept DEF StartLocal, CoverInv, Types, Global
    <2>4. Local'
      BY <1>3, <2>2 DEF StartLocal, Local, LinkVref, Link
    <2> QED
      BY <2>1, <2>3, <2>4 DEF CoverInv
  <1>4. CASE StartTrims
    <2>1. (Begun /\ Covered)'
      BY <1>4, SameCover DEF StartTrims, Scanned, Chans
    <2>2. Types' /\ Global' /\ Local'
      BY <1>4, TypesKept DEF StartTrims, CoverInv, Types, Global, Local
    <2> QED
      BY <2>1, <2>2 DEF CoverInv
  <1>5. CASE EndGlobal
    <2>1. channel \in Chans /\ First(channel) /\ channel < Channels /\ LinkVref = -1
      BY <1>5, GlobalIsFirst DEF EndGlobal, CoverInv, Global
    <2>2. vref_value \in 0..TopVref
      BY <1>5 DEF EndGlobal, Converged, CoverInv, Global, Types
    <2>3. (Begun /\ Covered)' /\ channel' \in 0..Channels
          /\ link_vref_list' \in [Links -> -1..TopVref]
      BY <1>5, <2>1, <2>2, KeepCovers DEF EndGlobal
    <2>4. Types' /\ Global' /\ Local'
      BY <1>5, <2>3, TypesKept DEF EndGlobal, Keep, CoverInv, Types, Global, Local
    <2> QED
      BY <2>3, <2>4 DEF CoverInv
  <1>6. CASE BisectVref
    <2>1. /\ channel \in Chans /\ First(channel) /\ channel < Channels /\ LinkVref = -1
          /\ loop = "global" /\ curve' = curve
      BY <1>6, GlobalIsFirst DEF BisectVref, CoverInv, Global
    <2>2. vref_list' \in (0..TopVref) \X (0..TopVref) /\ vref_value' \in 0..TopVref
      BY <1>6, BracketInRange DEF BisectVref
    <2>3. vref_effs' \in Nat
      BY <1>6 DEF BisectVref, CoverInv, Types
    <2>4. CASE Keep(vref_value')
      <3>1. (Begun /\ Covered)' /\ channel' \in 0..Channels
            /\ link_vref_list' \in [Links -> -1..TopVref]
        BY <2>1, <2>2, <2>4, KeepCovers
      <3>2. Types' /\ Global' /\ Local'
        BY <2>1, <2>2, <2>3, <2>4, <3>1, TypesKept DEF Keep, CoverInv, Global, Local
      <3> QED
        BY <3>1, <3>2 DEF CoverInv
    <2>5. CASE loop' = "thrown" /\ UNCHANGED <<channel, link_vref_list>>
      <3>1. Types' /\ Global' /\ Local' /\ Begun'
        BY <2>1, <2>2, <2>3, <2>5, TypesKept DEF CoverInv, Types, Global, Local, Begun
      <3>2. Covered'
        BY <2>5 DEF Covered
      <3> QED
        BY <3>1, <3>2 DEF CoverInv
    <2>6. CASE UNCHANGED <<loop, channel, link_vref_list>> /\ vref_effs' = vref_effs + 1
      <3>1. (Begun /\ Covered)'
        BY <2>1, <2>6, SameCover DEF Scanned
      <3>2. Types' /\ Local'
        BY <2>1, <2>2, <2>3, <2>6, TypesKept DEF CoverInv, Types, Local
      <3>3. LinkVref' = LinkVref /\ vref_effs' # 0 /\ vref_effs' \in Nat
        BY <2>6 DEF LinkVref, Link, CoverInv, Types
      <3>4. Global'
        BY <2>1, <2>2, <2>6, <3>3 DEF Global
      <3> QED
        BY <3>1, <3>2, <3>4 DEF CoverInv
    <2> QED
      BY <1>6, <2>4, <2>5, <2>6 DEF BisectVref
  <1>7. CASE FoundLocal
    <2>1. /\ channel < Channels /\ loop = "local" /\ curve' = curve
          /\ BelowHalf(Eff(channel, vref_value, 0)) /\ Keep(vref_value)
          /\ LinkVref <= vref_value /\ vref_value <= TopVref
      BY <1>7 DEF FoundLocal, CoverInv, Local
    <2>2. vref_value \in 0..TopVref
      BY <2>1, ChansNat DEF CoverInv, Types, Local, LinkVref, Chans
    <2>3. (Begun /\ Covered)' /\ channel' \in 0..Channels
          /\ link_vref_list' \in [Links -> -1..TopVref]
      BY <2>1, <2>2, KeepCovers
    <2>4. Types' /\ Global' /\ Local'
      BY <1>7, <2>3, TypesKept DEF FoundLocal, Keep, CoverInv, Types, Global, Local
    <2> QED
      BY <2>3, <2>4 DEF CoverInv
  <1>8. CASE RaiseVref
    <2>1. (Begun /\ Covered)'
      BY <1>8, SameCover DEF RaiseVref, Scanned
    <2>2. channel \in Chans /\ LinkVref \in -1..TopVref
      BY <1>8, ChansNat DEF RaiseVref, CoverInv, Types, Local, Chans, LinkVref
    <2>3. Types' /\ Global'
      BY <1>8, TypesKept DEF RaiseVref, CoverInv, Types, Global
    <2>4. Local'
      <3>1. vref_value \in Int /\ vref_value' = vref_value + 1
        BY <1>8 DEF RaiseVref, CoverInv, Types
      <3>2. Eff(channel, vref_value - 1, 0)' = Eff(channel, vref_value, 0)
        BY <1>8, <3>1 DEF RaiseVref, Eff
      <3>3. ~BelowHalf(Eff(channel, vref_value - 1, 0))'
        BY <1>8, <3>2 DEF RaiseVref, BelowHalf
      <3>4. LinkVref' = LinkVref /\ channel' = channel /\ vref_value <= TopVref
        BY <1>8 DEF RaiseVref, LinkVref, Link
      <3>5. channel < Channels /\ LinkVref # -1 /\ LinkVref <= vref_value
        BY <1>8 DEF RaiseVref, CoverInv, Local
      <3> QED
        BY <2>2, <3>1, <3>3, <3>4, <3>5 DEF Local
    <2> QED
      BY <2>1, <2>3, <2>4 DEF CoverInv
  <1>9. CASE NoVref
    <2>1. /\ channel < Channels /\ loop = "local" /\ curve' = curve
          /\ Keep(LinkVref) /\ vref_value = TopVref + 1
          /\ LinkVref # -1
      BY <1>9 DEF NoVref, CoverInv, Local, Types
    <2>2. LinkVref \in 0..TopVref
      BY <2>1, ChansNat DEF CoverInv, Types, LinkVref, Chans
    <2>3. Exhausted(channel)
      BY <2>1, <2>2 DEF CoverInv, Local, Exhausted
    <2>4. (Begun /\ Covered)' /\ channel' \in 0..Channels
          /\ link_vref_list' \in [Links -> -1..TopVref]
      BY <2>1, <2>2, <2>3, KeepCovers
    <2>5. Types' /\ Global' /\ Local'
      BY <1>9, <2>4, TypesKept DEF NoVref, Keep, CoverInv, Types, Global, Local
    <2> QED
      BY <2>4, <2>5 DEF CoverInv
  <1>10. CASE TryTrim \/ EndTrim
    <2>1. (Begun /\ Covered)'
      BY <1>10, SameCover DEF TryTrim, EndTrim, Scanned
    <2>2. Types' /\ Global' /\ Local'
      BY <1>10, TypesKept DEF TryTrim, EndTrim, CoverInv, Types, Global, Local
    <2> QED
      BY <2>1, <2>2 DEF CoverInv
  <1>11. CASE UNCHANGED totVars
    BY <1>11 DEF totVars, CoverInv, Types, Global, Local, Begun, Covered, LinkVref, Scanned,
                Exhausted, Eff, BelowHalf
  <1> QED
    BY <1>1, <1>2, <1>3, <1>4, <1>5, <1>6, <1>7, <1>8, <1>9, <1>10, <1>11
       DEF TotNext, Step, TotTerminated

\* CoveredCorrect: tp50_scan never takes a scanned channel back above one half (Covered).
THEOREM CoveredCorrect == TotSpec => []Covered
  <1>1. CoverInv => Covered
    BY DEF CoverInv
  <1> QED
    BY <1>1, CoverInit, CoverNext, PTL DEF TotSpec
-----------------------------------------------------------------------------
(***************************************************************************)
(* RightlyThrown and GlobalClose.  While the bisectional search runs its   *)
(* lower end is 0 or has fired always and its upper end is the greatest    *)
(* value or has never fired; it stops at 0 with the upper end at 1, or     *)
(* with nothing between the ends, for which it needs turns enough: w       *)
(* bounds the distance of the ends after so many halvings.                 *)
(***************************************************************************)
Halves(w) ==
    /\ w \in [Nat -> Nat] /\ TopVref <= w[0]
    /\ \A n \in Nat : w[n] <= 2 * w[n + 1]

\* The limit on the turns lets the range be halved down to one value.
EnoughTurns == \E w : Halves(w) /\ w[VrefIts] <= 1

\* The sizes in the code let it: ten halvings of 0..600, and 40 turns.
LEMMA CodeHasEnoughTurns == TopVref = 600 /\ VrefIts = 40 => EnoughTurns
  <1> SUFFICES ASSUME TopVref = 600, VrefIts = 40
               PROVE  EnoughTurns
    OBVIOUS
  <1> DEFINE w == [n \in Nat |->
                      IF n = 0 THEN 600 ELSE IF n = 1 THEN 300 ELSE IF n = 2 THEN 150
                      ELSE IF n = 3 THEN 75 ELSE IF n = 4 THEN 38 ELSE IF n = 5 THEN 19
                      ELSE IF n = 6 THEN 10 ELSE IF n = 7 THEN 5 ELSE IF n = 8 THEN 3
                      ELSE IF n = 9 THEN 2 ELSE 1]
  <1>1. w \in [Nat -> Nat] /\ w[0] = 600 /\ w[40] = 1
    OBVIOUS
  <1>2. ASSUME NEW n \in Nat
        PROVE  w[n] <= 2 * w[n + 1]
    OBVIOUS
  <1> HIDE DEF w
  <1> QED
    BY <1>1, <1>2 DEF EnoughTurns, Halves

\* The ends a and b of a search on channel c are on their two sides.
Around(c, a, b) ==
    /\ a \in 0..TopVref /\ b \in 0..TopVref /\ a < b
    /\ a = 0 \/ Eff(c, a, 0) = 3
    /\ b = TopVref \/ Eff(c, b, 0) = 0

\* The search under way has measured its middle, which was not near.
Turned(w) ==
    loop = "global" /\ vref_effs # 0 =>
          /\ Around(channel, vref_list[1], vref_list[2])
          /\ vref_value = (vref_list[2] + vref_list[1]) \div 2
          /\ vref_last = Eff(channel, vref_value, 0) /\ ~Near(vref_last)
          /\ vref_value # 0 /\ vref_value # TopVref
          /\ vref_list[2] - vref_list[1] <= w[vref_effs - 1]
          /\ vref_effs <= VrefIts

\* A link has a value only after one of its channels was scanned.
Fresh ==
    loop \in {"channel", "global", "local"} =>
          \A l \in Links : link_vref_list[l] # -1 =>
              \E c \in Chans : c < channel /\ Link(c) = l

GlobalInv(w) ==
    CoverInv /\ Turned(w) /\ Fresh /\ RightlyThrown /\ (w[VrefIts] <= 1 => GlobalClose)

\* The level falls as TOT_VREF rises, and there are four of them.
LEMMA LevelFalls ==
    ASSUME curve \in [Chans -> Curves], NEW c \in Chans,
           NEW v \in Int, NEW w \in Int, v <= w
    PROVE  /\ Eff(c, v, 0) \in 0..3 /\ Eff(c, w, 0) \in 0..3
           /\ Eff(c, w, 0) <= Eff(c, v, 0)
  <1>1. curve[c] \in Curves
    OBVIOUS
  <1>2. /\ curve[c][1] \in Int /\ curve[c][2] \in Int /\ curve[c][3] \in Int
        /\ curve[c][1] <= curve[c][2] /\ curve[c][2] <= curve[c][3]
    BY <1>1, CurveAssumption
  <1> QED
    BY <1>2 DEF Eff

\* Half of a distance, on either side of the middle, is within the next bound.
LEMMA HalfOf ==
    ASSUME NEW a \in Nat, NEW b \in Nat, NEW m \in Nat, NEW n \in Nat,
           a < b, b - a <= m, m <= 2 * n
    PROVE  LET v == (b + a) \div 2
           IN  /\ v \in Nat /\ a <= v /\ v < b /\ (b - a > 1 => a < v)
               /\ v - a <= n /\ b - v <= n
  OBVIOUS

\* The ends a turn works with are on their two sides, at half the distance.
LEMMA BracketAround ==
    ASSUME NEW w, Halves(w), GlobalInv(w), loop = "global", ~Converged
    PROVE  Around(channel, VrefBracket[1], VrefBracket[2]) /\ VrefBracket[2] - VrefBracket[1] <= w[vref_effs]
  <1> USE TotAssumption
  <1>1. /\ vref_effs \in Nat /\ channel \in Chans /\ curve \in [Chans -> Curves]
        /\ vref_list \in (0..TopVref) \X (0..TopVref)
        /\ vref_effs = 0 => vref_list = <<0, TopVref>>
    BY GlobalIsFirst DEF GlobalInv, CoverInv, Types, Global
  <1>2. CASE vref_effs = 0
    <2>1. VrefBracket = <<0, TopVref>> /\ TopVref <= w[0] /\ w[0] \in Nat
      BY <1>1, <1>2 DEF VrefBracket, Halves
    <2> QED
      BY <1>2, <2>1 DEF Around
  <1>3. CASE vref_effs # 0
    <2>1. /\ Around(channel, vref_list[1], vref_list[2])
          /\ vref_value = (vref_list[2] + vref_list[1]) \div 2
          /\ vref_last = Eff(channel, vref_value, 0) /\ ~Near(vref_last)
          /\ vref_list[2] - vref_list[1] <= w[vref_effs - 1]
      BY <1>3 DEF GlobalInv, Turned
    <2>2. vref_list[1] \in Nat /\ vref_list[2] \in Nat /\ vref_list[1] < vref_list[2]
          /\ vref_list[2] <= TopVref
      BY <1>1, <2>1 DEF Around
    <2>3. vref_effs - 1 \in Nat /\ vref_effs = (vref_effs - 1) + 1
      BY <1>1, <1>3
    <2>4. w[vref_effs - 1] \in Nat /\ w[vref_effs] \in Nat /\ w[vref_effs - 1] <= 2 * w[vref_effs]
      BY <2>3 DEF Halves
    <2>5. /\ vref_value \in Nat /\ vref_list[1] <= vref_value /\ vref_value < vref_list[2]
          /\ vref_list[2] - vref_list[1] > 1 => vref_list[1] < vref_value
          /\ vref_value - vref_list[1] <= w[vref_effs] /\ vref_list[2] - vref_value <= w[vref_effs]
      BY <2>1, <2>2, <2>4, HalfOf
    <2>6. vref_list[1] < vref_value
      BY <2>2, <2>5 DEF Converged
    <2>7. Eff(channel, vref_value, 0) \in 0..3
      BY <1>1, <2>5, LevelFalls
    <2>8. CASE vref_last >= 2
      <3>1. VrefBracket = <<vref_value, vref_list[2]>> /\ Eff(channel, vref_value, 0) = 3
        BY <1>3, <2>1, <2>7, <2>8 DEF VrefBracket, Near
      <3> QED
        BY <2>1, <2>2, <2>5, <3>1 DEF Around
    <2>9. CASE ~(vref_last >= 2)
      <3>1. VrefBracket = <<vref_list[1], vref_value>> /\ Eff(channel, vref_value, 0) = 0
        BY <1>3, <2>1, <2>7, <2>9 DEF VrefBracket, Near
      <3> QED
        BY <2>1, <2>2, <2>5, <2>6, <3>1 DEF Around
    <2> QED
      BY <2>8, <2>9
  <1> QED
    BY <1>2, <1>3

\* Ends that are one apart leave no value between them.
LEMMA NothingBetween ==
    ASSUME curve \in [Chans -> Curves], NEW c \in Chans, NEW a, NEW b, Around(c, a, b),
           b - a <= 1, ~Near(Eff(c, a, 0)), a # 0
    PROVE  \A v \in 1..(TopVref - 1) : ~Near(Eff(c, v, 0))
  <1> SUFFICES ASSUME NEW v \in 1..(TopVref - 1)
               PROVE  ~Near(Eff(c, v, 0))
    OBVIOUS
  <1>1. a \in Int /\ b \in Int /\ v \in Int /\ a < b /\ Eff(c, a, 0) = 3 /\ b = a + 1
    BY TotAssumption DEF Around
  <1>2. CASE v <= a
    <2>1. Eff(c, v, 0) \in 0..3 /\ Eff(c, a, 0) <= Eff(c, v, 0)
      BY <1>1, <1>2, LevelFalls
    <2> QED
      BY <1>1, <2>1 DEF Near
  <1>3. CASE b <= v
    <2>1. Eff(c, v, 0) \in 0..3 /\ Eff(c, v, 0) <= Eff(c, b, 0)
      BY <1>1, <1>3, LevelFalls
    <2>2. Eff(c, b, 0) = 0
      BY <1>1, <1>3, TotAssumption DEF Around
    <2> QED
      BY <2>1, <2>2 DEF Near
  <1> QED
    BY <1>1, <1>2, <1>3

\* A first channel is met with a link that has no value.
LEMMA FirstIsFresh ==
    ASSUME CoverInv, Fresh, loop \in {"channel", "global", "local"}, channel < Channels,
           First(channel)
    PROVE  LinkVref = -1
  <1> SUFFICES ASSUME LinkVref # -1
               PROVE  FALSE
    OBVIOUS
  <1>1. channel \in Chans /\ Link(channel) \in Links
    BY ChansNat, TotAssumption DEF CoverInv, Types, Chans
  <1>2. PICK c \in Chans : c < channel /\ Link(c) = Link(channel)
    BY <1>1 DEF Fresh, LinkVref
  <1>3. c \in Nat /\ channel \in Nat /\ PerLink \in Nat /\ PerLink > 0
    BY <1>1, ChansNat, TotAssumption
  <1>4. channel % PerLink = 0 /\ c \div PerLink = channel \div PerLink
    BY <1>2 DEF First, Link
  <1>5. channel = PerLink * (channel \div PerLink) /\ c >= PerLink * (c \div PerLink)
    BY <1>3, <1>4
  <1> QED
    BY <1>2, <1>3, <1>4, <1>5

\* A step that keeps a value scans the channel of the link that it gives one to.
LEMMA KeepFresh ==
    ASSUME CoverInv, Fresh, loop \in {"global", "local"}, channel < Channels, NEW v, Keep(v)
    PROVE  Fresh'
  <1>1. /\ channel \in Chans /\ channel \in Nat /\ channel' = channel + 1
        /\ link_vref_list \in [Links -> -1..TopVref]
        /\ link_vref_list' = [link_vref_list EXCEPT ![Link(channel)] = v]
    BY TotAssumption DEF CoverInv, Types, Chans, Keep
  <1> SUFFICES ASSUME NEW l \in Links, link_vref_list'[l] # -1
               PROVE  \E c \in Chans : c < channel + 1 /\ Link(c) = l
    BY <1>1 DEF Fresh
  <1>2. CASE l = Link(channel)
    BY <1>1, <1>2
  <1>3. CASE l # Link(channel)
    <2>1. PICK c \in Chans : c < channel /\ Link(c) = l
      BY <1>1, <1>3 DEF Fresh
    <2>2. c \in Nat
      BY ChansNat
    <2> QED
      BY <1>1, <2>1, <2>2
  <1> QED
    BY <1>2, <1>3

LEMMA GlobalInit == \A w : TotInit => GlobalInv(w)
  <1> SUFFICES ASSUME TotInit
               PROVE  \A w : GlobalInv(w)
    OBVIOUS
  <1>1. \A ch \in Chans : channel # ch + 1
    BY ChansNat DEF TotInit
  <1>2. GlobalClose
    BY <1>1 DEF GlobalClose
  <1> QED
    BY <1>2, CoverInit DEF TotInit, GlobalInv, Turned, Fresh, RightlyThrown

\* A step to the next channel that did not come from a search of a first channel.
LEMMA LaterChannel ==
    ASSUME CoverInv, Fresh, loop \in {"channel", "local"}, channel < Channels,
           LinkVref # -1, channel' = channel + 1
    PROVE  GlobalClose'
  <1> SUFFICES ASSUME NEW ch \in Chans, First(ch), channel' = ch + 1
               PROVE  FALSE
    BY DEF GlobalClose, First
  <1>1. channel \in Nat /\ ch \in Nat
    BY ChansNat, TotAssumption DEF CoverInv, Types
  <1>2. ch = channel
    BY <1>1
  <1> QED
    BY <1>2, FirstIsFresh

\* A turn of the bisectional search, whichever way it ends.
LEMMA BisectGlobal ==
    ASSUME NEW w, Halves(w), GlobalInv(w), BisectVref
    PROVE  Turned(w)' /\ Fresh' /\ RightlyThrown' /\ (w[VrefIts] <= 1 => GlobalClose')
  <1> USE TotAssumption
  <1> DEFINE a == VrefBracket[1]
             b == VrefBracket[2]
  <1>1. /\ Around(channel, a, b) /\ b - a <= w[vref_effs]
    BY BracketAround DEF BisectVref
  <1>2. /\ CoverInv /\ Fresh /\ loop = "global" /\ channel < Channels /\ channel \in Chans
        /\ curve \in [Chans -> Curves] /\ vref_effs \in Nat /\ channel \in Nat
    BY GlobalIsFirst, ChansNat DEF BisectVref, GlobalInv, CoverInv, Types, Global
  <1>3. /\ curve' = curve /\ vref_list' = VrefBracket /\ vref_value' = (b + a) \div 2
        /\ vref_last' = Eff(channel, vref_value', 0)
    BY DEF BisectVref
  <1>4. /\ a \in 0..TopVref /\ b \in 0..TopVref /\ a < b /\ vref_value' \in Nat
        /\ a <= vref_value' /\ vref_value' < b /\ vref_list'[1] = a /\ vref_list'[2] = b
    <2>1. a \in 0..TopVref /\ b \in 0..TopVref /\ a < b
      BY <1>1 DEF Around
    <2>2. \A x, y \in Nat : x < y => (y + x) \div 2 \in Nat /\ x <= (y + x) \div 2
                                     /\ (y + x) \div 2 < y
      OBVIOUS
    <2> QED
      BY <1>3, <2>1, <2>2
  <1> HIDE DEF a, b
  <1>5. w[vref_effs] \in Nat /\ (vref_effs = VrefIts /\ w[VrefIts] <= 1 => b - a <= 1)
    <2>1. w[vref_effs] \in Nat
      BY <1>2 DEF Halves
    <2> QED
      BY <1>1, <1>4, <2>1
  <1>6. \A c, v : Eff(c, v, 0)' = Eff(c, v', 0)
    BY <1>3 DEF Eff
  <1>7. CASE Near(vref_last') /\ Keep(vref_value')
    <2>1. Fresh'
      BY <1>2, <1>7, KeepFresh
    <2> QED
      BY <1>7, <2>1 DEF Keep, Turned, RightlyThrown, GlobalClose, Near
  <1>8. CASE ~Near(vref_last') /\ vref_value' \in {0, TopVref} /\ loop' = "thrown"
    <2>1. channel' = channel
      BY <1>8 DEF BisectVref, Keep
    <2>2. a = 0 /\ b = 1 /\ vref_value' = 0
      BY <1>3, <1>4, <1>8
    <2>3. Eff(channel, b, 0) = 0
      BY <1>1, <2>2 DEF Around
    <2>4. \A v \in 1..TopVref : Eff(channel, v, 0) = 0
      <3> SUFFICES ASSUME NEW v \in 1..TopVref
                   PROVE  Eff(channel, v, 0) = 0
        OBVIOUS
      <3>1. Eff(channel, v, 0) \in 0..3 /\ Eff(channel, v, 0) <= Eff(channel, 1, 0)
        BY <1>2, LevelFalls
      <3> QED
        BY <2>2, <2>3, <3>1
    <2>5. RightlyThrown'
      BY <1>3, <2>1, <2>4 DEF RightlyThrown, Eff
    <2> QED
      BY <1>8, <2>5 DEF Turned, Fresh, GlobalClose
  <1>9. CASE /\ ~Near(vref_last') /\ vref_value' \notin {0, TopVref} /\ vref_effs' = vref_effs + 1
             /\ vref_effs + 1 > VrefIts /\ Keep(vref_value')
    <2>1. Fresh'
      BY <1>2, <1>9, KeepFresh
    <2>2. vref_effs <= VrefIts
      BY <1>2 DEF GlobalInv, Turned
    <2>3. w[VrefIts] <= 1 => b - a <= 1
      BY <1>2, <1>5, <1>9, <2>2
    <2>4. w[VrefIts] <= 1 => vref_value' = a
      BY <1>4, <2>3
    <2>5. w[VrefIts] <= 1 => \A v \in 1..(TopVref - 1) : ~Near(Eff(channel, v, 0))
      BY <1>1, <1>2, <1>3, <1>9, <2>3, <2>4, NothingBetween
    <2>6. channel' = channel + 1 /\ loop' = "channel"
      BY <1>9 DEF Keep
    <2>7. \A ch \in Chans : channel' = ch + 1 => ch = channel
      BY <1>2, <2>6, ChansNat
    <2>8. w[VrefIts] <= 1 => GlobalClose'
      BY <1>3, <2>5, <2>7 DEF GlobalClose, Eff, Near
    <2> QED
      BY <2>1, <2>6, <2>8 DEF Turned, RightlyThrown
  <1>10. CASE /\ ~Near(vref_last') /\ vref_value' \notin {0, TopVref} /\ vref_effs' = vref_effs + 1
              /\ ~(vref_effs + 1 > VrefIts) /\ UNCHANGED <<loop, channel, link_vref_list>>
    <2>1. vref_effs' - 1 = vref_effs /\ vref_effs' <= VrefIts
      BY <1>2, <1>10
    <2>2. Around(channel, vref_list[1], vref_list[2])'
      BY <1>1, <1>3, <1>4, <1>10 DEF Around, Eff
    <2>3. Turned(w)'
      BY <1>1, <1>3, <1>4, <1>6, <1>10, <2>1, <2>2 DEF Turned, Near, Eff
    <2>4. Fresh'
      BY <1>2, <1>10 DEF Fresh
    <2> QED
      BY <1>2, <1>10, <2>3, <2>4 DEF RightlyThrown, GlobalClose
  <1> QED
    BY <1>7, <1>8, <1>9, <1>10 DEF BisectVref

LEMMA GlobalNext ==
    ASSUME NEW w, Halves(w), GlobalInv(w), [TotNext]_totVars
    PROVE  GlobalInv(w)'
  <1>1. CoverInv /\ CoverInv' /\ Fresh
    BY CoverNext DEF GlobalInv
  <1> SUFFICES Turned(w)' /\ Fresh' /\ RightlyThrown' /\ (w[VrefIts] <= 1 => GlobalClose')
    BY <1>1 DEF GlobalInv
  <1>2. CASE StartGlobal
    BY <1>1, <1>2 DEF StartGlobal, Turned, Fresh, RightlyThrown, GlobalClose
  <1>3. CASE Accounted
    <2>1. /\ loop = "channel" /\ loop' = "channel" /\ channel < Channels /\ LinkVref # -1
          /\ channel' = channel + 1 /\ channel \in Nat
          /\ link_vref_list' = link_vref_list
      BY <1>1, <1>3 DEF Accounted, CoverInv, Types
    <2>2. GlobalClose'
      BY <1>1, <2>1, LaterChannel
    <2>3. Fresh'
      <3> SUFFICES ASSUME NEW l \in Links, link_vref_list[l] # -1
                   PROVE  \E c \in Chans : c < channel + 1 /\ Link(c) = l
        BY <2>1 DEF Fresh
      <3>1. PICK c \in Chans : c < channel /\ Link(c) = l
        BY <1>1, <2>1 DEF Fresh
      <3>2. c \in Nat
        BY ChansNat
      <3> QED
        BY <2>1, <3>1, <3>2
    <2> QED
      BY <2>1, <2>2, <2>3 DEF Turned, RightlyThrown
  <1>4. CASE StartLocal
    BY <1>1, <1>4 DEF StartLocal, Turned, Fresh, RightlyThrown, GlobalClose
  <1>5. CASE StartTrims
    BY <1>5 DEF StartTrims, Turned, Fresh, RightlyThrown, GlobalClose
  <1>6. CASE EndGlobal
    <2>1. /\ loop = "global" /\ channel < Channels /\ channel \in Chans /\ channel \in Nat
          /\ Keep(vref_value) /\ curve' = curve /\ vref_last' = vref_last
          /\ curve \in [Chans -> Curves]
      BY <1>1, <1>6, GlobalIsFirst, ChansNat DEF EndGlobal, CoverInv, Types, Global
    <2>2. Fresh'
      BY <1>1, <2>1, KeepFresh
    <2>3. vref_effs # 0
      BY <1>1, <1>6, TotAssumption DEF EndGlobal, Converged, CoverInv, Global
    <2>4. /\ Around(channel, vref_list[1], vref_list[2])
          /\ vref_value = (vref_list[2] + vref_list[1]) \div 2
          /\ vref_last = Eff(channel, vref_value, 0) /\ ~Near(vref_last) /\ vref_value # 0
      BY <2>1, <2>3 DEF GlobalInv, Turned
    <2>5. vref_list[2] - vref_list[1] <= 1 /\ vref_value = vref_list[1]
      BY <1>6, <2>4, TotAssumption DEF EndGlobal, Converged, Around
    <2>6. \A v \in 1..(TopVref - 1) : ~Near(Eff(channel, v, 0))
      BY <2>1, <2>4, <2>5, NothingBetween
    <2>7. channel' = channel + 1 /\ loop' = "channel"
      BY <2>1 DEF Keep
    <2>8. \A ch \in Chans : channel' = ch + 1 => ch = channel
      BY <2>1, <2>7, ChansNat
    <2>9. GlobalClose'
      BY <2>1, <2>6, <2>8 DEF GlobalClose, Eff, Near
    <2> QED
      BY <2>2, <2>7, <2>9 DEF Turned, RightlyThrown
  <1>7. CASE BisectVref
    BY <1>7, BisectGlobal
  <1>8. CASE FoundLocal \/ NoVref
    <2>1. PICK v : Keep(v)
      BY <1>8 DEF FoundLocal, NoVref
    <2>2. loop = "local" /\ channel < Channels /\ LinkVref # -1
      BY <1>1, <1>8 DEF FoundLocal, NoVref, CoverInv, Local
    <2>3. Fresh'
      BY <1>1, <2>1, <2>2, KeepFresh
    <2>4. channel' = channel + 1 /\ loop' = "channel"
      BY <2>1 DEF Keep
    <2>5. GlobalClose'
      BY <1>1, <2>2, <2>4, LaterChannel
    <2> QED
      BY <2>3, <2>4, <2>5 DEF Turned, RightlyThrown
  <1>9. CASE RaiseVref
    BY <1>1, <1>9 DEF RaiseVref, Turned, Fresh, RightlyThrown, GlobalClose
  <1>10. CASE TryTrim \/ EndTrim
    BY <1>10 DEF TryTrim, EndTrim, Turned, Fresh, RightlyThrown, GlobalClose
  <1>11. CASE UNCHANGED totVars
    BY <1>11 DEF totVars, GlobalInv, Turned, Around, Fresh, RightlyThrown, GlobalClose, Near, Eff
  <1> QED
    BY <1>2, <1>3, <1>4, <1>5, <1>6, <1>7, <1>8, <1>9, <1>10, <1>11
       DEF TotNext, Step, TotTerminated

\* ThrownCorrect: global_vref_scan abandons the chip only for a channel without TOT at
\* any value above 0 (RightlyThrown), whatever the limit on the turns.
THEOREM ThrownCorrect == TotSpec => []RightlyThrown
  <1> DEFINE w == [n \in Nat |-> TopVref]
  <1>1. Halves(w)
    BY TotAssumption DEF Halves
  <1> HIDE DEF w
  <1>2. TotInit => GlobalInv(w)
    BY GlobalInit
  <1>3. GlobalInv(w) /\ [TotNext]_totVars => GlobalInv(w)'
    BY <1>1, GlobalNext
  <1>4. GlobalInv(w) => RightlyThrown
    BY DEF GlobalInv
  <1> QED
    BY <1>2, <1>3, <1>4, PTL DEF TotSpec

\* GlobalCorrect: where the turns allowed reach down to one value (40 do, of 0..600), a
\* link gets a value that is not near one half only when its first channel has none that
\* is (GlobalClose).
THEOREM GlobalCorrect == EnoughTurns => (TotSpec => []GlobalClose)
  <1> SUFFICES ASSUME EnoughTurns
               PROVE  TotSpec => []GlobalClose
    OBVIOUS
  <1> PICK w : Halves(w) /\ w[VrefIts] <= 1
    BY DEF EnoughTurns
  <1>1. TotInit => GlobalInv(w)
    BY GlobalInit
  <1>2. GlobalInv(w) /\ [TotNext]_totVars => GlobalInv(w)'
    BY GlobalNext
  <1>3. GlobalInv(w) => GlobalClose
    BY DEF GlobalInv
  <1> QED
    BY <1>1, <1>2, <1>3, PTL DEF TotSpec
-----------------------------------------------------------------------------
(***************************************************************************)
(* TrimTight.  While the trims of a channel go up, the target is the trim  *)
(* before; the loop ends at the first that reaches one half or behind the  *)
(* last.  That a channel above one half without a trim is one that may be  *)
(* so is Covered, which the trims cannot spoil: they change no TOT_VREF.   *)
(***************************************************************************)

\* What is to hold of a channel with this trim once it is done.
Tight(ch, trim) ==
    LET vref == link_vref_list[Link(ch)]
    IN  IF BelowHalf(Eff(ch, vref, trim))
        THEN trim = TrimTop \/ ~BelowHalf(Eff(ch, vref, trim + 1))
        ELSE trim = 0 /\ (First(ch) \/ Exhausted(ch))

\* The loop over the trims of the channel, under way or at its end.
Trying ==
    /\ channel \in Chans /\ trim_tot \in 0..(TrimTop + 1) /\ target \in Nat
    /\ trim_tot <= TrimTop =>
           \/ trim_tot = 0 /\ target = 0
           \/ target = trim_tot - 1 /\ BelowHalf(Eff(channel, LinkVref, target))
    /\ trim_tot = TrimTop + 1 => Tight(channel, target)

TrimInv ==
    /\ CoverInv
    /\ tot_trims \in [Chans -> Nat]
    /\ loop = "trim" => Trying /\ \A c \in Chans : c < channel => Tight(c, tot_trims[c])
    /\ TrimTight

LEMMA TrimInit == TotInit => TrimInv
  BY CoverInit DEF TotInit, TrimInv, TrimTight

\* A turn of the loop over the trims.
LEMMA TryTrimStep ==
    ASSUME TrimInv, TryTrim
    PROVE  Trying'
  <1> USE TotAssumption
  <1>1. /\ Trying /\ CoverInv /\ loop = "trim" /\ trim_tot <= TrimTop /\ trim_tot \in Nat
        /\ channel \in Chans /\ target \in Nat /\ TrimTop \in Nat
    BY DEF TryTrim, TrimInv, Trying
  <1>2. /\ UNCHANGED <<curve, channel, link_vref_list>>
        /\ target' = KeepTarget(trim_tot)
        /\ trim_tot' = IF BelowHalf(Eff(channel, LinkVref, trim_tot))
                       THEN trim_tot + 1 ELSE TrimTop + 1
    BY DEF TryTrim
  <1>3. /\ \A c, v, t : Eff(c, v, t)' = Eff(c, v', t')
        /\ LinkVref' = LinkVref /\ LinkVref = link_vref_list[Link(channel)]
        /\ Exhausted(channel)' = Exhausted(channel)
    BY <1>2 DEF Eff, LinkVref, Link, Exhausted, BelowHalf
  <1>4. CASE BelowHalf(Eff(channel, LinkVref, trim_tot))
    <2>1. target' = trim_tot /\ trim_tot' = trim_tot + 1
      BY <1>2, <1>4 DEF KeepTarget
    <2>2. BelowHalf(Eff(channel, LinkVref, target))'
      BY <1>2, <1>4, <2>1 DEF Eff, LinkVref, Link, BelowHalf
    <2>3. CASE trim_tot' = TrimTop + 1
      <3>1. Tight(channel, target)'
        BY <1>1, <2>1, <2>2, <2>3 DEF Tight, LinkVref
      <3> QED
        BY <1>1, <1>2, <2>1, <2>3, <3>1 DEF Trying, Chans
    <2>4. CASE trim_tot' <= TrimTop
      BY <1>1, <1>2, <2>1, <2>2, <2>4 DEF Trying, Chans
    <2> QED
      BY <1>1, <2>1, <2>3, <2>4
  <1>5. CASE ~BelowHalf(Eff(channel, LinkVref, trim_tot))
    <2>1. target' = target /\ trim_tot' = TrimTop + 1
      BY <1>2, <1>5 DEF KeepTarget
    <2>2. Tight(channel, target)
      <3>1. CASE trim_tot = 0 /\ target = 0
        <4>1. First(channel) \/ Exhausted(channel)
          BY <1>1, <1>5, <3>1 DEF CoverInv, Covered, Scanned, LinkVref
        <4> QED
          BY <1>5, <3>1, <4>1 DEF Tight, LinkVref
      <3>2. CASE target = trim_tot - 1 /\ BelowHalf(Eff(channel, LinkVref, target))
        <4>1. target + 1 = trim_tot
          BY <1>1, <3>2
        <4> QED
          BY <1>5, <3>2, <4>1 DEF Tight, LinkVref
      <3> QED
        BY <1>1, <3>1, <3>2 DEF Trying
    <2>3. Tight(channel, target)'
      BY <1>2, <2>1, <2>2 DEF Tight, Eff, Link, Exhausted, BelowHalf
    <2> QED
      BY <1>1, <1>2, <2>1, <2>3 DEF Trying, Chans
  <1> QED
    BY <1>4, <1>5

LEMMA TrimNext == TrimInv /\ [TotNext]_totVars => TrimInv'
  <1> SUFFICES ASSUME TrimInv, [TotNext]_totVars
               PROVE  TrimInv'
    OBVIOUS
  <1> USE TotAssumption
  <1>1. CoverInv /\ CoverInv' /\ tot_trims \in [Chans -> Nat]
    BY CoverNext DEF TrimInv
  <1>2. ASSUME UNCHANGED <<curve, link_vref_list>>
        PROVE  \A c, t : Tight(c, t)' = Tight(c, t')
    BY <1>2 DEF Tight, Eff, Link, Exhausted, BelowHalf
  <1>3. CASE loop' \notin {"trim", "done"} /\ tot_trims' = tot_trims
    BY <1>1, <1>3 DEF TrimInv, TrimTight, Chans
  <1>4. CASE StartTrims
    <2>1. channel' = 0 /\ trim_tot' = 0 /\ target' = 0 /\ loop' = "trim" /\ tot_trims' = tot_trims
      BY <1>4 DEF StartTrims
    <2>2. Trying' /\ \A c \in Chans : ~(c < channel')
      BY <2>1 DEF Trying, Chans
    <2> QED
      BY <1>1, <2>1, <2>2 DEF TrimInv, TrimTight, Chans
  <1>5. CASE TryTrim
    <2>1. loop = "trim" /\ UNCHANGED <<curve, loop, channel, link_vref_list, tot_trims>>
      BY <1>5 DEF TryTrim
    <2>2. Trying'
      BY <1>5, TryTrimStep
    <2>3. \A c \in Chans : c < channel' => Tight(c, tot_trims[c])'
      BY <1>2, <2>1 DEF TrimInv
    <2> QED
      BY <1>1, <2>1, <2>2, <2>3 DEF TrimInv, TrimTight, Chans
  <1>6. CASE EndTrim
    <2>1. /\ loop = "trim" /\ trim_tot = TrimTop + 1 /\ channel' = channel + 1
          /\ tot_trims' = [tot_trims EXCEPT ![channel] = target]
          /\ trim_tot' = 0 /\ target' = 0
          /\ loop' = IF channel + 1 = Channels THEN "done" ELSE "trim"
          /\ UNCHANGED <<curve, link_vref_list>>
      BY <1>6 DEF EndTrim
    <2>2. channel \in Chans /\ channel \in Nat /\ target \in Nat /\ Tight(channel, target)
      BY <2>1 DEF TrimInv, Trying, Chans
    <2>3. tot_trims' \in [Chans -> Nat]
      BY <1>1, <2>1, <2>2
    <2>4. \A c \in Chans : c < channel + 1 => Tight(c, tot_trims'[c])
      <3> SUFFICES ASSUME NEW c \in Chans, c < channel + 1
                   PROVE  Tight(c, tot_trims'[c])
        OBVIOUS
      <3>1. CASE c = channel
        BY <1>1, <2>1, <2>2, <3>1
      <3>2. CASE c # channel
        <4>1. c < channel /\ tot_trims'[c] = tot_trims[c]
          BY <1>1, <2>1, <2>2, <3>2, ChansNat
        <4> QED
          BY <2>1, <4>1 DEF TrimInv
      <3> QED
        BY <3>1, <3>2
    <2>5. \A c \in Chans : c < channel + 1 => Tight(c, tot_trims[c])'
      BY <1>2, <2>1, <2>4
    <2>6. CASE channel + 1 = Channels
      <3>1. \A c \in Chans : Tight(c, tot_trims[c])'
        BY <2>2, <2>5, <2>6 DEF Chans
      <3>2. TrimTight'
        BY <3>1 DEF TrimTight, Tight, Chans
      <3> QED
        BY <1>1, <2>1, <2>3, <2>6, <3>2 DEF TrimInv, Chans
    <2>7. CASE channel + 1 # Channels
      <3>1. Trying'
        BY <2>1, <2>2, <2>7 DEF Trying, Chans
      <3> QED
        BY <1>1, <2>1, <2>3, <2>5, <2>7, <3>1 DEF TrimInv, TrimTight, Chans
    <2> QED
      BY <2>6, <2>7
  <1>7. CASE UNCHANGED totVars
    BY <1>1, <1>7 DEF totVars, TrimInv, TrimTight, Trying, Tight, Eff, Link, LinkVref, Exhausted,
                      BelowHalf, Chans
  <1>8. ASSUME StartGlobal \/ Accounted \/ StartLocal \/ EndGlobal \/ BisectVref
               \/ FoundLocal \/ RaiseVref \/ NoVref
        PROVE  loop' \notin {"trim", "done"} /\ tot_trims' = tot_trims
    BY <1>8 DEF StartGlobal, Accounted, StartLocal, EndGlobal, BisectVref, FoundLocal,
                RaiseVref, NoVref, Keep
  <1> QED
    BY <1>3, <1>4, <1>5, <1>6, <1>7, <1>8 DEF TotNext, Step, TotTerminated

\* TrimCorrect: trim_tot_scan leaves every channel below one half and one step from it,
\* but for those that no value fits (TrimTight).
THEOREM TrimCorrect == TotSpec => []TrimTight
  <1>1. TrimInv => TrimTight
    BY DEF TrimInv
  <1> QED
    BY <1>1, TrimInit, TrimNext, PTL DEF TotSpec
=============================================================================
