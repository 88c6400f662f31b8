------------------------------- MODULE TotScan -------------------------------
(***************************************************************************)
(* The search for the TOT threshold of a chip (app/tool/algorithm:         *)
(* tot_vref_scan, tp50_scan, trim_tot_scan), for the SIMPLEROC format.     *)
(* tp50_scan looks for one TOT_VREF per link: the first channel of a link  *)
(* gets a bisectional search, each later one may raise the value.          *)
(* trim_tot_scan then raises TRIM_TOT channel by channel.  The charge of   *)
(* each channel has been found before (get_calibs, module CalibSearch).    *)
(*                                                                         *)
(* The chip is seen through the TOT efficiency, in four levels: 3 for at   *)
(* least 0.8, 2 for at least 0.5, 1 for more than 0.2, 0 below.  It falls  *)
(* with TOT_VREF; a step of TRIM_TOT lowers the threshold of the channel   *)
(* as a step of TOT_VREF does.  A curve is where levels 2, 1 and 0 begin.  *)
(***************************************************************************)
EXTENDS Integers, Sequences

CONSTANTS
    Channels, \* 72 in the code
    PerLink,  \* channels of a link: 36 in the code
    TopVref,  \* greatest TOT_VREF tried: 600 in the code
    TrimTop,  \* greatest TRIM_TOT: 63 in the code
    VrefIts,  \* max_its of global_vref_scan: 40 in the code
    Curves    \* the responses a channel may have

ASSUME TotAssumption ==
    /\ Channels \in Nat \ {0} /\ PerLink \in Nat \ {0}
    /\ TopVref \in Nat /\ TopVref > 1 /\ TrimTop \in Nat /\ VrefIts \in Nat
ASSUME CurveAssumption ==
    \A c \in Curves : c \in Int \X Int \X Int /\ c[1] <= c[2] /\ c[2] <= c[3]

VARIABLES
    curve,    \* the chip: a curve for every channel
    loop,     \* the loop the program is in
    channel,  \* the channel being scanned
    link_vref_list, \* the result of tp50_scan so far, -1 for none
    vref_list,      \* the two ends of the bisectional search
    vref_value,     \* the TOT_VREF tried last
    vref_effs, \* tot_eff_list.size()
    vref_last, \* the efficiency at vref_value
    trim_tot, \* loop variable of trim_tot_scan
    target,   \* the trim to be kept for the channel
    tot_trims \* the result of trim_tot_scan so far

totVars == <<curve, loop, channel, link_vref_list, vref_list, vref_value, vref_effs, vref_last,
             trim_tot, target, tot_trims>>

Chans == 0..(Channels - 1)
Link(ch) == ch \div PerLink
Links == {Link(ch) : ch \in Chans}

\* eff_scan, or a daq_run of trim_tot_scan.
Eff(ch, vref, trim) ==
    LET x == vref - trim
    IN  IF x < curve[ch][1] THEN 3
        ELSE IF x < curve[ch][2] THEN 2
        ELSE IF x < curve[ch][3] THEN 1 ELSE 0

Near(eff) == eff \in {1, 2}      \* std::abs(efficiency - 0.5) < 0.3
BelowHalf(eff) == eff <= 1       \* efficiency < 0.5

TotTypeOK ==
    /\ curve \in [Chans -> Curves]
    /\ loop \in {"channel", "global", "local", "trim", "done", "thrown"}
    /\ channel \in 0..Channels
    /\ link_vref_list \in [Links -> -1..TopVref]
    /\ vref_list \in (0..TopVref) \X (0..TopVref) /\ vref_value \in 0..(TopVref + 1)
    /\ vref_effs \in 0..(VrefIts + 1) /\ vref_last \in 0..3
    /\ trim_tot \in 0..(TrimTop + 1) /\ target \in 0..TrimTop
    /\ tot_trims \in [Chans -> 0..TrimTop]

TotInit ==
    /\ curve \in [Chans -> Curves]
    /\ loop = "channel" /\ channel = 0
    /\ link_vref_list = [l \in Links |-> -1]
    /\ vref_list = <<0, TopVref>> /\ vref_value = 0 /\ vref_effs = 0 /\ vref_last = 0
    /\ trim_tot = 0 /\ target = 0 /\ tot_trims = [ch \in Chans |-> 0]

LinkVref == link_vref_list[Link(channel)]
-----------------------------------------------------------------------------
(***************************************************************************)
(* tp50_scan: the loop over the channels.                                  *)
(***************************************************************************)

\* The value v is kept for the link of the channel, which is finished.
Keep(v) ==
    /\ link_vref_list' = [link_vref_list EXCEPT ![Link(channel)] = v]
    /\ channel' = channel + 1
    /\ loop' = "channel"

\* The first channel of a link: global_vref_scan.
StartGlobal ==
    /\ loop = "channel" /\ channel < Channels /\ LinkVref = -1
    /\ vref_list' = <<0, TopVref>> /\ vref_effs' = 0
    /\ loop' = "global"
    /\ UNCHANGED <<curve, channel, link_vref_list, vref_value, vref_last,
                   trim_tot, target, tot_trims>>

\* Mutated form: one half and a little more is taken for accounted as well.
AccountedLoosely ==
    /\ loop = "channel" /\ channel < Channels /\ LinkVref # -1
    /\ Eff(channel, LinkVref, 0) <= 2
    /\ channel' = channel + 1
    /\ UNCHANGED <<curve, loop, link_vref_list, vref_list, vref_value, vref_effs, vref_last,
                   trim_tot, target, tot_trims>>

\* Channel accounted for by previous vref!
Accounted ==
    /\ loop = "channel" /\ channel < Channels /\ LinkVref # -1
    /\ BelowHalf(Eff(channel, LinkVref, 0))
    /\ channel' = channel + 1
    /\ UNCHANGED <<curve, loop, link_vref_list, vref_list, vref_value, vref_effs, vref_last,
                   trim_tot, target, tot_trims>>

StartLocal ==
    /\ loop = "channel" /\ channel < Channels /\ LinkVref # -1
    /\ ~BelowHalf(Eff(channel, LinkVref, 0))
    /\ vref_value' = LinkVref
    /\ loop' = "local"
    /\ UNCHANGED <<curve, channel, link_vref_list, vref_list, vref_effs, vref_last,
                   trim_tot, target, tot_trims>>

\* All the channels are done: trim_tot_scan starts.
StartTrims ==
    /\ loop = "channel" /\ channel = Channels
    /\ channel' = 0 /\ trim_tot' = 0 /\ target' = 0
    /\ loop' = "trim"
    /\ UNCHANGED <<curve, link_vref_list, vref_list, vref_value, vref_effs, vref_last, tot_trims>>
-----------------------------------------------------------------------------
(***************************************************************************)
(* global_vref_scan.                                                       *)
(***************************************************************************)
Converged == vref_list[2] - vref_list[1] <= 1

EndGlobal ==
    /\ loop = "global" /\ Converged
    /\ Keep(vref_value)
    /\ UNCHANGED <<curve, vref_list, vref_value, vref_effs, vref_last, trim_tot, target, tot_trims>>

\* Mutated form: the ends are moved as if the efficiency rose with TOT_VREF.
VrefBracketRising ==
    IF vref_effs = 0 THEN vref_list
    ELSE IF vref_last < 2 THEN <<vref_value, vref_list[2]>> ELSE <<vref_list[1], vref_value>>

\* The end that the last efficiency moves.
VrefBracket ==
    IF vref_effs = 0 THEN vref_list
    ELSE IF vref_last >= 2 THEN <<vref_value, vref_list[2]>> ELSE <<vref_list[1], vref_value>>

\* One turn: measure in the middle, then keep it, throw, or go on.
BisectVref ==
    /\ loop = "global" /\ ~Converged
    /\ vref_list' = VrefBracket
    /\ vref_value' = (VrefBracket[2] + VrefBracket[1]) \div 2
    /\ vref_last' = Eff(channel, vref_value', 0)
    /\ \/ Near(vref_last') /\ Keep(vref_value') /\ UNCHANGED vref_effs
       \/ /\ ~Near(vref_last') /\ vref_value' \in {0, TopVref}
          /\ loop' = "thrown"
          /\ UNCHANGED <<channel, link_vref_list, vref_effs>>
       \/ /\ ~Near(vref_last') /\ vref_value' \notin {0, TopVref}
          /\ vref_effs' = vref_effs + 1
          /\ IF vref_effs + 1 > VrefIts THEN Keep(vref_value')
                                        ELSE UNCHANGED <<loop, channel, link_vref_list>>
    /\ UNCHANGED <<curve, trim_tot, target, tot_trims>>
-----------------------------------------------------------------------------
(***************************************************************************)
(* local_vref_scan: upwards until the efficiency is below one half.        *)
(***************************************************************************)
FoundLocal ==
    /\ loop = "local" /\ vref_value <= TopVref
    /\ BelowHalf(Eff(channel, vref_value, 0))
    /\ Keep(vref_value)
    /\ UNCHANGED <<curve, vref_list, vref_value, vref_effs, vref_last, trim_tot, target, tot_trims>>

\* Mutated form: the loop has no increment.
StayLocal ==
    /\ loop = "local" /\ vref_value <= TopVref
    /\ ~BelowHalf(Eff(channel, vref_value, 0))
    /\ UNCHANGED totVars

RaiseVref ==
    /\ loop = "local" /\ vref_value <= TopVref
    /\ ~BelowHalf(Eff(channel, vref_value, 0))
    /\ vref_value' = vref_value + 1
    /\ UNCHANGED <<curve, loop, channel, link_vref_list, vref_list, vref_effs, vref_last,
                   trim_tot, target, tot_trims>>

\* No vref found for this channel: the value it started from is kept.
NoVref ==
    /\ loop = "local" /\ vref_value > TopVref
    /\ Keep(LinkVref)
    /\ UNCHANGED <<curve, vref_list, vref_value, vref_effs, vref_last, trim_tot, target, tot_trims>>
-----------------------------------------------------------------------------
(***************************************************************************)
(* trim_tot_scan: the last trim before the efficiency reaches one half.    *)
(***************************************************************************)

\* Mutated form: the trim that reaches one half is kept as well.
KeepReached(trim) == trim

\* target = trim_tot, or the target as it was.
KeepTarget(trim) == IF BelowHalf(Eff(channel, LinkVref, trim)) THEN trim ELSE target

\* One turn of the loop over the trims; a trim that reaches one half ends it.
TryTrim ==
    /\ loop = "trim" /\ channel < Channels /\ trim_tot <= TrimTop
    /\ target' = KeepTarget(trim_tot)
    /\ trim_tot' = IF BelowHalf(Eff(channel, LinkVref, trim_tot))
                   THEN trim_tot + 1 ELSE TrimTop + 1
    /\ UNCHANGED <<curve, loop, channel, link_vref_list, vref_list, vref_value,
                   vref_effs, vref_last, tot_trims>>

EndTrim ==
    /\ loop = "trim" /\ channel < Channels /\ trim_tot = TrimTop + 1
    /\ tot_trims' = [tot_trims EXCEPT ![channel] = target]
    /\ channel' = channel + 1 /\ trim_tot' = 0 /\ target' = 0
    /\ loop' = IF channel + 1 = Channels THEN "done" ELSE "trim"
    /\ UNCHANGED <<curve, link_vref_list, vref_list, vref_value, vref_effs, vref_last>>
-----------------------------------------------------------------------------
Step ==
    \/ StartGlobal \/ Accounted \/ StartLocal \/ StartTrims
    \/ EndGlobal \/ BisectVref
    \/ FoundLocal \/ RaiseVref \/ NoVref
    \/ TryTrim \/ EndTrim

TotTerminated == loop \in {"done", "thrown"} /\ UNCHANGED totVars

TotNext == Step \/ TotTerminated

TotSpec == TotInit /\ [][TotNext]_totVars

TotFairSpec == TotSpec /\ WF_totVars(Step)
-----------------------------------------------------------------------------
First(ch) == ch % PerLink = 0
Scanned(ch) == loop \in {"trim", "done"} \/ ch < channel
Exhausted(ch) == ~BelowHalf(Eff(ch, TopVref, 0))

\* Covered: every channel scanned, but the first of its link and those no TOT_VREF can
\* help, is below one half at the link's value, whatever channels came after it: a
\* later channel changes the value of all the earlier ones.
Covered ==
    \A ch \in Chans :
        Scanned(ch) /\ ~First(ch) /\ ~Exhausted(ch) /\ loop # "thrown" =>
            BelowHalf(Eff(ch, link_vref_list[Link(ch)], 0))

\* RightlyThrown: the scan of a chip is abandoned ("No TOT values found on this
\* channel!") only for a channel that has no TOT at any TOT_VREF above 0.
RightlyThrown == loop = "thrown" => \A v \in 1..TopVref : Eff(channel, v, 0) = 0

\* GlobalClose: where the first channel of a link is settled without an efficiency near
\* one half, no TOT_VREF strictly inside the range would have been near.
GlobalClose ==
    \A ch \in Chans :
        First(ch) /\ channel = ch + 1 /\ loop = "channel" /\ ~Near(vref_last) =>
            \A v \in 1..(TopVref - 1) : ~Near(Eff(ch, v, 0))

\* TrimTight: in the end a trimmed channel is below one half and one more step of
\* TRIM_TOT, if there is one, would take it over; only a channel that no value of the
\* two scans fits, or the first of its link, may stay above, and then untrimmed.
TrimTight ==
    loop = "done" => \A ch \in Chans :
          LET vref == link_vref_list[Link(ch)]
              trim == tot_trims[ch]
          IN  IF BelowHalf(Eff(ch, vref, trim))
              THEN trim = TrimTop \/ ~BelowHalf(Eff(ch, vref, trim + 1))
              ELSE trim = 0 /\ (First(ch) \/ Exhausted(ch))

\* ScanEnds: the scan of a chip ends.
TotScanEnds == []<>(loop \in {"done", "thrown"})
=============================================================================
