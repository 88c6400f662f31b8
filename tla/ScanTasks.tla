----------------------------- MODULE ScanTasks ------------------------------
(***************************************************************************)
(* The tasks of the TASKS menu, and those of the DAQ menu that set         *)
(* parameters, as programs for TaskRunner: which parameters each sets for  *)
(* how long, in which order, where it takes data and what the columns of   *)
(* its rows claim. What a user answers is in the name of a task:           *)
(*   <<name, format of the events, answer>>.                               *)
(*                                                                         *)
(* A loop visits its first and its last value. A link has LinkSize         *)
(* channels. ADC codes, efficiencies and fits are left to CalibSearch and  *)
(* TotScan: here a search is a run or two at values it may visit.          *)
(***************************************************************************)
EXTENDS TaskRunner, SequencesExt

CONSTANT LinkSize \* bound: channels of a link, 36 in the code

AllLinks == 0..1
AllChannels == 0..(2 * LinkSize - 1)
LinkOf(ch) == ch \div LinkSize

\* The channel the prompts offer, on the second link.
Chosen == 2 * LinkSize - 1

\* A parameter: page, number of the page, name.
Ch(ch, name) == <<"CH", ch, name>>
Rv(link, name) == <<"REFERENCEVOLTAGE", link, name>>
Half(half, name) == <<"DIGITALHALF", half, name>>
OfTop(name) == <<"TOP", 0, name>>

ChNames == {"HIGHRANGE", "LOWRANGE", "SIGN_DAC", "DACB", "TRIM_INV", "TRIM_TOA", "TRIM_TOT", "ADC_PEDESTAL"}
RvNames == {"CALIB", "CALIB_2V5", "INTCTEST", "CHOICE_CINJ", "TOA_VREF", "TOT_VREF", "INV_VREF", "NOINV_VREF"}

\* Two ROCs: the second has the halves 2 and 3, and only its idle frames matter.
AllParam ==
    {Ch(ch, n) : ch \in AllChannels, n \in ChNames} \cup {Rv(l, n) : l \in AllLinks, n \in RvNames}
    \cup {Half(h, "IDLEFRAME") : h \in 0..3} \cup {Half(h, n) : h \in 0..1, n \in {"ADC_TH", "L1OFFSET"}}
    \cup {<<"MASTERTDC", l, "GLOBAL_LATENCY_TIME">> : l \in AllLinks} \cup {OfTop("PHASE_STROBE"), OfTop("PHASE_CK")}

Nothing == [p \in {} |-> 0]
OnChannels(C, name, v) == [p \in {Ch(ch, name) : ch \in C} |-> v]
OnLinks(L, name, v) == [p \in {Rv(l, name) : l \in L} |-> v]
OnHalves(H, name, v) == [p \in {Half(h, name) : h \in H} |-> v]
OnTop(name, v) == [p \in {OfTop(name)} |-> v]
-----------------------------------------------------------------------------
(***************************************************************************)
(* The steps.                                                              *)
(***************************************************************************)
Call == <<[op |-> "call"]>>
Always(what) == <<[op |-> "throw", what |-> what]>>
KeepSet(s) == <<[op |-> "open", set |-> s, restores |-> FALSE]>>
ClosingStep == <<[op |-> "close"]>>
Set(choices) == <<[op |-> "apply", choices |-> choices]>>
Read(pulse) == <<[op |-> "read", pulse |-> pulse]>>
Shift(pulse, by) == <<[op |-> "shift", pulse |-> pulse, by |-> by]>>
MoveTo(pulse, to) == <<[op |-> "move", pulse |-> pulse, to |-> to]>>
RunWith(columns, time, wrong, untimed) ==
    <<[op |-> "run", columns |-> columns, time |-> time, wrong |-> wrong, untimed |-> untimed]>>
TimeOf(pulse, by) == {[pulse |-> pulse, by |-> by]}
Run(columns) == RunWith(columns, {}, {}, {})
RunAt(columns, pulse, by) == RunWith(columns, TimeOf(pulse, by), {}, {})

\* Rows that claim more than what is set: wrongly is what nothing has set.
RunClaiming(columns, wrongly) == RunWith(columns @@ wrongly, {}, DOMAIN wrongly, {})

\* A block of the code with a test scope open in it.
Scope(s, body) == <<[op |-> "open", set |-> s, restores |-> TRUE]>> \o body \o ClosingStep

Each(values, Body(_)) == FlattenSeq([i \in 1..Len(values) |-> Body(values[i])])

\* Only these two formats have a writer; with any other a task takes no data.
Supported(format) == format \in {"SIMPLEROC", "ECOND_SW_HEADERS"}
IfSupported(format, body) == IF Supported(format) THEN body ELSE <<>>

\* A run whose consumer takes a channel of the second link by its number in the
\* chip: with the multi-sample format that is out of the link's range.
RunByChip(format, run) == IF format = "ECOND_SW_HEADERS" THEN Always("out_of_range") ELSE run

\* The file of parameter points, the output file and setup_run.
StartWriter == Call \o Call
-----------------------------------------------------------------------------
(***************************************************************************)
(* Scans in time: every delay around the central one, every phase strobe.  *)
(***************************************************************************)
Offsets == <<-1, 0, 1>>
Strobes == <<0, 15>>

\* From the central delay and back to it.
TimeScan(pulse, columns) ==
    LET At1(by, strobe) == Scope(OnTop("PHASE_STROBE", strobe),
                                 RunAt(columns @@ OnTop("PHASE_STROBE", strobe), pulse, by))
        Bx(by) == Shift(pulse, by) \o Each(Strobes, LAMBDA strobe : At1(by, strobe))
    IN  Read(pulse) \o Each(Offsets, Bx) \o Shift(pulse, 0)

\* Without the strobes, for a scan of TOT.
CoarseTimeScan(pulse, columns) ==
    Read(pulse) \o Each(Offsets, LAMBDA by : Shift(pulse, by) \o RunAt(columns, pulse, by))
    \o Shift(pulse, 0)

\* Injection of charge into channels of a set of links: pre-CC, high or low range.
ChargeInjection(links, channels, range, calib) ==
    OnLinks(links, "CALIB", IF range = "precc" THEN 0 ELSE calib)
    @@ OnLinks(links, "CALIB_2V5", IF range = "precc" THEN calib ELSE 0)
    @@ OnLinks(links, "INTCTEST", 1)
    @@ OnLinks(links, "CHOICE_CINJ", IF range = "highrange" THEN 1 ELSE 0)
    @@ OnChannels(channels, "HIGHRANGE", IF range = "lowrange" THEN 0 ELSE 1)
    @@ OnChannels(channels, "LOWRANGE", IF range = "lowrange" THEN 1 ELSE 0)

\* The LED takes the calibration pulse out of the chosen channel.
NoInjection ==
    LET l == {LinkOf(Chosen)}
    IN  OnLinks(l, "CALIB", 0) @@ OnLinks(l, "CALIB_2V5", 0) @@ OnLinks(l, "INTCTEST", 1)
        @@ OnLinks(l, "CHOICE_CINJ", 0) @@ OnChannels({Chosen}, "HIGHRANGE", 0) @@ OnChannels({Chosen}, "LOWRANGE", 0)

ChargeTimescan(format, source) ==
    LET settings == IF source = "led" THEN NoInjection
                    ELSE ChargeInjection({LinkOf(Chosen)}, {Chosen}, source, 64)
        pulse == IF source = "led" THEN "led" ELSE "charge"
    IN  Call \o Scope(settings, IfSupported(format, StartWriter \o TimeScan(pulse, Nothing)))

\* The points of a file that names a parameter of a channel and one of a link.
Points == <<[range |-> 0, calib |-> 10], [range |-> 1, calib |-> 20]>>
PointOn(links, point) ==
    OnChannels({Chosen}, "HIGHRANGE", point.range) @@ OnLinks(links, "CALIB", point.calib)

\* The parameters for the whole scan may be none, and may be those of the points.
GenScan(format, wide) ==
    LET settings == IF wide = "none" THEN Nothing ELSE OnLinks({LinkOf(Chosen)}, "CALIB", 64)
        Point(point) == LET s == PointOn({LinkOf(Chosen)}, point) IN Scope(s, Run(s))
    IN  Call \o Scope(settings, IfSupported(format, StartWriter \o Each(Points, Point)))

\* Parameters of channels and of the chip are set as the file names them, those
\* of a link on every link that is pulsed.
ParameterTimescan(format, pulsed, scan) ==
    LET channels == IF pulsed = "all" THEN AllChannels ELSE {Chosen}
        links == {LinkOf(ch) : ch \in channels}
        settings == ChargeInjection(links, channels, "lowrange", 1024)
                    @@ (IF scan = "tot" THEN OnLinks(links, "TOA_VREF", 250) @@ OnLinks(links, "TOT_VREF", 500)
                        ELSE Nothing)
        Point(point) ==
            LET s == PointOn(links, point)
            IN  Scope(s, IF scan = "tot" THEN CoarseTimeScan("charge", s) ELSE TimeScan("charge", s))
    IN  Call \o Scope(settings, Call \o IfSupported(format, StartWriter \o Each(Points, Point)))
-----------------------------------------------------------------------------
(***************************************************************************)
(* More and more channels around the middle one of the first link.  The    *)
(* first run, with none of them, is for pedestals and comes before any     *)
(* point or delay is set; its rows show the first point of the file and    *)
(* the time 0, which is that of the first strobe one crossing early.       *)
(***************************************************************************)
UnsetRun(pulse, columns) ==
    LET shown == columns @@ OnTop("PHASE_STROBE", 0)
    IN  RunWith(shown, TimeOf(pulse, -1), DOMAIN shown, TimeOf(pulse, -1))

MultiChannelLed(format) ==
    IfSupported(format,
        Scope(OnLinks({0}, "INTCTEST", 1),
              StartWriter \o RunByChip(format, UnsetRun("led", Nothing)) \o TimeScan("led", Nothing)))

MultiChannelInjection(format, range) ==
    LET high == range = "highrange"
        settings == OnLinks({0}, "CALIB", IF high THEN 256 ELSE 0) @@ OnLinks({0}, "CALIB_2V5", IF high THEN 0 ELSE 256)
                    @@ OnLinks({0}, "INTCTEST", 1) @@ OnLinks({0}, "CHOICE_CINJ", IF high THEN 1 ELSE 0)
        middle == LinkSize \div 2
        at(point) == OnLinks({0}, "CALIB", point.calib)
        Point(point) == Scope(at(point), TimeScan("charge", at(point)))
        Around(n) == Scope(OnChannels((middle - n)..(middle + n), "HIGHRANGE", 1), Each(Points, Point))
    IN  IfSupported(format,
            Scope(settings,
                  Call \o StartWriter \o RunByChip(format, UnsetRun("charge", at(Points[1])))
                  \o Each(<<0, (LinkSize - 1) \div 2>>, Around)))
-----------------------------------------------------------------------------
(***************************************************************************)
(* Scans of one or two parameters over pedestals.                          *)
(***************************************************************************)
Vrefs == <<0, 600>>

InvVrefScan(format) ==
    LET Point(v) == Scope(OnLinks(AllLinks, "INV_VREF", v), Run(OnLinks(AllLinks, "INV_VREF", v)))
    IN  IfSupported(format, StartWriter \o Each(Vrefs, Point))

\* Sets INV_VREF; the column is called NOINV_VREF.
NoinvVrefScan(format) ==
    LET Point(v) == Scope(OnLinks(AllLinks, "INV_VREF", v), RunClaiming(Nothing, OnLinks(AllLinks, "NOINV_VREF", v)))
    IN  IfSupported(format, StartWriter \o Each(Vrefs, Point))

SamplingPhaseScan(format) ==
    LET Point(v) == Scope(OnTop("PHASE_CK", v), Run(OnTop("PHASE_CK", v)))
    IN  IfSupported(format, StartWriter \o Each(Strobes, Point))

Vref2dScan(format) ==
    LET noinv(v) == OnLinks(AllLinks, "NOINV_VREF", v)
        inv(v) == OnLinks(AllLinks, "INV_VREF", v)
        Point(v, w) == Scope(inv(w), RunByChip(format, Run(noinv(v) @@ inv(w))))
        Row(v) == Scope(noinv(v), Each(Vrefs, LAMBDA w : Point(v, w)))
    IN  IfSupported(format, StartWriter \o Each(Vrefs, Row))

\* SIGN_DAC stays set under the scope that resets it with DACB for the second
\* scan; TRIM_INV is a column of the first scan, which does not set it.
TrimInvDacbScan(format) ==
    LET trim(v) == OnChannels(AllChannels, "TRIM_INV", v)
        dacb(v) == OnChannels(AllChannels, "DACB", v)
        sign(v) == OnChannels(AllChannels, "SIGN_DAC", v)
        DacbPoint(v) == Scope(dacb(v), RunClaiming(dacb(v), trim(0)))
        TrimPoint(v) == Scope(trim(v), Run(dacb(0) @@ trim(v)))
    IN  IfSupported(format,
            StartWriter
            \o Scope(sign(1), Each(<<0, 60>>, DacbPoint)
                              \o Scope(dacb(0) @@ sign(0), Each(<<4, 60>>, TrimPoint))))

\* The search for CALIB is CalibSearch: here it visits two values. Its rows also
\* have a column `time' that is no time: the name is that of the C function.
Vt50Scan(format) ==
    LET l == {LinkOf(Chosen)}
        settings == OnLinks(l, "INTCTEST", 1) @@ OnLinks(l, "TOA_VREF", 250) @@ OnLinks(l, "CHOICE_CINJ", 0)
                    @@ OnChannels({Chosen}, "HIGHRANGE", 0) @@ OnChannels({Chosen}, "LOWRANGE", 1)
        Calib(v, c) == LET s == OnLinks(l, "CALIB", c)
                       IN  Scope(s, Run(s @@ OnLinks(l, "TOT_VREF", v)))
        Vref(v) == Scope(OnLinks(l, "TOT_VREF", v), Each(<<2047, 1023>>, LAMBDA c : Calib(v, c)))
    IN  Call \o Scope(settings, IfSupported(format, StartWriter \o Each(<<300, 600>>, Vref)))
-----------------------------------------------------------------------------
(***************************************************************************)
(* Calibrations: measure in scopes, then ask whether to set what was       *)
(* found. The user may decline.                                            *)
(***************************************************************************)
PedestalRun(sign, dacb, trim) ==
    Scope(OnChannels(AllChannels, "SIGN_DAC", sign) @@ OnChannels(AllChannels, "DACB", dacb)
          @@ OnChannels(AllChannels, "TRIM_INV", trim), Run(Nothing))

\* A channel below its link's median is raised, one above is lowered, one that
\* does not respond is left alone; here all of a link alike.
Levellings ==
    LET Level(l, what) ==
            LET C == {ch \in AllChannels : LinkOf(ch) = l}
            IN  CASE what = "raise" -> OnChannels(C, "TRIM_INV", 63)
                  [] what = "lower" -> OnChannels(C, "SIGN_DAC", 1) @@ OnChannels(C, "DACB", 31)
                  [] OTHER -> Nothing
    IN  {Level(0, a) @@ Level(1, b) : a, b \in {"raise", "lower", "skip"}}

LevelPedestals(format) ==
    Call \o IfSupported(format, PedestalRun(0, 0, 0) \o PedestalRun(0, 0, 63) \o PedestalRun(1, 31, 0))
    \o Set(Levellings)

\* With an unsupported format the targets are whatever was in the memory.
ToaVrefScan(format) ==
    LET Point(v) == Scope(OnLinks(AllLinks, "TOA_VREF", v), Run(OnLinks(AllLinks, "TOA_VREF", v)))
    IN  Call \o IfSupported(format, Each(<<0, 255>>, Point))
        \o Set({Nothing} \cup {OnLinks({0}, "TOA_VREF", a) @@ OnLinks({1}, "TOA_VREF", b) : a, b \in {10, 265}})

\* The search of get_calibs for the CALIB of a channel: two of its turns.
GetCalibs(format) ==
    LET Calib(ch, c) == Scope(OnLinks({LinkOf(ch)}, "CALIB", c),
                              IF LinkOf(ch) = 1 THEN RunByChip(format, Run(Nothing)) ELSE Run(Nothing))
        Of(ch) == Scope(OnLinks({LinkOf(ch)}, "INTCTEST", 1) @@ OnLinks({LinkOf(ch)}, "CHOICE_CINJ", 1)
                        @@ OnChannels({ch}, "HIGHRANGE", 1) @@ OnLinks({LinkOf(ch)}, "TOA_VREF", 0),
                        Each(<<1000, 950>>, LAMBDA c : Calib(ch, c)))
    IN  Each(<<0, Chosen>>, Of)

\* tp50_scan throws if a channel has no TOT at all.
Tp50Scan ==
    LET Eff(ch, v) == Scope(OnLinks({LinkOf(ch)}, "TOT_VREF", v), Run(Nothing))
        Of(ch) == Scope(OnLinks({LinkOf(ch)}, "INTCTEST", 1) @@ OnLinks({LinkOf(ch)}, "CHOICE_CINJ", 1)
                        @@ OnLinks({LinkOf(ch)}, "CALIB", 950) @@ OnChannels({ch}, "HIGHRANGE", 1),
                        Each(<<300, 450>>, LAMBDA v : Eff(ch, v)) \o Call)
    IN  Each(<<0, Chosen>>, Of)

TrimTotScan ==
    LET Trim(ch, t) == Scope(OnChannels({ch}, "TRIM_TOT", t), Run(Nothing))
        Of(ch) == Scope(OnLinks({LinkOf(ch)}, "CALIB", 950) @@ OnChannels({ch}, "HIGHRANGE", 1),
                        Each(<<0, 63>>, LAMBDA t : Trim(ch, t)))
    IN  Scope(OnLinks(AllLinks, "TOT_VREF", 450) @@ OnLinks(AllLinks, "INTCTEST", 1) @@ OnLinks(AllLinks, "CHOICE_CINJ", 1),
              Each(<<0, Chosen>>, Of))

TotVrefScan(format) ==
    Call \o IfSupported(format, GetCalibs(format) \o Tp50Scan \o TrimTotScan)
    \o Set({Nothing} \cup {OnLinks(AllLinks, "TOT_VREF", v) @@ OnChannels(AllChannels, "TRIM_TOT", 5) : v \in {300, 450}})

\* The settings it deduces name a parameter that does not exist: if the user
\* wants them, the compiler throws before anything is written.
TrimToaScan(format) ==
    LET Calib(c) == Scope(OnLinks(AllLinks, "CALIB", c), Run(Nothing))
        Trim(t) == Scope(OnChannels(AllChannels, "TRIM_TOA", t), Each(<<0, 796>>, Calib))
    IN  Call \o IfSupported(format, Each(<<0, 28>>, Trim)) \o Call
-----------------------------------------------------------------------------
(***************************************************************************)
(* Set-up and timing.                                                      *)
(***************************************************************************)
\* The idle frames of all ROCs are kept in a variable and put back at the end;
\* without an ECON that is ready nothing is touched.
AlignPhaseWord(econ) ==
    LET idle(v) == OnHalves(0..3, "IDLEFRAME", v)
        align == KeepSet(idle(10)) \o Call \o Set({idle(11)}) \o Call \o <<[op |-> "standard"]>> \o Call \o ClosingStep
    IN  Call \o (IF econ = "ready" THEN align ELSE <<>>)

\* The delay is set for two pulses and set back before the analysis, and the
\* user may try another.
TriggerTimein ==
    LET injected == {0, LinkSize - 1, LinkSize, 2 * LinkSize - 1}
        settings == OnChannels(AllChannels, "ADC_PEDESTAL", 255) @@ OnHalves(AllLinks, "ADC_TH", 31)
                    @@ OnLinks(AllLinks, "CALIB", 3000) @@ OnLinks(AllLinks, "INTCTEST", 1)
                    @@ OnChannels(injected, "LOWRANGE", 1)
        latency == [p \in {<<"MASTERTDC", l, "GLOBAL_LATENCY_TIME">> : l \in AllLinks} |-> 10]
        Try(by) == Read("charge") \o Call \o Shift("charge", by)
                   \o Scope(OnHalves(AllLinks, "L1OFFSET", 16),
                            Call \o Scope(latency, Call \o Shift("charge", 0) \o Call))
    IN  Scope(settings, Each(<<-2, 3>>, Try))

\* The delay stays where the last run had it; an unsupported format throws.
ChargeTimein(format) ==
    LET settings == OnLinks({1}, "CALIB", 1024) @@ OnLinks({1}, "INTCTEST", 1)
                    @@ OnChannels({Chosen}, "HIGHRANGE", 0) @@ OnChannels({Chosen}, "LOWRANGE", 0)
        At1(to) == MoveTo("charge", to) \o Run(Nothing)
    IN  Call \o Scope(settings, IF Supported(format) THEN Call \o Each(<<0, 127>>, At1) ELSE Always("BadConf"))
-----------------------------------------------------------------------------
\* The commands of the menus.
ProgramOf(t) ==
    LET format == t[2] answer == t[3]
    IN  CASE t[1] = "charge_timescan" -> ChargeTimescan(format, answer)
          [] t[1] = "gen_scan" -> GenScan(format, answer)
          [] t[1] = "parameter_timescan" -> ParameterTimescan(format, IF answer = "tot" THEN "one" ELSE answer, answer)
          [] t[1] = "multi_channel_scan" -> IF answer = "led" THEN MultiChannelLed(format)
                                            ELSE MultiChannelInjection(format, answer)
          [] t[1] = "inv_vref_scan" -> InvVrefScan(format)
          [] t[1] = "noinv_vref_scan" -> NoinvVrefScan(format)
          [] t[1] = "sampling_phase_scan" -> SamplingPhaseScan(format)
          [] t[1] = "vref_2d_scan" -> Vref2dScan(format)
          [] t[1] = "trim_inv_dacb_scan" -> TrimInvDacbScan(format)
          [] t[1] = "vt50_scan" -> Vt50Scan(format)
          [] t[1] = "level_pedestals" -> LevelPedestals(format)
          [] t[1] = "toa_vref_scan" -> ToaVrefScan(format)
          [] t[1] = "tot_vref_scan" -> TotVrefScan(format)
          [] t[1] = "trim_toa_scan" -> TrimToaScan(format)
          [] t[1] = "align_phase_word" -> AlignPhaseWord(answer)
          [] t[1] = "trigger_timein" -> TriggerTimein
          [] t[1] = "charge_timein" -> ChargeTimein(format)
=============================================================================
