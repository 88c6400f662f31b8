----------------------------- MODULE LpgbtChip ------------------------------
(***************************************************************************)
(* The services of a lpGBT (src/pflib/lpGBT.cxx, lpgbt/GPIO.cxx): pins,    *)
(* clocks, electrical links, measurements, and the standard set-ups made   *)
(* of them (lpgbt/lpGBT_standard_configs.cxx).                             *)
(*                                                                         *)
(* Every service is a program of accesses to registers of eight bits, each *)
(* a set of bits here.  An access over the transport may throw; what the   *)
(* program did before stays done and nothing after it is.                  *)
(***************************************************************************)
EXTENDS Integers, Sequences, FiniteSets, SequencesExt

CONSTANTS
    Pin,        \* pins of the mezzanine the callers use
    Name,       \* names the callers give to pins
    Cfg,        \* pin configurations: sets of "output", "strong", "up", "down"
    Etx,        \* electrical links out the callers set up
    Loads,      \* lists of <<register, value>> the callers write
    Tables,     \* settings tables they apply: lines <<register, mask, value>>
    Burst,      \* registers in a frame of the transport: 8 in the code
    Samples,    \* conversions of an average: 20 in the code
    Tunes,      \* values of the reference tune a temperature may ask for
    MaxServices, MaxFaults,  \* bounds: calls, and accesses that throw
    MaxLong     \* bound: the first calls, among which the long ones may be

ASSUME ServiceAssumption ==
    /\ Pin \subseteq 0..11 /\ Etx \subseteq 0..6
    /\ Burst \in Nat \ {0} /\ Samples \in Nat
    /\ Loads \subseteq Seq(Nat \X (SUBSET (0..7)))
    /\ Tables \subseteq Seq(Nat \X (SUBSET (0..7)) \X (SUBSET (0..7)))

VARIABLES
    reg,          \* the registers of the chip
    gpos, gpis,   \* GPIO: the outputs and the inputs known by name
    todo,         \* what is left of the program that runs
    asked,        \* history: items the running call was asked for, with their values
    promise,      \* history: what the finished calls promised of each item
    left,         \* history: units an interrupted call has left on
    services, faults

cvars == <<reg, gpos, gpis, todo, asked, promise, left, services, faults>>

Byte == 0..7
Bits(n) == {b \in Byte : (n \div <<1, 2, 4, 8, 16, 32, 64, 128>>[b + 1]) % 2 = 1}

\* An access: what becomes of which registers, and the entry GPIO::add_pin makes
\* when the access has succeeded.
Access(f) == [write |-> f, pin |-> <<>>]
On(r, mask, val) == Access([x \in {r} |-> [mask |-> mask, val |-> val]])
R(name) == <<name, 0>>
PutAt(name, i, val) == On(<<name, i>>, Byte, val)
Put(name, val) == PutAt(name, 0, val)
BitSet(r, b) == On(r, {}, {b % 8})
BitClr(r, b) == On(r, {b % 8}, {})
Poll == Access([x \in {} |-> {}])
Value(r) == IF r \in DOMAIN reg THEN reg[r] ELSE {}
Repeat(n, s) == FlattenSeq([i \in 1..n |-> s])
-----------------------------------------------------------------------------
(***************************************************************************)
(* Lists of registers, written in runs of adjacent addresses, and settings *)
(* tables, applied line by line.                                           *)
(***************************************************************************)

\* Mutated form: every frame starts at the first register.
WriteRegsOneBase(base, vals) ==
    [k \in 1..((Len(vals) + Burst - 1) \div Burst) |->
        LET part == SubSeq(vals, (k - 1) * Burst + 1, IF k * Burst < Len(vals) THEN k * Burst ELSE Len(vals))
        IN  Access([r \in {<<"AUX", base + i - 1>> : i \in DOMAIN part} |->
                       [mask |-> Byte, val |-> part[r[2] - base + 1]]])]

\* write_regs of the transport: frames of at most Burst registers.
WriteRegs(base, vals) ==
    [k \in 1..((Len(vals) + Burst - 1) \div Burst) |->
        LET ptr == (k - 1) * Burst
            part == SubSeq(vals, ptr + 1, IF k * Burst < Len(vals) THEN k * Burst ELSE Len(vals))
        IN  Access([r \in {<<"AUX", base + ptr + i - 1>> : i \in DOMAIN part} |->
                       [mask |-> Byte, val |-> part[r[2] - base - ptr + 1]]])]

\* A run starts where the address is not the next one.
Write(rv) ==
    LET starts == {i \in DOMAIN rv : i = 1 \/ rv[i][1] # rv[i - 1][1] + 1}
        end(i) == Min({j \in i..Len(rv) : j = Len(rv) \/ j + 1 \in starts})
    IN  FlattenSeq([i \in DOMAIN rv |->
            IF i \in starts THEN WriteRegs(rv[i][1], [j \in 1..(end(i) - i + 1) |-> rv[i + j - 1][2]])
            ELSE <<>>])

\* A name the register table does not know (0) throws; the lines before it are done.
ApplyTable(lines) ==
    LET bad == {i \in DOMAIN lines : lines[i][1] = 0}
        n == IF bad = {} THEN Len(lines) ELSE (CHOOSE i \in bad : \A j \in bad : i <= j) - 1
    IN  [i \in 1..n |-> On(<<"AUX", lines[i][1]>>, lines[i][2], lines[i][3] \cap lines[i][2])]
-----------------------------------------------------------------------------
(***************************************************************************)
(* Pins.  Registers 0 and 1 of a kind hold the high and the low pins; what *)
(* the mezzanine calls pin 3 is pin 15 of the chip.                        *)
(***************************************************************************)
Hidden(p) == IF p = 3 THEN 15 ELSE p
Half(kind, b) == <<kind, IF b < 8 THEN 1 ELSE 0>>
Bit(kind, b) == b % 8 \in Value(Half(kind, b))

GpioSet(p, high) ==
    LET b == Hidden(p) IN
    <<IF high THEN BitSet(Half("PIOOUT", b), b) ELSE BitClr(Half("PIOOUT", b), b)>>

GpioSetAll(S) ==
    <<PutAt("PIOOUT", 0, {b \in Byte : b + 8 \in S} \cup IF 3 \in S THEN {7} ELSE {}),
      PutAt("PIOOUT", 1, S \cap Byte)>>

\* Mutated form: the pin that is wired elsewhere is forgotten.
AllPinsPlain(val) == val \cap 0..11

\* gpio_get of all pins: the bits of the chip as pins of the mezzanine.  The input
\* of an output follows what is driven.
AllPins(val) == (val \cap (0..11 \ {3})) \cup IF 15 \in val THEN {3} ELSE {}

GpioGetAll == AllPins(Value(<<"PIOOUT", 1>>) \cup {b + 8 : b \in Value(<<"PIOOUT", 0>>)})

GpioCfgSet(p, cfg, name) ==
    LET b == Hidden(p)
        Switch(kind, yes) == IF yes THEN BitSet(Half(kind, b), b) ELSE BitClr(Half(kind, b), b)
        dirs == <<Switch("PIODIR", "output" \in cfg), Switch("PIODRIVE", "strong" \in cfg)>>
        pulls == IF cfg \cap {"up", "down"} = {"up"}
                 THEN <<Switch("PIOUPDOWN", TRUE), Switch("PIOPULLENA", TRUE)>>
                 ELSE IF cfg \cap {"up", "down"} = {"down"}
                 THEN <<Switch("PIOUPDOWN", FALSE), Switch("PIOPULLENA", TRUE)>>
                 ELSE <<Switch("PIOPULLENA", FALSE)>>
        last == Last(pulls)
    IN  dirs \o Front(pulls) \o <<[last EXCEPT !.pin = <<name, b, "output" \in cfg>>]>>

\* gpio_get of one pin: the bit is taken from the byte with the mask 1 << (pin & 8).
GpioGet(p) == Hidden(p) < 8 /\ 0 \in Value(<<"PIOOUT", 1>>)

\* Mutated form: only the name is forgotten, not the pin.
WithoutName(table, e) == [n \in DOMAIN table \ {e[1]} |-> table[n]]

\* add_pin: the name and the pin are forgotten wherever they were, then entered.
Without(table, e) ==
    [n \in {n \in DOMAIN table : n # e[1] /\ table[n] # e[2]} |-> table[n]]

With(table, e) == [n \in DOMAIN table \cup {e[1]} |-> IF n = e[1] THEN e[2] ELSE table[n]]

AddPin(e) ==
    /\ gpos' = IF e[3] THEN With(Without(gpos, e), e) ELSE Without(gpos, e)
    /\ gpis' = IF e[3] THEN Without(gpis, e) ELSE With(Without(gpis, e), e)
-----------------------------------------------------------------------------
(***************************************************************************)
(* Measurements: the analog units are switched on, used and off again.     *)
(***************************************************************************)
Gain(g) == CASE g = 8 -> 1 [] g = 16 -> 2 [] g = 32 -> 3 [] OTHER -> 0

AdcRead(ipos, ineg, gain) ==
    LET monitor == ipos \in 10..13
        Mon(val) == IF monitor THEN <<Put("ADCMON", val)>> ELSE <<>>
    IN  Mon(Bits(31))
        \o <<Put("ADC_SELECT", Bits(16 * ipos + ineg)),
             Put("ADC_CONFIG", Bits(4 + Gain(gain))),
             Put("VREFCNTR", {7}),
             Put("ADC_CONFIG", Bits(128 + 4 + Gain(gain))),
             Poll,
             Put("ADC_CONFIG", {2} \cup Bits(gain))>>
        \o Mon({})
        \o <<Put("VREFCNTR", {})>>

\* Mutated form: the current is left on.
AdcResistanceLeftOn(ipos, current, gain) ==
    <<BitSet(R("DAC_CONFIG_H"), 6), Put("CURDAC_VALUE", Bits(current)), Put("CURDAC_CHN", {ipos})>>
    \o AdcRead(ipos, 15, gain)

AdcResistanceRead(ipos, current, gain) ==
    <<BitSet(R("DAC_CONFIG_H"), 6), Put("CURDAC_VALUE", Bits(current)), Put("CURDAC_CHN", {ipos})>>
    \o AdcRead(ipos, 15, gain)
    \o <<BitClr(R("DAC_CONFIG_H"), 6)>>

AdcAverage == Repeat(Samples, AdcRead(14, 15, 0))

FindVrefTune(tune) == <<Put("VREFTUNE", {})>> \o AdcAverage \o <<Put("VREFTUNE", Bits(tune))>>

ReadInternalTempPrecise(tune) ==
    <<Put("ADCMON", {5}), Put("ADCMON", {})>> \o FindVrefTune(tune) \o AdcAverage

ReadEfuse(addr) ==
    <<BitSet(R("FUSECONTROL"), 1), Poll, Put("FUSEADDRH", Bits(addr \div 256)),
      Put("FUSEADDRL", Bits(addr % 256)), BitClr(R("FUSECONTROL"), 1), BitClr(R("FUSECONTROL"), 0)>>

SerialNumber == FlattenSeq([i \in 1..5 |-> ReadEfuse(<<0, 8, 12, 16, 20>>[i])])

\* The bit-error test of a link; it leaves the link in training mode 1.
CheckPrbsErrors(group, channel, own, rate, time, errors) ==
    <<PutAt("EPRXCONTROL", group, {4 + channel} \cup Bits(4 * rate + 1))>>
    \o (IF own THEN <<Put("EPRXPRBS0", {channel})>> ELSE <<>>)
    \o <<Put("EPRXTRAIN", {channel}), Put("EPRXTRAIN", {}), Put("ULDATASOURCE1", {}),
         Put("BERTSOURCE", Bits(16 * (group + 1) + 6)), Put("BERTCONFIG", {}),
         Put("BERTCONFIG", Bits(16 * time + 1)), Poll>>
    \o (IF errors THEN <<Put("BERTCONFIG", {})>> ELSE <<>>)
    \o <<Put("BERTCONFIG", {}), Put("EPRXPRBS0", {}), Put("ULDATASOURCE1", {})>>
-----------------------------------------------------------------------------
(***************************************************************************)
(* Clocks and electrical links.                                            *)
(***************************************************************************)
Flag(yes, b) == IF yes THEN {b} ELSE {}

\* Group and channel of a link out on the mezzanine.
MapEtx(i) == <<<<0, 0>>, <<0, 1>>, <<1, 0>>, <<2, 0>>, <<2, 1>>, <<3, 0>>, <<3, 1>>>>[i + 1]
EtxBit(i) == <<<<"EPTXENABLE", MapEtx(i)[1] \div 2>>, 4 * (MapEtx(i)[1] % 2) + MapEtx(i)[2]>>

\* The two links of a group share a register: four bits each, of which one inverts.
\* The half is chosen by ipin % 1, which is always 0.
SetupEtx(i, enable, invert, drive) ==
    LET port == MapEtx(i)[1]  pin == MapEtx(i)[2] IN
    <<Put("EPTXDATARATE", Byte), Put("EPTXCONTROL", Bits(15))>> \o
    IF ~enable THEN <<BitClr(EtxBit(i)[1], EtxBit(i)[2])>>
    ELSE <<BitSet(EtxBit(i)[1], EtxBit(i)[2]),
           PutAt("EPTXCHN", port * 4 + pin, Bits(drive % 8)),
           On(<<"EPTXPAIR", port * 2 + pin \div 2>>, 0..3, Flag(invert, 3))>>

SetupErx(i, align, phase, speed, invert, term) ==
    LET irx == IF i >= 3 THEN i + 1 ELSE i IN
    <<PutAt("EPRXCONTROL", irx, {4} \cup Bits(4 * (speed % 4) + (align % 4))),
      PutAt("EPRXCHN", 4 * irx, Bits(16 * (phase % 16)) \cup Flag(invert, 3) \cup Flag(term, 1))>>

SetupEc(invert_tx, drive, fixed, phase, pullup) ==
    <<PutAt("EPRXCONTROL", 7, {4} \cup Flag(fixed, 0)),
      PutAt("EPRXCHN", 28, Bits(16 * (phase % 8)) \cup {1} \cup Flag(pullup, 0)),
      Put("EPTXECCHNCNTR", Bits(32 * (drive % 8) + 1) \cup Flag(invert_tx, 2))>>

MapEclk(i) == <<28, 6, 4, 1, 19, 21, 27, 25>>[i + 1]
RateCode(rate) ==
    LET codes == <<40, 80, 160, 320, 640, 1280>>
        hits == {k \in DOMAIN codes : codes[k] = rate}
    IN  IF hits = {} THEN 0 ELSE CHOOSE k \in hits : TRUE
SetupEclk(i, rate) == <<PutAt("ECLK", 2 * MapEclk(i), Bits(RateCode(rate) + 32))>>

\* The speed is kept by the program until a transfer sends it to the master.
SetupI2c(bus, khz) ==
    LET speed == IF khz \in 126..299 THEN 1 ELSE IF khz \in 301..499 THEN 2
                 ELSE IF khz \in 501..1999 THEN 3 ELSE 0
        config == [mask |-> Byte, val |-> {3, 5}]  ctl == [mask |-> Byte, val |-> Bits(speed)]
    IN  <<Access([r \in {<<"I2CMCONFIG", bus>>, <<"ctl_reg", bus>>} |->
                     IF r[1] = "ctl_reg" THEN ctl ELSE config])>>

FinalizeSetup == <<Put("POWERUP2", {1, 2})>>
-----------------------------------------------------------------------------
(***************************************************************************)
(* The standard set-ups.                                                   *)
(***************************************************************************)
Reset == {"output", "up", "strong"}
SetPins(names) == FlattenSeq([i \in DOMAIN names |-> GpioCfgSet(names[i][1], names[i][2], names[i][3])])
High(pins) == FlattenSeq([i \in DOMAIN pins |-> GpioSet(pins[i], TRUE)])
Receivers == FlattenSeq([i \in 1..6 |-> SetupErx(i - 1, 0, 0, 3, FALSE, TRUE)])

HcalDaqPins == <<<<0, Reset, "HGCROC2_HRST">>, <<1, Reset, "HGCROC2_SRST">>,
    <<2, Reset, "HGCROC1_HRST">>, <<4, Reset, "HGCROC1_SRST">>,
    <<8, Reset, "HGCROC_I2C_RST">>, <<11, Reset, "TRIG_LPGBT_RSTB">>>>

SetupHcalDaq ==
    SetPins(HcalDaqPins) \o High(<<0, 1, 2, 4, 8, 11>>)
    \o FlattenSeq([k \in 1..8 |-> LET i == <<0, 1, 2, 3, 4, 6, 5, 7>>[k]
                                  IN  SetupEclk(i, IF i = 7 THEN 40 ELSE 320)])
    \o FlattenSeq([i \in 1..7 |-> SetupEtx(i - 1, TRUE, FALSE, 4)])
    \o SetupErx(0, 0, 0, 3, FALSE, TRUE)
    \o SetupEc(FALSE, 4, FALSE, 0, TRUE)
    \o FinalizeSetup

HcalTrigPins == <<<<2, Reset, "BOARD_I2C_RST">>, <<4, Reset, "HGCROC0_HRST">>,
    <<7, Reset, "HGCROC0_SRST">>, <<6, Reset, "HGCROC3_HRST">>, <<3, Reset, "HGCROC3_SRST">>,
    <<9, Reset, "BIAS_I2C_RST">>, <<8, Reset, "ECON_HRST">>, <<11, Reset, "ECON_SRST">>>>

SetupHcalTrig == SetPins(HcalTrigPins) \o High(<<2, 3, 4, 6, 7, 8, 9, 11>>) \o Receivers \o FinalizeSetup

EcalPins == LET Down == {"output", "down", "strong"} IN
    <<<<4, Down, "M0_POWER_EN">>, <<5, Reset, "M0_ROC_RE_Hb">>, <<6, Reset, "M0_ROC_RE_Sb">>,
           <<7, Down, "M0_ECON_RE_Hb">>, <<8, Down, "M0_ECON_RE_Sb">>>>

SetupEcal(daq) ==
    SetPins(EcalPins) \o
    IF daq THEN High(<<4, 5, 6, 7, 8>>) \o SetupEclk(0, 320) \o SetupEclk(7, 40)
                \o SetupEtx(0, TRUE, FALSE, 4) \o SetupErx(0, 0, 0, 3, FALSE, TRUE)
                \o SetupEc(FALSE, 4, FALSE, 0, TRUE) \o FinalizeSetup
    ELSE Receivers \o FinalizeSetup
-----------------------------------------------------------------------------
(***************************************************************************)
(* The machine: a caller starts one service at a time; each access is made *)
(* or throws.                                                              *)
(***************************************************************************)
InitChip == /\ reg = <<>> /\ gpos = <<>> /\ gpis = <<>>
        /\ todo = <<>> /\ asked = <<>> /\ promise = <<>> /\ left = {}
        /\ services = 0 /\ faults = 0

Serve(p, what) ==
    /\ todo = <<>> /\ services < MaxServices
    /\ todo' = p
    /\ asked' = what
    /\ promise' = [i \in DOMAIN promise \ DOMAIN what |-> promise[i]]
    /\ services' = services + 1
    /\ UNCHANGED <<reg, gpos, gpis, left, faults>>

\* Items: <<"cfg", pin>>, <<"out", pin>>, <<"name", name>> (its pin and direction,
\* or <<>> when the pin was given another name), <<"etx", link>> (whether it is on,
\* and inverted), <<"eclk", clock>>,
\* <<"erx", link>> and <<"aux", register, bit>> (the other registers).
One(i, val) == [x \in {i} |-> val]
AskedPins(names) ==
    LET pins == {x[1] : x \in ToSet(names)}
        given == {x[3] : x \in ToSet(names)}
        before == {i[2] : i \in {i \in DOMAIN promise : i[1] = "name" /\ promise[i] # <<>>
                                                        /\ promise[i][1] \in pins}}
    IN  {<<<<"cfg", x[1]>>, x[2]>> : x \in ToSet(names)}
        \cup {<<<<"name", x[3]>>, <<x[1], "output" \in x[2]>>>> : x \in ToSet(names)}
        \cup {<<<<"name", n>>, <<>>>> : n \in before \ given}
AsFunction(S) == [i \in {x[1] : x \in S} |-> (CHOOSE x \in S : x[1] = i)[2]]
Shown(b) == IF b = 15 THEN 3 ELSE b

CallGpioCfgSet == \E p \in Pin, c \in Cfg, n \in Name :
    Serve(GpioCfgSet(p, c, n), AsFunction(AskedPins(<<<<p, c, n>>>>)))
CallGpioSet == \E p \in Pin, high \in BOOLEAN : Serve(GpioSet(p, high), One(<<"out", p>>, high))
CallGpioSetAll == \E S \in SUBSET Pin :
    Serve(GpioSetAll(S), [i \in {"out"} \X (0..11) |-> i[2] \in S])
\* An unknown name throws before the chip is touched.
CallSetGPO == \E n \in DOMAIN gpos, high \in BOOLEAN :
    Serve(GpioSet(gpos[n], high), One(<<"out", Shown(gpos[n])>>, high))
CallSetupEtx == \E i \in Etx, enable, invert \in BOOLEAN :
    Serve(SetupEtx(i, enable, invert, 4), One(<<"etx", i>>, <<enable, invert>>))
CallSetupEclk == \E i \in Etx, rate \in {0, 320} :
    Serve(SetupEclk(i, rate), One(<<"eclk", i>>, rate))
CallSetupErx == \E i \in Etx : i < 6 /\
    Serve(SetupErx(i, 0, 0, 3, FALSE, TRUE), One(<<"erx", i>>, 0))
CallSetupI2c == \E khz \in {100, 400} : Serve(SetupI2c(0, khz), <<>>)

\* What the lines of a list or a table ask for: the last line on a bit counts.
LastOn(lines, r, b) ==
    LET hits == {i \in DOMAIN lines : lines[i][1] = r /\ b \in lines[i][2]}
    IN  b \in lines[CHOOSE i \in hits : \A j \in hits : j <= i][3]
AskedOf(lines) ==
    [x \in UNION {{<<"aux", l[1], b>> : b \in l[2]} : l \in ToSet(lines)} |->
        LastOn(lines, x[2], x[3])]
CallWriteList == \E rv \in Loads :
    Serve(Write(rv), AskedOf([i \in DOMAIN rv |-> <<rv[i][1], Byte, rv[i][2]>>]))
CallApplyTable == \E lines \in Tables :
    /\ ApplyTable(lines) # <<>>
    /\ Serve(ApplyTable(lines), AskedOf(SubSeq(lines, 1, Len(ApplyTable(lines)))))

CallMeasure == \E p \in {AdcRead(3, 15, 8), AdcRead(12, 15, 1), AdcResistanceRead(2, 100, 1), SerialNumber}
                        \cup {ReadInternalTempPrecise(t) : t \in Tunes} : Serve(p, <<>>)
\* The test leaves its link in training mode 1; its groups skip the fourth.
CallCheckPrbs == \E i \in Etx, own, errors \in BOOLEAN : i < 3 /\
    Serve(CheckPrbsErrors(i, 0, own, 3, 4, errors), One(<<"erx", i>>, 1))

AllHigh(names) == {<<<<"out", x[1]>>, TRUE>> : x \in ToSet(names)}
Straight == <<TRUE, FALSE>>
AllErx(n) == {<<<<"erx", i>>, 0>> : i \in 0..n - 1}
CallSetupHcalDaq == Serve(SetupHcalDaq, AsFunction(
    AskedPins(HcalDaqPins) \cup AllHigh(HcalDaqPins) \cup AllErx(1)
    \cup {<<<<"eclk", i>>, IF i = 7 THEN 40 ELSE 320>> : i \in 0..7}
    \cup {<<<<"etx", i>>, Straight>> : i \in 0..6}))
CallSetupHcalTrig == Serve(SetupHcalTrig, AsFunction(
    AskedPins(HcalTrigPins) \cup AllHigh(HcalTrigPins) \cup AllErx(6)))
CallSetupEcal == \E daq \in BOOLEAN : Serve(SetupEcal(daq), AsFunction(
    AskedPins(EcalPins) \cup
    IF daq THEN AllHigh(EcalPins) \cup AllErx(1) \cup {<<<<"eclk", 0>>, 320>>,
                    <<<<"eclk", 7>>, 40>>, <<<<"etx", 0>>, Straight>>}
    ELSE AllErx(6)))

\* The accesses of a service are made one by one.
Units ==
    {u \in {<<"VREFCNTR", 7>>, <<"ADCMON", 0>>, <<"ADCMON", 5>>, <<"DAC_CONFIG_H", 6>>,
            <<"ADC_CONFIG", 7>>, <<"FUSECONTROL", 1>>, <<"BERTCONFIG", 0>>, <<"EPRXPRBS0", 0>>,
            <<"EPRXTRAIN", 0>>} : u[2] \in Value(R(u[1]))}
Step ==
    /\ todo # <<>>
    /\ LET a == Head(todo) IN
        /\ reg' = [r \in DOMAIN reg \cup DOMAIN a.write |->
                      IF r \in DOMAIN a.write
                      THEN (Value(r) \ a.write[r].mask) \cup a.write[r].val ELSE reg[r]]
        /\ IF a.pin = <<>> THEN UNCHANGED <<gpos, gpis>> ELSE AddPin(a.pin)
    /\ todo' = Tail(todo)
    /\ IF Len(todo) > 1 THEN UNCHANGED <<asked, promise, left>>
       ELSE /\ promise' = [i \in DOMAIN asked \cup DOMAIN promise |->
                             IF i \in DOMAIN asked THEN asked[i] ELSE promise[i]]
            /\ asked' = <<>>
            /\ left' = left \cap Units'
    /\ UNCHANGED <<services, faults>>

BreakOff ==
    /\ todo # <<>> /\ faults < MaxFaults
    /\ todo' = <<>> /\ asked' = <<>>
    /\ left' = left \cup Units
    /\ faults' = faults + 1
    /\ UNCHANGED <<reg, gpos, gpis, promise, services>>

CallPins == CallGpioCfgSet \/ CallGpioSet \/ CallGpioSetAll \/ CallSetGPO
CallLinks == CallSetupEtx \/ CallSetupEclk \/ CallSetupErx \/ CallSetupI2c
CallOthers == CallWriteList \/ CallApplyTable
CallLong ==
    /\ services < MaxLong
    /\ \/ CallMeasure \/ CallCheckPrbs
       \/ CallSetupHcalDaq \/ CallSetupHcalTrig \/ CallSetupEcal
-----------------------------------------------------------------------------
PinIs(p, c) ==
    LET b == Hidden(p) IN
    /\ Bit("PIODIR", b) = ("output" \in c)
    /\ Bit("PIODRIVE", b) = ("strong" \in c)
    /\ Bit("PIOPULLENA", b) = (c \cap {"up", "down"} \in {{"up"}, {"down"}})
    /\ c \cap {"up", "down"} = {"up"} => Bit("PIOUPDOWN", b)
    /\ c \cap {"up", "down"} = {"down"} => ~Bit("PIOUPDOWN", b)

\* The bit that inverts a link out: in the half of the register that is the link's own.
InvertBit(i) == <<<<"EPTXPAIR", MapEtx(i)[1] * 2>>, 4 * MapEtx(i)[2] + 3>>
\* The third link has a register to itself.
Alone(i) == \A j \in 0..6 : j # i => InvertBit(j)[1] # InvertBit(i)[1]
InvertIs(i, invert) == invert = (InvertBit(i)[2] \in Value(InvertBit(i)[1]))

Holds(i, val) ==
    CASE i[1] = "cfg" -> PinIs(i[2], val)
      [] i[1] = "out" -> val = (i[2] \in GpioGetAll)
      [] i[1] = "etx" -> /\ val[1] = (EtxBit(i[2])[2] \in Value(EtxBit(i[2])[1]))
                         /\ val[1] /\ Alone(i[2]) => InvertIs(i[2], val[2])
      [] i[1] = "eclk" -> Value(<<"ECLK", 2 * MapEclk(i[2])>>) = Bits(RateCode(val) + 32)
      [] i[1] = "erx" -> Value(<<"EPRXCONTROL", IF i[2] >= 3 THEN i[2] + 1 ELSE i[2]>>) \cap 0..1 = Bits(val)
      [] i[1] = "name" -> TRUE
      [] i[1] = "aux" -> val = (i[3] \in Value(<<"AUX", i[2]>>))

(* A name leads to the pin it was last given to, in the table of its direction, *)
(* and to no other; a pin has one name.  The pin may have been driven through   *)
(* another call, renamed, or lost its name to another pin since.                *)
NamesTrue ==
    /\ DOMAIN gpos \cap DOMAIN gpis = {}
    /\ \A t \in {gpos, gpis} : \A n, m \in DOMAIN t : t[n] = t[m] => n = m
    /\ {gpos[n] : n \in DOMAIN gpos} \cap {gpis[n] : n \in DOMAIN gpis} = {}
    /\ \A i \in DOMAIN promise : i[1] = "name" =>
          IF promise[i] = <<>> THEN i[2] \notin DOMAIN gpos \cup DOMAIN gpis
          ELSE LET table == IF promise[i][2] THEN gpos ELSE gpis IN
               i[2] \in DOMAIN table /\ table[i[2]] = Hidden(promise[i][1])

(* Between calls the analog units, the fuses and the bit-error test are off,   *)
(* except those an interrupted call has left on.                               *)
Quiet == todo = <<>> => Units \subseteq left
=============================================================================
