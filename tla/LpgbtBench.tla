----------------------------- MODULE LpgbtBench -----------------------------
(***************************************************************************)
(* Programs over a lpGBT: the mezzanine test bench (app/lpgbt) and pftool's *)
(* temperature task.  The commands of the bench run the services of        *)
(* LpgbtChip; its pin test drives a board that may be faulty.              *)
(***************************************************************************)
EXTENDS LpgbtChip

CONSTANTS
    Boards,     \* boards under test
    Cycles,     \* rounds of the pin test: 10 in the code
    Grid,       \* settings of an end of the resistor chain: 3 in the code
    Addresses   \* addresses of a scan of an I2C bus: 128 in the code

\* A board has no fault, lines that are stuck, or lines that are joined.
ASSUME BoardAssumption ==
    /\ Cycles \in Nat \ {0} /\ Grid \in Nat /\ Addresses \in Nat
    /\ \A b \in Boards :
          \/ b.kind = "good"
          \/ /\ b.kind \in {"low", "high", "and", "or"}
             /\ b.dirs \subseteq {"out", "in"} /\ b.dirs # {}
             /\ b.pins \subseteq 0..11 /\ b.pins # {}
             /\ b.kind \in {"and", "or"} => \E p, q \in b.pins : p # q

VARIABLES
    side,    \* bound: what a behaviour is about: "chip", "tester" or "walk"
    board,   \* the board that is plugged in
    walk,    \* the pin test: direction, pattern, errors, rounds left, verdict
    cache    \* the constants kept for the chip: "none", "hollow" or "full"

bvars == <<cvars, side, board, walk, cache>>
bench == <<side, board, walk, cache>>
-----------------------------------------------------------------------------
(***************************************************************************)
(* The tests that set the chip up and measure; each is a program.          *)
(***************************************************************************)
TestBasic == SerialNumber

\* The chain of resistors is driven from its ends; every point is read.
TestAdc ==
    <<Put("VREFTUNE", {7})>> \o AdcRead(0, 15, 1) \o AdcRead(0, 15, 1)
    \o Repeat(Grid * Grid, FlattenSeq([i \in 1..4 |-> AdcRead(i - 1, 15, 1)]))
    \o Repeat(Grid * Grid, FlattenSeq([i \in 1..4 |-> AdcRead(i + 3, 15, 1)]))

TestCtl == FlattenSeq([i \in 1..7 |-> SetupEtx(i - 1, TRUE, FALSE, 4)])
TestEc == FlattenSeq([i \in 1..9 |-> SetupEc(TRUE, 4, TRUE, IF i = 1 THEN 0 ELSE i - 2, TRUE)])
TestElinks == FlattenSeq([i \in 1..6 |-> SetupErx(i - 1, 0, 0, 3, TRUE, TRUE)])

\* Each clock is tried at four rates and stopped after each.
TestEclk == FlattenSeq([i \in 1..8 |->
    FlattenSeq([k \in 1..4 |-> SetupEclk(i - 1, 20 * 2^k) \o SetupEclk(i - 1, 0)])])

AdcAll == FlattenSeq([i \in 1..15 |-> AdcRead(i - 1, 15, 1)])

\* A scan addresses every device in turn; a device that does not answer throws
\* inside the loop, where it is caught.
I2cScan == SetupI2c(0, 100) \o
    FlattenSeq([a \in 1..Addresses |->
        <<PutAt("I2CM0ADDRESS", 0, Bits(a - 1)), Put("I2CM0DATA0", {}),
          Put("I2CM0CMD", {}), Put("I2CM0CMD", Bits(3)), Poll>>])

Links(kind, n, val) == [i \in {kind} \X (0..n - 1) |-> val]
TestCalls == /\ services < MaxLong
             /\ \/ \E p \in {TestBasic, TestAdc, TestEc, AdcAll, I2cScan} : Serve(p, <<>>)
                \/ Serve(TestCtl, Links("etx", 7, Straight))
                \/ Serve(TestElinks, Links("erx", 6, 0))
                \/ Serve(TestEclk, Links("eclk", 8, 0))
             /\ UNCHANGED bench

\* GPIO WRITE: all pins, from what they are to what the operator makes of it.
CallGpioWrite == \E p \in Pin :
    /\ Serve(GpioSetAll(GpioGetAll \cup {p}), [i \in {"out"} \X (0..11) |-> i[2] \in GpioGetAll \cup {p}])
    /\ UNCHANGED bench

\* RESET through the optical link is a pulse on a pin; on the wired mezzanine it
\* runs a command that does not exist, and nothing happens.
CallReset == /\ Serve(GpioSet(11, FALSE) \o GpioSet(11, TRUE), One(<<"out", 11>>, TRUE))
             /\ UNCHANGED bench

-----------------------------------------------------------------------------
(***************************************************************************)
(* The pin test: ones and zeros walk over the twelve pins, first from the  *)
(* chip to the expander of the tester, then back.                          *)
(***************************************************************************)
Pins12 == 0..11

\* Pin of the chip wired to each pin of the expander, and the other way round.
Lcl2Gbt == <<9, 3, 6, 7, 1, 0, 2, 4, 10, 11, 8, 5>>
Gbt2Lcl == <<5, 4, 6, 1, 7, 11, 2, 3, 10, 0, 8, 9>>
\* How the test board is wired: pin of the expander of each pin of the chip.
Wire == <<5, 4, 6, 1, 7, 11, 2, 3, 10, 0, 8, 9>>
Scramble(map, S) == {map[i + 1] : i \in S}

\* Patterns 0..11 are the walking ones, 12..23 the walking zeros.
Pattern(k) == IF k < 12 THEN {k} ELSE Pins12 \ {k - 12}

\* What a pattern on the chip's pins becomes on the lines of the board: a line
\* may be stuck in one direction or both, two lines may be joined.
Lines(dir, S) ==
    IF dir \notin board.dirs THEN S
    ELSE CASE board.kind = "good" -> S
           [] board.kind = "low"  -> S \ board.pins
           [] board.kind = "high" -> S \cup board.pins
           [] board.kind = "and"  -> IF board.pins \subseteq S THEN S ELSE S \ board.pins
           [] board.kind = "or"   -> IF board.pins \cap S = {} THEN S ELSE S \cup board.pins

\* Registers of the chip after a program has run to its end: of the accesses that
\* write a bit the last one counts.
After(p) ==
    [x \in DOMAIN reg \cup UNION {DOMAIN p[i].write : i \in DOMAIN p} |->
        {b \in Byte :
            LET hits == {i \in DOMAIN p : /\ x \in DOMAIN p[i].write
                                          /\ b \in p[i].write[x].mask \cup p[i].write[x].val}
            IN  IF hits = {} THEN b \in Value(x)
                ELSE b \in p[CHOOSE i \in hits : \A j \in hits : j <= i].write[x].val}]
\* Twelve pins are given one name, the empty one: the last keeps it.
Directed(dir) ==
    /\ reg' = After(FlattenSeq([i \in 1..12 |->
                        GpioCfgSet(i - 1, IF dir = "out" THEN {"output"} ELSE {}, "")]))
    /\ AddPin(<<"", 11, dir = "out">>)

Good == [kind |-> "good", dirs |-> {}, pins |-> {}]
NoWalk == [dir |-> "none", k |-> 0, errors |-> 0, left |-> Cycles, ok |-> FALSE]
OnlyWalk == todo = <<>> /\ services = 0 /\ UNCHANGED <<todo, asked, promise, left, services, faults, side, board, cache>>

\* Each round sets the directions afresh.
StartWalk ==
    /\ OnlyWalk /\ walk.dir = "none" /\ DOMAIN gpos \cup DOMAIN gpis \subseteq {""}
    /\ Directed("out")
    /\ walk' = [NoWalk EXCEPT !.dir = "out"]

WalkOut ==
    /\ OnlyWalk /\ walk.dir = "out" /\ walk.k < 24
    /\ reg' = After(GpioSetAll(Pattern(walk.k)))
    /\ LET lines == {p \in Pins12 : Bit("PIOOUT", Hidden(p))'}
           seen == Scramble(Lcl2Gbt, Scramble(Wire, Lines("out", lines)))
       IN  walk' = [walk EXCEPT !.k = @ + 1, !.errors = @ + (IF seen = Pattern(walk.k) THEN 0 ELSE 1)]
    /\ UNCHANGED <<gpos, gpis>>

Turn ==
    /\ OnlyWalk /\ walk.dir = "out" /\ walk.k = 24
    /\ Directed("in")
    /\ walk' = [walk EXCEPT !.dir = "in", !.k = 0]

WalkIn ==
    /\ OnlyWalk /\ walk.dir = "in" /\ walk.k < 24
    /\ LET lines == {p \in Pins12 : Wire[p + 1] \in Scramble(Gbt2Lcl, Pattern(walk.k))}
           seen == AllPins({Hidden(p) : p \in Lines("in", lines)})
       IN  walk' = [walk EXCEPT !.k = @ + 1, !.errors = @ + (IF seen = Pattern(walk.k) THEN 0 ELSE 1)]
    /\ UNCHANGED <<reg, gpos, gpis>>

\* Rounds go on while there are some left and no error.
EndRound ==
    /\ OnlyWalk /\ walk.dir = "in" /\ walk.k = 24
    /\ LET again == walk.left > 1 /\ walk.errors = 0 IN
        /\ walk' = [walk EXCEPT !.dir = IF again THEN "out" ELSE "done", !.k = 0,
                                !.left = @ - 1, !.ok = walk.errors = 0]
        /\ IF again THEN Directed("out") ELSE UNCHANGED <<reg, gpos, gpis>>
-----------------------------------------------------------------------------
(***************************************************************************)
(* The converters of the test board (ad5593r.h, device 0: stimulus, device *)
(* 1: power) and the registers of the tester.  Errors on their bus are     *)
(* printed and forgotten: the program goes on without the access.          *)
(***************************************************************************)
AdKinds == {"GPO_ENABLE", "GPI_ENABLE", "ADC_PIN", "DAC_PIN", "PULLDOWN", "GPO_WRITE"}
Set1(k, d, p) == BitSet(<<k, d>>, p)
Clr1(k, d, p) == BitClr(<<k, d>>, p)
ClearPin(d, p) == <<Clr1("GPO_ENABLE", d, p), Clr1("GPI_ENABLE", d, p), Clr1("ADC_PIN", d, p), Clr1("DAC_PIN", d, p)>>
SetupGpi(d, p) == <<Clr1("GPO_ENABLE", d, p), Clr1("ADC_PIN", d, p), Clr1("DAC_PIN", d, p),
                    Set1("GPI_ENABLE", d, p), Clr1("PULLDOWN", d, p)>>
SetupGpo(d, p, v) == <<Clr1("GPI_ENABLE", d, p), Clr1("ADC_PIN", d, p), Clr1("DAC_PIN", d, p),
                       IF v = 0 THEN Clr1("GPO_WRITE", d, p) ELSE Set1("GPO_WRITE", d, p),
                       Set1("GPO_ENABLE", d, p)>>
SetupDac(d, p) == <<Clr1("GPO_ENABLE", d, p), Clr1("GPI_ENABLE", d, p), Set1("ADC_PIN", d, p),
                    Set1("PULLDOWN", d, p), PutAt("DAC", 8 * d + p, {}), Set1("DAC_PIN", d, p)>>
SetupAdc(d, p) == <<Clr1("DAC_PIN", d, p), Clr1("GPI_ENABLE", d, p), Clr1("GPO_ENABLE", d, p),
                    Clr1("PULLDOWN", d, p), Set1("ADC_PIN", d, p)>>
Modes == [gpi |-> {"GPI_ENABLE"}, gpo0 |-> {"GPO_ENABLE"}, gpo1 |-> {"GPO_ENABLE"},
          adc |-> {"ADC_PIN"}, dac |-> {"ADC_PIN", "DAC_PIN"}, clear |-> {}]
SetupMode(d, p, m) ==
    CASE m = "gpi" -> SetupGpi(d, p) [] m = "gpo0" -> SetupGpo(d, p, 0) [] m = "gpo1" -> SetupGpo(d, p, 1)
      [] m = "adc" -> SetupAdc(d, p) [] m = "dac" -> SetupDac(d, p) [] m = "clear" -> ClearPin(d, p)
CallPin == \E p \in {0, 7}, m \in DOMAIN Modes :
    Serve(SetupMode(0, p, m), [i \in {<<"mode", 0, p>>} |-> m])

\* The voltage is a number of three digits to base 3: low, floating or high.
Digits(n) == <<n \div 9, (n \div 3) % 3, n % 3>>
Tune(p, digit) == IF digit = 1 THEN "gpi" ELSE IF digit = 2 THEN "gpo1" ELSE "gpo0"
Power == <<<<0, "gpi">>, <<1, "adc">>, <<2, "adc">>, <<3, "gpi">>, <<4, "gpi">>,
           <<7, "gpo0">>, <<6, "gpo1">>, <<5, "gpo1">>>>
Volts(n) == <<<<5, Tune(5, Digits(n)[3])>>, <<6, Tune(6, Digits(n)[2])>>, <<7, Tune(7, Digits(n)[1])>>>>
SetAll(settings) == FlattenSeq([i \in DOMAIN settings |-> SetupMode(1, settings[i][1], settings[i][2])])
AskedAll(settings, n) ==
    AsFunction({<<<<"mode", 1, x[1]>>, x[2]>> : x \in ToSet(settings)} \cup {<<<<"volts">>, n>>})
GetSetting ==
    LET digit(p) == IF p \notin Value(<<"GPO_ENABLE", 1>>) THEN 1
                    ELSE IF p \in Value(<<"GPO_WRITE", 1>>) THEN 2 ELSE 0
    IN  9 * digit(7) + 3 * digit(6) + digit(5)
\* The program starts with 1.2 V; other voltages can be asked for later.
CallVolts ==
    \/ services = 0 /\ Serve(SetAll(Power), AskedAll(Power, 8))
    \/ \E n \in {1, 12} : services > 0 /\ Serve(SetAll(Volts(n)), AskedAll(Volts(n), n))

\* Phase and pattern of a link: fields of five and of four bits in one word.
Field(i, w) == w * i..w * i + w - 1
CallPhase == \E i \in {0, 1, 5}, ph \in {3, 31} : Serve(
    <<On(R("WIRED_DELAY"), 7..24, {b + 16 : b \in Bits(ph)} \cup {b + 7 : b \in Bits(ph)}),
      On(R("UPLINK_PHASE"), Field(i, 5) \cup {31}, {b + 5 * i : b \in Bits(ph)})>>,
    [x \in {<<"phase", i>>} |-> ph])
CallPattern == \E i \in {0, 1, 5}, n \in {1, 15} :
    Serve(<<On(R("UPLINK_PATTERN"), Field(i, 4), {b + 4 * i : b \in Bits(n)})>>,
         [x \in {<<"pattern", i>>} |-> n])

\* An access to a converter fails unnoticed; what was asked for is not there.
Unnoticed ==
    /\ todo # <<>> /\ faults < MaxFaults
    /\ \A r \in DOMAIN Head(todo).write : r[1] \in AdKinds
    /\ DOMAIN Head(todo).write # {}
    /\ todo' = Tail(todo) /\ asked' = <<>> /\ faults' = faults + 1
    /\ UNCHANGED <<reg, gpos, gpis, promise, left, services, bench>>
-----------------------------------------------------------------------------
(***************************************************************************)
(* The temperature task: constants come from a file kept by the program,   *)
(* filled from a table when the chip is not in it; a table that cannot be  *)
(* opened (the download failed) still makes an entry, without constants.   *)
(***************************************************************************)
GetCalibConstants(table) ==
    CASE table = "absent" -> "hollow"
      [] table = "chip" -> "full"
      [] table = "others" -> cache
GetLpgbtTemps ==
    /\ services < MaxLong
    /\ \/ Serve(ReadEfuse(0) \o AdcAverage, <<>>) /\ UNCHANGED cache
       \/ \E table \in {"absent", "chip", "others"}, t \in Tunes :
            /\ cache' = IF cache = "none" THEN GetCalibConstants(table) ELSE cache
            \* Missing constants throw before the chip is touched again.
            /\ Serve(ReadEfuse(0) \o IF cache' = "full" THEN ReadInternalTempPrecise(t) ELSE <<>>, <<>>)
    /\ UNCHANGED <<side, board, walk>>
-----------------------------------------------------------------------------
InitBench == /\ InitChip /\ walk = NoWalk /\ cache = "none"
             /\ \/ side \in {"chip", "tester"} /\ board = Good
                \/ side = "walk" /\ board \in Boards
Chip == side = "chip" /\ (CallPins \/ CallLinks \/ CallOthers \/ CallLong) /\ UNCHANGED bench
Bench == side = "chip" /\ (TestCalls \/ CallGpioWrite \/ CallReset \/ GetLpgbtTemps)
Tester == side = "tester" /\ (CallPin \/ CallVolts \/ CallPhase \/ CallPattern) /\ UNCHANGED bench
Walk == side = "walk" /\ (StartWalk \/ WalkOut \/ Turn \/ WalkIn \/ EndRound)
NextBench == Chip \/ Bench \/ Tester \/ Walk \/ Unnoticed \/ ((Step \/ BreakOff) /\ UNCHANGED bench)
SpecBench == InitBench /\ [][NextBench]_bvars
-----------------------------------------------------------------------------
PinMode(d, p) == {k \in {"GPO_ENABLE", "GPI_ENABLE", "ADC_PIN", "DAC_PIN"} : p \in Value(<<k, d>>)}
HoldsBench(i, val) ==
    CASE i[1] = "mode" -> /\ PinMode(i[2], i[3]) = Modes[val]
                          /\ val = "gpo0" => i[3] \notin Value(<<"GPO_WRITE", i[2]>>)
                          /\ val = "gpo1" => i[3] \in Value(<<"GPO_WRITE", i[2]>>)
      [] i[1] = "volts" -> GetSetting = val
      [] i[1] = "phase" -> Value(R("UPLINK_PHASE")) \cap Field(i[2], 5) = {b + 5 * i[2] : b \in Bits(val)}
      [] i[1] = "pattern" -> Value(R("UPLINK_PATTERN")) \cap Field(i[2], 4) = {b + 4 * i[2] : b \in Bits(val)}
      [] OTHER -> Holds(i, val)

(* Every pin, link, clock and register of the chip, of the test board's        *)
(* converters and of the tester is as the last call that finished left it,     *)
(* whatever ran or broke since: they share bytes and words, which are read,    *)
(* changed and written back, or written in frames of adjacent registers.  Of a *)
(* link out this is whether it is on, and whether it is inverted if it has the *)
(* register of that to itself; for the links that share one see HalvesKept.    *)
Kept == \A i \in DOMAIN promise : HoldsBench(i, promise[i])

(* A link out that is on is inverted exactly if the last finished call that set *)
(* it up asked for that, whatever link was set up since: two links share the    *)
(* register, and each has its half of it.                                       *)
HalvesKept ==
    \A i \in DOMAIN promise : i[1] = "etx" /\ promise[i][1] => InvertIs(i[2], promise[i][2])

(* The pin test passes exactly the boards without a fault: every stuck line, in *)
(* either direction, and every pair of joined lines is seen, and a good board   *)
(* is passed although the pins of the tester are numbered differently.          *)
TestSees == walk.dir = "done" => (walk.ok <=> board.kind = "good")
=============================================================================
