-------------------------- MODULE LpgbtInvariants --------------------------
(***************************************************************************)
(* The inductive invariants of the services of the lpGBT, behind Quiet,    *)
(* NamesTrue, TestSees and Kept.  A service is a program of accesses,      *)
(* and a call may break off after any of them: each invariant says what    *)
(* the part of the program that is left will do.                           *)
(***************************************************************************)
EXTENDS LpgbtBench

(***************************************************************************)
(* What a program does to the units, and to the tables of names: units it  *)
(* leaves on, units it switches off, entries it makes.                     *)
(***************************************************************************)
AllUnits ==
    {<<"VREFCNTR", 7>>, <<"ADCMON", 0>>, <<"ADCMON", 5>>, <<"DAC_CONFIG_H", 6>>,
     <<"ADC_CONFIG", 7>>, <<"FUSECONTROL", 1>>, <<"BERTCONFIG", 0>>, <<"EPRXPRBS0", 0>>,
     <<"EPRXTRAIN", 0>>}
UnitNames == {u[1] : u \in AllUnits}
UnitRegs == {R(n) : n \in UnitNames}

\* An access switches a unit on, or off.
SwitchesOn(a, u) == R(u[1]) \in DOMAIN a.write /\ u[2] \in a.write[R(u[1])].val
SwitchesOff(a, u) ==
    /\ R(u[1]) \in DOMAIN a.write
    /\ u[2] \in a.write[R(u[1])].mask \ a.write[R(u[1])].val

Prog(p) == p \in Seq({p[i] : i \in DOMAIN p})

\* Units a program leaves on, units it switches off, entries it makes.
Leaves(p) == {u \in AllUnits : \E i \in DOMAIN p :
                 SwitchesOn(p[i], u) /\ \A j \in DOMAIN p : j > i => ~SwitchesOff(p[j], u)}
Off(p) == {u \in AllUnits : \E i \in DOMAIN p : SwitchesOff(p[i], u)}
Entries(p) == {p[i].pin : i \in {i \in DOMAIN p : p[i].pin # <<>>}}
-----------------------------------------------------------------------------
(***************************************************************************)
(* Quiet.  Between calls nothing is left running because what is left of   *)
(* the program, at every access of it, switches off every unit that is on  *)
(* and that no interrupted call has left on.                               *)
(***************************************************************************)
\* The inductive invariant.
UnitsInv ==
    /\ Prog(todo) /\ Leaves(todo) = {}
    /\ Units \subseteq left \cup Off(todo)
-----------------------------------------------------------------------------
(***************************************************************************)
(* NamesTrue.  What was asked of a name is in the tables, or an entry yet  *)
(* to come brings it; no other entry to come touches the name or its pin.  *)
(***************************************************************************)
\* A name in the tables.
At(n, b) == (n \in DOMAIN gpos /\ gpos[n] = b) \/ (n \in DOMAIN gpis /\ gpis[n] = b)
Named(n, v) ==
    IF v = <<>> THEN n \notin DOMAIN gpos \cup DOMAIN gpis
    ELSE LET table == IF v[2] THEN gpos ELSE gpis
         IN  n \in DOMAIN table /\ table[n] = Hidden(v[1])
TablesTrue ==
    /\ DOMAIN gpos \cap DOMAIN gpis = {}
    /\ \A t \in {gpos, gpis} : \A n, m \in DOMAIN t : t[n] = t[m] => n = m
    /\ {gpos[n] : n \in DOMAIN gpos} \cap {gpis[n] : n \in DOMAIN gpis} = {}
NameValues == {<<>>} \cup (Pins12 \X BOOLEAN)
Names(f) == {i \in DOMAIN f : i[1] = "name"}
Items(f) == \A i \in Names(f) : i = <<"name", i[2]>> /\ f[i] \in NameValues

\* An entry still to come touches neither the name nor the pin of what is in the tables.
Spares(n, v) == \A e \in Entries(todo) : e[1] # n /\ (v # <<>> => e[2] # Hidden(v[1]))

\* A name is, or will be when the program has run, as it was asked for.
Right(n, v) ==
    \/ Named(n, v) /\ Spares(n, v)
    \/ v # <<>> /\ <<n, Hidden(v[1]), v[2]>> \in Entries(todo)
    \/ v = <<>> /\ Spares(n, v) /\ \E e \in Entries(todo) : At(n, e[2])

NamesInv ==
    /\ TablesTrue
    /\ Items(promise) /\ Items(asked)
    /\ \A i \in Names(promise) : Named(i[2], promise[i]) /\ Spares(i[2], promise[i])
    /\ \A e, f \in Entries(todo) : e # f => e[1] # f[1] /\ e[2] # f[2]
    /\ \A e \in Entries(todo) : e[3] \in BOOLEAN
    /\ \A i \in Names(asked) : Right(i[2], asked[i])
    /\ services \in Nat /\ (services = 0 => DOMAIN promise = {} /\ DOMAIN asked = {})
-----------------------------------------------------------------------------
(***************************************************************************)
(* TestSees.  The errors counted so far tell whether the patterns that went*)
(* through the lines so far came back unchanged.                           *)
(***************************************************************************)
\* The first k patterns come through the lines unchanged.
Clean(dir, k) == \A j \in 0..(k - 1) : Lines(dir, Pattern(j)) = Pattern(j)

Walks ==
    /\ walk.dir = "out" => (walk.errors = 0 <=> Clean("out", walk.k))
    /\ walk.dir = "in" => (walk.errors = 0 <=> Clean("out", 24) /\ Clean("in", walk.k))
    /\ walk.dir = "done" => (walk.ok <=> Clean("out", 24) /\ Clean("in", 24))

\* The record of the pin test.
WalkTypes == [dir : {"none", "out", "in", "done"}, k : 0..24, errors : Nat, left : Int, ok : BOOLEAN]

WalkTypeOK ==
    /\ walk \in WalkTypes
    /\ board \in Boards \cup {Good}

\* The inductive invariant.
WalkInv == WalkTypeOK /\ Walks
-----------------------------------------------------------------------------
(***************************************************************************)
(* Kept.  A program sets or clears some bits of some registers, the last   *)
(* access that writes a bit decides, and an item is a matter of a few      *)
(* bits.  What is left of the program that runs writes no bit of an item   *)
(* that was promised, and ends with the bits of the items that were asked  *)
(* for as they were asked for.                                             *)
(***************************************************************************)
To(yes) == IF yes THEN "set" ELSE "clear"

\* A bit is a register and a number. What an access does to it.
Effect(a, x) ==
    IF x[1] \notin DOMAIN a.write THEN "keep"
    ELSE IF x[2] \in a.write[x[1]].val THEN "set"
    ELSE IF x[2] \in a.write[x[1]].mask THEN "clear"
    ELSE "keep"

\* What a program ends with.
Ends(p, x, v) ==
    \/ v = "keep" /\ \A i \in DOMAIN p : Effect(p[i], x) = "keep"
    \/ v # "keep" /\ \E i \in DOMAIN p : /\ Effect(p[i], x) = v
                                        /\ \A j \in DOMAIN p : j > i => Effect(p[j], x) = "keep"

Now(x) == To(x[2] \in Value(x[1]))

\* The registers a program writes are of some kinds; the eighth receiver, which no item
\* is about, is a kind of its own. Two kinds of registers have values of eight bits.
Label(r) == IF r = <<"EPRXCONTROL", 7>> THEN "EC" ELSE r[1]
Slim == {"PIOOUT", "ECLK"}
FitsIn(a, K) == \A r \in DOMAIN a.write :
                    Label(r) \in K /\ (r[1] \in Slim => a.write[r].val \subseteq Byte)
WritesIn(p, K) == Prog(p) /\ \A i \in DOMAIN p : FitsIn(p[i], K)

\* The bits of an item.
Place(kind, b) == <<Half(kind, b), b % 8>>
PinKinds == {"PIODIR", "PIODRIVE", "PIOPULLENA", "PIOUPDOWN"}
ModeKinds == {"GPO_ENABLE", "GPI_ENABLE", "ADC_PIN", "DAC_PIN", "GPO_WRITE"}
Receiver(i) == <<"EPRXCONTROL", IF i >= 3 THEN i + 1 ELSE i>>
Sole == <<<<"EPTXPAIR", 2>>, 3>>     \* inverts the third link out, the one that is alone
Foot(i) ==
    CASE i[1] = "cfg" -> {Place(kind, Hidden(i[2])) : kind \in PinKinds}
      [] i[1] = "out" -> {Place("PIOOUT", Hidden(i[2]))}
      [] i[1] = "etx" -> {EtxBit(i[2])} \cup {x \in {Sole} : i[2] = 2}
      [] i[1] = "eclk" -> {<<<<"ECLK", 2 * MapEclk(i[2])>>, b>> : b \in Byte}
      [] i[1] = "erx" -> {<<Receiver(i[2]), b>> : b \in 0..1}
      [] i[1] = "aux" -> {<<<<"AUX", i[2]>>, i[3]>>}
      [] i[1] = "mode" -> {<<<<kind, i[2]>>, i[3]>> : kind \in ModeKinds}
      [] i[1] = "volts" -> {<<<<kind, 1>>, p>> : kind \in {"GPO_ENABLE", "GPO_WRITE"}, p \in 5..7}
      [] i[1] = "phase" -> {<<R("UPLINK_PHASE"), b>> : b \in Field(i[2], 5)}
      [] i[1] = "pattern" -> {<<R("UPLINK_PATTERN"), b>> : b \in Field(i[2], 4)}
      [] OTHER -> {}

\* What its bits should be for a value of the item.
CfgGoal(c, kind) ==
    CASE kind = "PIODIR" -> To("output" \in c)
      [] kind = "PIODRIVE" -> To("strong" \in c)
      [] kind = "PIOPULLENA" -> To(c \cap {"up", "down"} \in {{"up"}, {"down"}})
      [] OTHER -> IF c \cap {"up", "down"} = {"up"} THEN "set"
                    ELSE IF c \cap {"up", "down"} = {"down"} THEN "clear" ELSE "any"
ModeGoal(m, kind) ==
    IF kind = "GPO_WRITE"
    THEN IF m = "gpo0" THEN "clear" ELSE IF m = "gpo1" THEN "set" ELSE "any"
    ELSE To(kind \in Modes[m])
Digit(n, p) == Digits(n)[8 - p]
VoltsGoal(n, kind, p) ==
    IF kind = "GPO_ENABLE" THEN To(Digit(n, p) # 1)
    ELSE IF Digit(n, p) = 1 THEN "any" ELSE To(Digit(n, p) = 2)
Goal(i, v, x) ==
    CASE i[1] = "cfg" -> CfgGoal(v, x[1][1])
      [] i[1] = "out" -> To(v)
      [] i[1] = "etx" -> IF x[1][1] = "EPTXENABLE" THEN To(v[1])
                         ELSE IF v[1] THEN To(v[2]) ELSE "any"
      [] i[1] = "eclk" -> To(x[2] \in Bits(RateCode(v) + 32))
      [] i[1] = "erx" -> To(x[2] \in Bits(v))
      [] i[1] = "aux" -> To(v)
      [] i[1] = "mode" -> ModeGoal(v, x[1][1])
      [] i[1] = "volts" -> VoltsGoal(v, x[1][1], x[2])
      [] i[1] = "phase" -> To(x[2] \in {b + 5 * i[2] : b \in Bits(v)})
      [] i[1] = "pattern" -> To(x[2] \in {b + 4 * i[2] : b \in Bits(v)})
      [] OTHER -> "any"

\* The items there are, and their values.
IsItem(i, v) ==
    \/ i[1] = "name"
    \/ i[1] = "cfg" /\ i = <<"cfg", i[2]>> /\ i[2] \in Pins12
    \/ i[1] = "out" /\ i = <<"out", i[2]>> /\ i[2] \in Pins12 /\ v \in BOOLEAN
    \/ i[1] = "etx" /\ i = <<"etx", i[2]>> /\ i[2] \in 0..6 /\ v \in BOOLEAN \X BOOLEAN
    \/ i[1] = "eclk" /\ i = <<"eclk", i[2]>> /\ i[2] \in 0..7
    \/ i[1] = "erx" /\ i = <<"erx", i[2]>> /\ i[2] \in 0..5 /\ v \in 0..1
    \/ i[1] = "aux" /\ i = <<"aux", i[2], i[3]>> /\ i[2] \in Nat /\ i[3] \in Byte /\ v \in BOOLEAN
    \/ i[1] = "mode" /\ i = <<"mode", i[2], i[3]>> /\ i[2] \in 0..1 /\ i[3] \in Byte /\ v \in DOMAIN Modes
    \/ i = <<"volts">> /\ v \in {1, 8, 12}
    \/ i[1] = "phase" /\ i = <<"phase", i[2]>> /\ i[2] \in {0, 1, 5} /\ v \in {3, 31}
    \/ i[1] = "pattern" /\ i = <<"pattern", i[2]>> /\ i[2] \in {0, 1, 5} /\ v \in {1, 15}

\* The inductive invariant.
Meets(i, v) == \A x \in Foot(i) : Goal(i, v, x) \in {"any", Now(x)}
Spared(p, i) == \A x \in Foot(i) : Ends(p, x, "keep")
WillMeet(i, v) == \A x \in Foot(i) :
    \/ Goal(i, v, x) = "any"
    \/ Ends(todo, x, Goal(i, v, x))
    \/ Ends(todo, x, "keep") /\ Goal(i, v, x) = Now(x)
\* What a program does of a set of items with their values, and that it does no more.
Done(p, i, v) == \A x \in Foot(i) : Goal(i, v, x) = "any" \/ Ends(p, x, Goal(i, v, x))
Narrow(a) == \A r \in DOMAIN a.write : r[1] \in Slim => a.write[r].val \subseteq Byte
Does(p, W) ==
    /\ Prog(p) /\ \A k \in DOMAIN p : Narrow(p[k])
    /\ \A w \in W : IsItem(w[1], w[2]) /\ Done(p, w[1], w[2])
    /\ \A i, v : IsItem(i, v) /\ (\A w \in W : w[1] # i) => Spared(p, i)

HiddenPins == {Hidden(p) : p \in Pins12}

KeptInv ==
    /\ Prog(todo)
    /\ \A k \in DOMAIN todo : Narrow(todo[k])
    /\ \A r \in DOMAIN reg : r[1] \in Slim => reg[r] \subseteq Byte
    /\ \A i \in DOMAIN promise : IsItem(i, promise[i]) /\ Meets(i, promise[i]) /\ Spared(todo, i)
    /\ \A i \in DOMAIN asked : IsItem(i, asked[i]) /\ WillMeet(i, asked[i])
    /\ \A n \in DOMAIN gpos : gpos[n] \in HiddenPins
    /\ \A e \in Entries(todo) : e[2] \in HiddenPins
-----------------------------------------------------------------------------
(***************************************************************************)
(* The kinds of registers that an item is about, and the others; the items *)
(* of the standard set-ups with their values.                              *)
(***************************************************************************)
ItemKinds ==
    PinKinds \cup ModeKinds
    \cup {"PIOOUT", "EPTXENABLE", "EPTXPAIR", "ECLK", "EPRXCONTROL", "AUX", "UPLINK_PHASE", "UPLINK_PATTERN"}

OtherKinds ==
    {"ADCMON", "ADC_SELECT", "ADC_CONFIG", "VREFCNTR", "DAC_CONFIG_H", "CURDAC_VALUE", "CURDAC_CHN",
     "VREFTUNE", "FUSECONTROL", "FUSEADDRH", "FUSEADDRL", "EPRXPRBS0", "EPRXTRAIN", "ULDATASOURCE1",
     "BERTSOURCE", "BERTCONFIG", "EPTXDATARATE", "EPTXCONTROL", "EPTXCHN", "EPRXCHN",
     "EPTXECCHNCNTR", "I2CMCONFIG", "ctl_reg", "POWERUP2", "I2CM0ADDRESS", "I2CM0DATA0", "I2CM0CMD",
     "EC", "PULLDOWN", "DAC", "WIRED_DELAY"}

CfgItems(names) == {<<<<"cfg", x[1]>>, x[2]>> : x \in ToSet(names)}
EtxItems == {<<<<"etx", i>>, Straight>> : i \in 0..6}
EclkItems(n) == {<<<<"eclk", i>>, 0>> : i \in 0..(n - 1)}
ClockItems == {<<<<"eclk", i>>, IF i = 7 THEN 40 ELSE 320>> : i \in 0..7}
DaqItems == CfgItems(HcalDaqPins) \cup AllHigh(HcalDaqPins) \cup AllErx(1) \cup ClockItems \cup EtxItems
TrigItems == CfgItems(HcalTrigPins) \cup AllHigh(HcalTrigPins) \cup AllErx(6)
EcalLinks == {<<<<"eclk", 0>>, 320>>, <<<<"eclk", 7>>, 40>>, <<<<"etx", 0>>, Straight>>}
EcalItems(daq) ==
    CfgItems(EcalPins) \cup IF daq THEN AllHigh(EcalPins) \cup AllErx(1) \cup EcalLinks ELSE AllErx(6)
-----------------------------------------------------------------------------
(***************************************************************************)
(* What services do, for each of the invariants: they start a program that *)
(* leaves no unit on and makes no entry, or the entries of a list of pins; *)
(* a program that brings about the items asked for and spares the others.  *)
(***************************************************************************)
\* The program touches no unit and no table.
Plain(a) == a.pin = <<>> /\ DOMAIN a.write \cap UnitRegs = {}

PlainProg(p) == Prog(p) /\ \A i \in DOMAIN p : Plain(p[i])

\* Tidy: the program leaves no unit on, and makes only entries of the set.
Tidy(p, E) == Prog(p) /\ Leaves(p) = {} /\ Entries(p) \subseteq E

\* The entry a configuration of a pin makes, with its last access.
EntryOf(p, cfg, name) == <<name, Hidden(p), "output" \in cfg>>

\* A program that makes the entries of a list of pins and leaves no unit on.
EntriesOf(names) == {EntryOf(names[i][1], names[i][2], names[i][3]) : i \in DOMAIN names}

Enters(p, names) == Prog(p) /\ Leaves(p) = {} /\ Entries(p) = EntriesOf(names)

NoNames(D) == \A i \in D : i[1] # "name"

StartsPlain == \E p, what : Serve(p, what) /\ Tidy(p, {}) /\ NoNames(DOMAIN what)

\* The pins and the names of a list are all different.
PinsOf(n, names) ==
    /\ n \in Nat /\ names = [i \in 1..n |-> names[i]]
    /\ \A i \in 1..n : names[i][1] \in Pins12
    /\ \A i, j \in 1..n : i # j => names[i][1] # names[j][1] /\ names[i][3] # names[j][3]

PinList(names) == \E n : PinsOf(n, names)

StartsPins == \E p, names, others :
    /\ Serve(p, AsFunction(AskedPins(names) \cup others))
    /\ Enters(p, names) /\ PinList(names) /\ NoNames({x[1] : x \in others})

RunsRound ==
    /\ OnlyWalk
    /\ \/ UNCHANGED reg
       \/ \E p : Prog(p) /\ Leaves(p) = {} /\ reg' = After(p)
    /\ \/ UNCHANGED <<gpos, gpis>>
       \/ \E out \in BOOLEAN : AddPin(<<"", 11, out>>)

\* What a list of pins asks for: each name leads to its pin, and a name that led to
\* one of the pins and is not given again leads nowhere.
Out(cfg) == "output" \in cfg

LostNames(names) ==
    {i[2] : i \in {i \in DOMAIN promise : i[1] = "name" /\ promise[i] # <<>>
                      /\ promise[i][1] \in {x[1] : x \in ToSet(names)}}}
    \ {x[3] : x \in ToSet(names)}

AskedFor(names, others) == AsFunction(AskedPins(names) \cup others)

AskedRight(w, n, names) ==
    /\ \A k \in 1..n : /\ <<"name", names[k][3]>> \in DOMAIN w
                       /\ w[<<"name", names[k][3]>>] = <<names[k][1], Out(names[k][2])>>
    /\ \A m \in LostNames(names) : <<"name", m>> \in DOMAIN w /\ w[<<"name", m>>] = <<>>
    /\ \A i \in DOMAIN w : i[1] = "name" =>
          \/ \E k \in 1..n : i = <<"name", names[k][3]>>
          \/ \E m \in LostNames(names) : i = <<"name", m>>

\* The promises once a program that ran to its end is counted.
MergedPromise == [i \in DOMAIN asked \cup DOMAIN promise |->
                    IF i \in DOMAIN asked THEN asked[i] ELSE promise[i]]

Serves(p, what) == \E W :
    /\ Does(p, W)
    /\ \A i \in DOMAIN what : i[1] = "name" \/ <<i, what[i]>> \in W
    /\ \A w \in W : w[1] \in DOMAIN what

StartsKept == \E p, what : Serve(p, what) /\ Serves(p, what)

\* A set-up of a pin of the test board: only the bits of its own pin, as the mode says.
ModeEnds(s, d, p, m) ==
    \A kind \in ModeKinds, e \in 0..1, q \in Byte :
        LET x == <<<<kind, e>>, q>>
        IN  IF e = d /\ q = p THEN ModeGoal(m, kind) = "any" \/ Ends(s, x, ModeGoal(m, kind))
            ELSE Ends(s, x, "keep")

BoardKinds == ModeKinds \cup {"PULLDOWN", "DAC"}

VoltsItems(settings, n) == {<<<<"mode", 1, x[1]>>, x[2]>> : x \in ToSet(settings)} \cup {<<<<"volts">>, n>>}
=============================================================================
