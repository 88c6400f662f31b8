------------------------------ MODULE Session ------------------------------
(***************************************************************************)
(* A session of pftool: the menu over a target, with the commands that     *)
(* drive its fast control, links, optical links and biases.  Commands are  *)
(* programs; between two of their operations the hardware goes on, and     *)
(* where one asks a question, the next word of the queue answers.          *)
(***************************************************************************)
EXTENDS FastControl, Menu, ELinks, TLC

CONSTANTS
    Scripts,    \* what the tool may be started with: <<board, words>>
    Numbers,    \* the numbers that are typed
    Roc,        \* chips of the target
    OptoName,   \* optical links, and
    BusName,    \* I2C buses it has
    Channels    \* channels of a board with a bias: 0..15 in the code

ASSUME SessionAssumption ==
    /\ IsFiniteSet(Link) /\ Link = 0..(Cardinality(Link) - 1)
    /\ IsFiniteSet(Roc) /\ Roc = 0..(Cardinality(Roc) - 1)
    /\ Numbers \subseteq Int
    /\ StandardDelay \in Int

VARIABLES
    running,   \* chips in run mode
    was,       \* run modes a command has put aside
    st,        \* the choices and switches the tool and the target keep
    synced,    \* a run was cleared since the counters were last cleared alone
    aligned    \* an alignment was finished; since then no link was set by hand, no chip set up

svars == <<fcvars, menuvars, linkvars, running, was, st, synced, aligned>>
own == <<running, was, st, synced, aligned>>

IsHcal == board # "smm"
HasOpto == board # "fiberless"
-----------------------------------------------------------------------------
(***************************************************************************)
(* The menus and their commands.                                           *)
(***************************************************************************)
Ask(p) == <<<<"ask", p>>>>
Do(x) == <<<<x>>>>

Menus == [ROOT |-> {"EXPERT", "DAQ", "OPTO", "BIAS"},
          EXPERT |-> {"I2C", "ELINKS", "FAST_CONTROL"},
          DAQ |-> {"DEBUG", "SETUP"},
          I2C |-> {}, ELINKS |-> {}, FAST_CONTROL |-> {}, DEBUG |-> {}, SETUP |-> {},
          OPTO |-> {}, BIAS |-> {}]

\* The run is set up between the questions; its loop is in DaqRun.
Run(shot) == Ask("run") \o Ask("events") \o Ask("rate") \o Do("empty") \o ClearRun
             \o Ask("filename") \o Ask("decode") \o Do("decode") \o shot \o Do("advance")

RootCommands == [LOG |-> Ask("level") \o Ask("log_channel")]

FastControlCommands ==
    [STATUS |-> Do("print"), SW_L1A |-> SendL1A, LINK_RESET |-> LinkresetRocs,
     BUFFER_CLEAR |-> Bufferclear, RUN_CLEAR |-> ClearRun,
     COUNTER_RESET |-> ResetCounters \o Do("print"),
     ORBIT_BLINKER |-> Ask("blinker") \o Ask("bx") \o Do("blinker"),
     CALIB |-> Ask("offset") \o Do("offset"), LED |-> Ask("offset") \o Do("print")]

ElinkCommands ==
    [SPY |-> Ask("elink") \o Do("choose_link"), HARD_RESET |-> Do("print"),
     SCAN |-> Ask("elink") \o Do("choose_link") \o Do("scan_link"),
     AUTO |-> Ask("proceed") \o Do("proceed"),
     BITSLIP |-> Ask("elink") \o Do("choose_link") \o Ask("bitslip") \o Do("set_slip"),
     DELAY |-> Ask("elink") \o Do("choose_link") \o Ask("phase") \o Do("set_phase")]

\* Without a bus that was chosen nothing more is asked.
I2cCommands == [BUS |-> Ask("bus") \o Do("choose_bus") \o Do("bus"),
                WRITE |-> Do("bus"), READ |-> Do("bus"),
                MULTIWRITE |-> Do("bus"), MULTIREAD |-> Do("bus")]

DaqCommands == [RESET |-> Do("empty"), LINK_ECON |-> LinkresetEcons,
                PEDESTAL |-> Run(SendL1A), CHARGE |-> Run(Chargepulse)]

DebugCommands == [ESPY |-> Ask("link") \o Do("data"), ADV |-> Do("advance"),
                  CLEAR |-> Do("clear"), SW_L1A |-> SendL1A, CHARGE_L1A |-> Chargepulse]

SetupCommands ==
    [ENABLE |-> Do("enable"), FORMAT |-> Do("format"),
     STANDARD |-> StandardSetup \o Do("standard"),
     L1APARAMS |-> Ask("link") \o Do("link")]

\* Every command of OPTO begins with the choice of a link if there is none.
Chosen == Do("choose") \o Do("opto")
OptoCommands == [CHOOSE |-> Ask("olink") \o Do("set_olink") \o Do("opto"),
                 FULLSTATUS |-> Chosen, RESET |-> Chosen, LINKTRICK |-> Chosen,
                 POLARITY |-> Chosen \o Ask("tx") \o Do("tx") \o Ask("rx") \o Do("rx")]

BiasBoard == Do("hcal") \o Ask("board_no") \o Do("bias_board")
BiasCommands == [INIT |-> BiasBoard, READ_TEMP |-> BiasBoard, STATUS |-> BiasBoard,
                 READ_SIPM |-> BiasBoard \o Ask("channel_no"),
                 SET_SIPM |-> BiasBoard \o Ask("channel_no") \o Ask("dac") \o Do("sipm")]

Program == [ROOT |-> RootCommands, EXPERT |-> <<>>, I2C |-> I2cCommands,
            ELINKS |-> ElinkCommands, FAST_CONTROL |-> FastControlCommands,
            DAQ |-> DaqCommands, DEBUG |-> DebugCommands, SETUP |-> SetupCommands,
            OPTO |-> OptoCommands, BIAS |-> BiasCommands]
Commands == [m \in DOMAIN Program |-> DOMAIN Program[m]]
-----------------------------------------------------------------------------
(***************************************************************************)
(* Questions: how an answer is read and what stands for a blank one.       *)
(***************************************************************************)
Texts == {"log_channel", "olink", "bus", "filename"}
YesNo == {"blinker", "proceed", "external", "axis", "tx", "rx", "decode"}
Counts == {"level", "bx", "offset", "elink", "phase", "bitslip", "run", "events", "rate", "link",
           "l1a_delay", "capture", "format", "address", "addrlen", "length", "value", "board_no", "channel_no", "dac"}
Prompts == {"request"} \cup Texts \cup YesNo \cup Counts

Yes(text) == text \in {"Y", "1", "-1", "text"}      \* any word with one of yY1tT in it
Value(text) == LET read == {n \in Numbers : ToString(n) = text}
               IN IF read = {} THEN 0 ELSE CHOOSE n \in read : TRUE
Number(p) == Value(ans[p])

Default(p) ==
    CASE p = "blinker" -> IF Mapped /\ ~fc.blinker THEN "Y" ELSE "N"
      [] p = "external" -> IF fc.ext THEN "Y" ELSE "N"
      [] p = "axis" -> IF st.axis THEN "Y" ELSE "N"
      [] p \in {"proceed", "tx", "rx"} -> "N"
      [] p = "decode" -> "Y"
      [] p = "olink" -> st.olink
      [] p = "bus" -> st.bus
      [] p = "elink" -> ToString(st.elink)
      [] p = "bitslip" -> ToString(IF Mapped THEN slip[st.elink] ELSE 0)
      [] p = "phase" -> ToString(IF board = "fiberless" THEN phase[st.elink] ELSE -1)
      [] p = "offset" -> ToString(fc.delay)
      [] p = "link" -> "-1"
      [] p = "capture" -> ToString(width[Number("link")])
      [] p = "channel_no" -> ans["board_no"]        \* the code offers the board here
      [] p = "format" -> ToString(st.format)
      [] p \in {"filename", "log_channel"} -> "name"
      [] OTHER -> "1"
-----------------------------------------------------------------------------
(***************************************************************************)
(* Operations that stand for what follows from the state and the answers.  *)
(***************************************************************************)
AlignLink(l) == (IF board = "fiberless" THEN <<<<"align_phase", l>>>> ELSE <<>>)
                \o (IF Mapped THEN <<<<"align_slip", l>>>> ELSE <<>>)
Align == Do("was") \o Do("hard_reset")
         \o [k \in 1..Cardinality(Link) |-> <<"align_link", k - 1>>]
         \o [k \in 1..Cardinality(Roc) |-> <<"run_mode", k - 1>>]

\* The toggle: what is asked depends on what the readout is at.
Toggle == IF st.on
          THEN FcEnables(FALSE) \o <<<<"readout", FALSE>>>>
          ELSE Ask("external") \o <<<<"readout", TRUE>>>> \o FcEnables(TRUE) \o Do("external")
               \o Ask("axis") \o Do("axis")

\* The fiberless target moves the L1A closer to the pulse, each time from where
\* the standard setup has put it, and sets up its chip and its links.
Standard == IF board = "fiberless"
            THEN <<<<"delay", fc.delay - 4>>, <<"standard_roc">>>>
                 \o [k \in 1..Cardinality(Link) |-> <<"setup_link", k - 1, IF k < 3 THEN 40 ELSE 4>>]
            ELSE <<<<"set_format", 2>>>>

\* Advance until empty, then reset; give up if the occupancy does not change.
Drain(last) == IF front.buf > 0 THEN Do("advance") \o <<<<"compare", last>>>> ELSE Do("empty")

\* As many bytes are asked for as were announced.
BusQuestions ==
    CASE cmd = "READ" -> <<>>
      [] cmd = "WRITE" -> Ask("value")
      [] OTHER -> Ask("addrlen") \o Do("addrlen") \o Ask("length")
                  \o IF cmd = "MULTIWRITE" THEN Do("bytes") ELSE <<>>

Unfolded(op) ==
    CASE op[1] = "blinker" -> IF Mapped THEN <<<<"blink", Yes(ans["blinker"])>>>> ELSE <<>>
      [] op[1] = "offset" -> <<<<"delay", Number("offset")>>>>
      [] op[1] = "proceed" -> IF Yes(ans["proceed"]) THEN Align ELSE <<>>
      [] op[1] = "align_link" -> AlignLink(op[2])
      [] op[1] = "set_phase" -> IF board = "fiberless" THEN Do("phase") ELSE <<>>
      [] op[1] = "scan_link" -> IF board = "fiberless" THEN Do("scan") ELSE <<>>
      [] op[1] = "set_slip" -> IF Mapped THEN Do("bitslip") ELSE <<>>
      [] op[1] = "enable" -> Toggle
      [] op[1] = "standard" -> Standard
      [] op[1] = "format" -> IF board = "fiberless" THEN Ask("format") \o Do("pick_format") ELSE <<<<"set_format", 2>>>>
      [] op[1] = "pick_format" -> IF Number("format") \in 1..2 THEN <<<<"set_format", Number("format")>>>> ELSE Do("throw")
      [] op[1] = "link" -> IF Number("link") < 0 THEN <<>> ELSE Ask("l1a_delay") \o Ask("capture") \o Do("capture")
      [] op[1] = "capture" -> IF board = "fiberless" THEN <<<<"setup_link", Number("link"), Number("capture")>>>> ELSE <<>>
      [] op[1] = "clear" -> <<<<"drain", front.buf>>>>
      [] op[1] = "drain" -> Drain(op[2])
      [] op[1] = "compare" -> IF op[2] = front.buf THEN Do("throw") ELSE Do("clear")
      [] op[1] = "choose" -> IF st.olink = "" THEN Ask("olink") \o Do("set_olink") ELSE <<>>
      [] op[1] = "opto" -> IF HasOpto /\ st.olink \in OptoName THEN <<>> ELSE Do("throw")
      [] op[1] = "choose_bus" -> Do("set_bus") \o Do("known_bus")
      [] op[1] = "known_bus" -> IF st.bus = "" \/ st.bus \in BusName THEN <<>> ELSE Do("throw")
      [] op[1] = "bus" -> IF st.bus = "" \/ cmd = "BUS" THEN <<>> ELSE Do("known_bus") \o Ask("address") \o BusQuestions
      [] op[1] = "addrlen" -> IF Number("addrlen") > 0 THEN Ask("value") ELSE <<>>
      [] op[1] = "bytes" -> [k \in 1..Number("length") |-> <<"ask", "value">>]
      [] op[1] = "hcal" -> IF IsHcal THEN <<>> ELSE Do("throw")
      [] op[1] = "bias_board" -> IF Number("board_no") \in Roc THEN <<>> ELSE Do("throw")
      [] op[1] = "decode" -> IF Yes(ans["decode"]) /\ board = "fiberless" /\ st.format = 2 THEN Do("throw") ELSE <<>>
      [] op[1] = "data" -> IF board = "fiberless" THEN Do("get_data") ELSE <<>>

Unfolding == {"blinker", "offset", "proceed", "align_link", "set_phase", "scan_link", "set_slip",
              "enable", "standard", "format", "pick_format", "link", "capture", "clear", "drain", "compare",
              "choose", "opto", "choose_bus", "known_bus", "bus", "addrlen", "bytes",
              "hcal", "bias_board", "data", "decode"}

Unfold ==
    /\ prog # <<>> /\ Head(prog)[1] \in Unfolding
    /\ prog' = Unfolded(Head(prog)) \o Tail(prog)
    /\ UNCHANGED <<fcvars, linkvars, own, queue, path, cmd, ans, lines>>
-----------------------------------------------------------------------------
(***************************************************************************)
(* Operations on the target and on what the tool keeps.                    *)
(***************************************************************************)
\* A bias channel: one bit picks the converter, three the channel in it.
Channel(n) == IF n > 7 THEN 8 + (n % 8) ELSE n % 8

Settings(op) ==
    CASE op[1] = "readout" -> [st EXCEPT !.on = op[2]]
      [] op[1] = "axis" -> [st EXCEPT !.axis = IF Mapped THEN @ ELSE Yes(ans["axis"])]
      [] op[1] = "choose_link" -> [st EXCEPT !.elink = Number("elink")]
      [] op[1] = "set_format" -> [st EXCEPT !.format = op[2]]
      [] op[1] = "set_olink" -> [st EXCEPT !.olink = ans["olink"]]
      [] op[1] = "set_bus" -> [st EXCEPT !.bus = ans["bus"]]
      [] op[1] = "tx" -> [st EXCEPT !.tx = IF Yes(ans["tx"]) THEN ~@ ELSE @]
      [] op[1] = "rx" -> [st EXCEPT !.rx = IF Yes(ans["rx"]) THEN ~st.tx ELSE @]   \* sic
      [] op[1] = "sipm" -> [st EXCEPT !.sipm = [c \in Channels |->
                IF Number("channel_no") = -1 \/ c = Channel(Number("channel_no")) THEN Number("dac") ELSE @[c]]]
Switches == {"readout", "axis", "choose_link", "set_format", "set_olink", "set_bus", "tx", "rx", "sipm"}

OnTool(op) ==
    \/ /\ op[1] \in Switches
       /\ st' = Settings(op)
       /\ UNCHANGED <<running, was>>
    \/ /\ op[1] = "was"
       /\ was' = running
       /\ UNCHANGED <<running, st>>
    \/ /\ op[1] = "hard_reset"
       /\ running' = [r \in Roc |-> FALSE]
       /\ UNCHANGED <<was, st>>
    \/ /\ op[1] = "run_mode"
       /\ running' = [running EXCEPT ![op[2]] = was[op[2]]]
       /\ UNCHANGED <<was, st>>
    \/ /\ op[1] = "standard_roc"
       /\ running' = [running EXCEPT ![0] = TRUE]
       /\ UNCHANGED <<was, st>>
    \/ /\ op[1] = "print"
       /\ UNCHANGED <<running, was, st>>

\* Only the capture of the fiberless target has a phase; the bitslips of the
\* other fast control's target are in its ECONs.
OnLinks(op) ==
    \/ op[1] = "align_phase" /\ AlignPhase(op[2])
    \/ op[1] = "align_slip" /\ AlignSlip(op[2])
    \/ op[1] = "scan" /\ ScanPhase(st.elink)
    \/ /\ op[1] = "phase"
       /\ SetAlignPhase(st.elink, Number("phase"))
       /\ UNCHANGED <<slip, eye, lock, width, cache>>
    \/ /\ op[1] = "bitslip"
       /\ slip' = [l \in Link |-> IF st.elink < 0 \/ l = st.elink
                                 THEN Number("bitslip") % (MaxSlip + 1) ELSE slip[l]]
       /\ UNCHANGED <<phase, eye, lock, width, cache>>
    \/ op[1] = "setup_link" /\ SetupLink(op[2], op[3])
    \/ op[1] = "get_data" /\ GetLinkData

\* Reading the buffer, and the trigger source of the other fast control.
OnReadout(op) ==
    \/ /\ op[1] = "advance"
       /\ front' = [front EXCEPT !.buf = IF @ > 0 THEN @ - 1 ELSE 0]
       /\ UNCHANGED fc
    \/ /\ op[1] = "empty"
       /\ front' = [front EXCEPT !.buf = 0]
       /\ UNCHANGED fc
    \/ /\ op[1] = "external"
       /\ fc' = [fc EXCEPT !.ext = ~Mapped /\ Yes(ans["external"])]
       /\ UNCHANGED front

Calm == Mapped \/ ~fc.l1a \/ ~fc.ext

\* What a command leaves behind when it comes to its end.
Ended(ended) ==
    /\ synced' = (synced \/ (ended /\ cmd \in {"RUN_CLEAR", "PEDESTAL", "CHARGE"} /\ Calm))
    /\ aligned' = (aligned \/ (ended /\ cmd = "AUTO" /\ Mapped /\ Yes(ans["proceed"])))

Work ==
    /\ prog # <<>>
    /\ prog' = Tail(prog)
    /\ LET op == Head(prog)
       IN \/ FcOperation(op) /\ UNCHANGED <<board, linkvars, running, was, st>>
          \/ OnTool(op) /\ UNCHANGED <<fcvars, linkvars>>
          \/ OnLinks(op) /\ UNCHANGED <<fcvars, running, was, st>>
          \/ OnReadout(op) /\ UNCHANGED <<board, saved, word, linkvars, running, was, st>>
    /\ Ended(prog' = <<>>)
    /\ UNCHANGED <<queue, path, cmd, ans, lines>>

\* A command throws: because it says so, or because a chip does not answer.
Throw ==
    /\ prog # <<>>
    /\ Head(prog)[1] \in {"throw", "was", "run_mode", "standard_roc"}
    /\ Abandon
    /\ UNCHANGED <<fcvars, linkvars, own, queue, path, cmd, ans, lines>>
-----------------------------------------------------------------------------
Start ==
    /\ StartCommand(Commands, Program)
    /\ synced' = (synced /\ cmd' \notin {"COUNTER_RESET", "RUN_CLEAR", "PEDESTAL", "CHARGE"})
    /\ aligned' = (aligned /\ cmd' \notin {"AUTO", "BITSLIP", "DELAY", "SCAN", "STANDARD"})
    /\ UNCHANGED <<fcvars, linkvars, running, was, st>>

Operator ==
    /\ \/ EnterMenu(Menus)
       \/ LeaveMenu
       \/ StayInMenu(Menus, Commands)
       \/ \E p \in Prompts \ {"request"} : Waiting(p) /\ Answer(p, Default(p), p \in Counts)
       \/ TypeLine(Prompts)
       \/ EndOfInput(Prompts)
    /\ UNCHANGED <<fcvars, linkvars, own>>

\* The lines of the script are the first words, but for those of a comment.
IsInput(line) == line.text # "#"
Started == \E s \in Scripts : board = s[1] /\ queue = SelectSeq(s[2], IsInput)

Init ==
    /\ FcInit /\ MenuInit /\ LinkInit
    /\ Started
    /\ running \in [Roc -> BOOLEAN]
    /\ was = running
    /\ \E on \in BOOLEAN :
          st = [on |-> on, axis |-> FALSE, elink |-> 0, olink |-> "", bus |-> "",
                format |-> IF board = "fiberless" THEN 1 ELSE 2, tx |-> FALSE, rx |-> FALSE,
                sipm |-> [c \in Channels |-> 0]]
    /\ synced = FALSE /\ aligned = FALSE

Tool == Start \/ Operator \/ Unfold \/ Work \/ Throw
Next == \/ Tool
        \/ Hardware /\ UNCHANGED <<menuvars, linkvars, own>>

Spec == Init /\ [][Next]_svars
-----------------------------------------------------------------------------
(***************************************************************************)
(* Properties.                                                             *)
(***************************************************************************)
\* After a run was cleared the triggers the block has counted are those the
\* chips have numbered, however the triggers fall between the accesses of the
\* nested calls of clear_run (FastControlCMS_MMap.cxx:323), and with requests
\* that are sent later than they are written.  On the other block, which does
\* not stop its triggers, only if none could come.
Numbered == synced => front.count = front.number

\* The scanned point at or below a phase, and the points without mismatch
\* around it without a gap.
Below(p) == Max({r \in Phases : r <= p})
Around(p, good) == {q \in good : \A r \in Phases :
                        (q <= r /\ r <= Below(p)) \/ (Below(p) <= r /\ r <= q) => r \in good}

\* No window without mismatch exceeds the one a phase is in, and it is not at
\* the edge of one of three points or more.
Centred(p, good) ==
    LET mine == Around(p, good)
    IN /\ mine # {}
       /\ \A q \in good : Cardinality(Around(q, good)) <= Cardinality(mine)
       /\ Cardinality(mine) > 2 => {Below(p) - Step, Below(p) + Step} \subseteq mine

\* When the links were aligned each is set inside a window without mismatch that
\* no other exceeds, and not at the edge of a window of three points or more;
\* its bitslip shows the pattern if one does; and the chips are in run mode as
\* before the reset (expert.cxx:149, Elinks.cxx:27).
Aligned == aligned =>
    /\ running = was
    /\ \A l \in Link : /\ eye[l] # {} => Centred(phase[l], eye[l])
                       /\ lock[l] >= 0 => slip[l] = lock[l]

\* The number of words that are read of a link is the width its register has,
\* whoever set it and however often (HGCROCBoardFiberless.cxx:112); the copy
\* keeps what the register cannot hold.
WidthTrue == cache # <<>> => \A l \in Link : cache[l] % WidthMax = width[l]
=============================================================================
