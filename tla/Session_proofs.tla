--------------------------- MODULE Session_proofs ---------------------------
(***************************************************************************)
(* Proofs about Session: that as many words are read of a link as its      *)
(* capture is wide, that the triggers the block has counted since a run    *)
(* was cleared are those the chips have numbered, and that an alignment    *)
(* leaves every link inside its widest window and every chip as it was.    *)
(***************************************************************************)
EXTENDS Session, SequenceTheorems, FiniteSetTheorems, WellFoundedInduction, TLAPS

-----------------------------------------------------------------------------
(***************************************************************************)
(* The width of the capture of a link.                                     *)
(***************************************************************************)

\* The widths that are kept, or those found while none are, agree with the
\* registers as far as a register can hold them.
WidthInv ==
    /\ DOMAIN width = Link /\ (cache # << >> => DOMAIN cache = Link)
    /\ \A l \in Link : Filled[l] % WidthMax = width[l]

LEMMA SmallWidth == 1 % WidthMax = 1 /\ 4 % WidthMax = 4
  BY WidthAssumption

LEMMA WidthInit == Init => WidthInv
<1> SUFFICES ASSUME Init PROVE WidthInv
  OBVIOUS
<1>1. width \in [Link -> {1, 4}] /\ cache = << >>
  BY DEF Init, LinkInit
<1>2. QED
  BY <1>1, SmallWidth DEF WidthInv, Filled

\* Every command but setupLink and getLinkData leaves both alone.
LEMMA WidthStep == WidthInv /\ [Next]_svars => WidthInv'
<1> SUFFICES ASSUME WidthInv, [Next]_svars PROVE WidthInv'
  OBVIOUS
<1>1. CASE UNCHANGED <<width, cache>>
  BY <1>1 DEF WidthInv, Filled
<1>2. CASE Work
  <2>1. PICK op : \/ UNCHANGED linkvars
                  \/ OnLinks(op)
    BY <1>2 DEF Work
  <2>2. CASE UNCHANGED linkvars
    BY <1>1, <2>2 DEF linkvars
  <2>3. ASSUME NEW l, NEW w, SetupLink(l, w) PROVE WidthInv'
    <3>1. cache' = [Filled EXCEPT ![l] = w] /\ width' = [width EXCEPT ![l] = w % WidthMax]
      BY <2>3 DEF SetupLink
    <3>2. DOMAIN Filled = Link /\ DOMAIN width = Link
      BY DEF WidthInv, Filled
    <3>3. DOMAIN cache' = Link /\ DOMAIN width' = Link
      BY <3>1, <3>2
    <3>4. \A k \in Link : cache'[k] % WidthMax = width'[k]
      BY <3>1, <3>2 DEF WidthInv
    <3>5. Filled' = IF cache' = << >> THEN width' ELSE cache'
      BY DEF Filled
    <3>6. CASE cache' = << >>
      <4>1. Link = {}
        BY <3>3, <3>6
      <4>2. QED
        BY <3>3, <4>1 DEF WidthInv
    <3>7. QED
      BY <3>3, <3>4, <3>5, <3>6 DEF WidthInv
  <2>4. CASE GetLinkData
    <3>1. cache' = Filled /\ width' = width
      BY <2>4 DEF GetLinkData
    <3>2. Filled' = Filled
      BY <3>1 DEF Filled
    <3>3. DOMAIN Filled = Link
      BY DEF WidthInv, Filled
    <3>4. QED
      BY <3>1, <3>2, <3>3 DEF WidthInv
  <2>5. CASE OnLinks(op)
    <3>1. \/ UNCHANGED <<width, cache>>
          \/ SetupLink(op[2], op[3])
          \/ GetLinkData
      BY <2>5 DEF OnLinks, AlignPhase, AlignSlip, ScanPhase, SetAlignPhase
    <3>2. QED
      BY <1>1, <2>3, <2>4, <3>1
  <2>6. QED
    BY <2>1, <2>2, <2>5
<1>3. CASE Start \/ Operator \/ Unfold \/ Throw
  BY <1>1, <1>3 DEF Start, Operator, Unfold, Throw, linkvars
<1>4. CASE Hardware /\ UNCHANGED <<menuvars, linkvars, own>>
  BY <1>1, <1>4 DEF linkvars
<1>5. CASE UNCHANGED svars
  BY <1>1, <1>5 DEF svars, linkvars
<1>6. QED
  BY <1>2, <1>3, <1>4, <1>5 DEF Next, Tool

\* The number of words that are read of a link is the width its register has,
\* for any links and widths (HGCROCBoardFiberless::setupLink, getLinkData).
THEOREM WidthCorrect == Spec => []WidthTrue
<1>1. WidthInv => WidthTrue
  BY DEF WidthInv, WidthTrue, Filled
<1>2. QED
  BY <1>1, WidthInit, WidthStep, PTL DEF Spec

-----------------------------------------------------------------------------
(***************************************************************************)
(* The operations of the commands.  Only four commands reset the count of  *)
(* the block or the number of the chips: the others are quiet.             *)
(***************************************************************************)
Counting == {"count_rst", "ecr"}
Flagged == {"blink", "enables", "readout"}
Counted == {"delay", "set_format", "drain", "compare", "align_slip", "align_link", "run_mode"}
Bare == {"read", "save", "mask", "restore", "sleep", "follow", "trigger"}
        \cup {"advance", "empty", "print", "throw", "was", "hard_reset", "standard_roc", "external"}
        \cup {"axis", "choose_link", "set_olink", "set_bus", "tx", "rx", "sipm"}
        \cup {"bitslip", "get_data"} \cup (Unfolding \ Counted)

Asks == {"ask"} \X Prompts
Words == {<<x>> : x \in Bare}
Sends(S) == {IF Mapped THEN "write" ELSE "pulse"} \X S
Fires == IF Mapped THEN {"fire"} \X {"pedestal", "charge"} ELSE {}
Phasing == IF board = "fiberless" THEN {<<"phase">>, <<"scan">>} \cup ({"align_phase"} \X Int) ELSE {}

Quiet == Asks \cup Words \cup Sends(Resets \ Counting) \cup Fires \cup Phasing
         \cup (Flagged \X BOOLEAN) \cup (Counted \X Int) \cup ({"setup_link"} \X Int \X Int)
Operation == Quiet \cup Sends(Counting)

\* The operations that set a link or a chip, or unfold to such, and the commands
\* that have them; all other quiet operations are plain.
Handling == {"was", "hard_reset", "run_mode", "standard_roc", "phase", "bitslip", "scan", "align_phase",
             "align_slip", "align_link", "proceed", "standard", "set_phase", "set_slip", "scan_link"}
Handled == {"AUTO", "BITSLIP", "DELAY", "SCAN", "STANDARD"}
Plain == {op \in Quiet : op[1] \notin Handling}
Unhandled == {op \in Operation : op[1] \notin Handling}

LEMMA AskPlain == \A p \in Prompts : Ask(p) \in Seq(Plain)
<1> SUFFICES ASSUME NEW p \in Prompts PROVE <<<<"ask", p>>>> \in Seq(Plain)
  BY DEF Ask
<1>1. <<"ask", p>> \in Plain
  BY DEF Plain, Quiet, Handling, Asks
<1>2. QED
  BY <1>1

LEMMA DoPlain == \A x \in Bare \ Handling : Do(x) \in Seq(Plain)
<1> SUFFICES ASSUME NEW x \in Bare \ Handling PROVE <<<<x>>>> \in Seq(Plain)
  BY DEF Do
<1>1. <<x>> \in Plain
  BY DEF Plain, Quiet, Handling, Words
<1>2. QED
  BY <1>1

LEMMA PlainQuiet == \A s \in Seq(Plain) : s \in Seq(Quiet)
<1>1. Plain \subseteq Quiet
  BY DEF Plain
<1>2. QED
  BY <1>1

LEMMA ConcatPlain == \A s, t \in Seq(Plain) : s \o t \in Seq(Plain)
  OBVIOUS

LEMMA FlagPlain == \A x \in Flagged : \A b \in BOOLEAN : <<<<x, b>>>> \in Seq(Plain)
<1> SUFFICES ASSUME NEW x \in Flagged, NEW b \in BOOLEAN PROVE <<<<x, b>>>> \in Seq(Plain)
  OBVIOUS
<1>1. <<x, b>> \in Plain
  BY DEF Plain, Quiet, Handling, Flagged
<1>2. QED
  BY <1>1

LEMMA CountPlain == \A x \in Counted \ Handling : \A n \in Int : <<<<x, n>>>> \in Seq(Plain)
<1> SUFFICES ASSUME NEW x \in Counted \ Handling, NEW n \in Int PROVE <<<<x, n>>>> \in Seq(Plain)
  OBVIOUS
<1>1. <<x, n>> \in Plain
  BY DEF Plain, Quiet, Handling
<1>2. QED
  BY <1>1

LEMMA LinkPlain == \A l, w \in Int : <<<<"setup_link", l, w>>>> \in Seq(Plain)
<1> SUFFICES ASSUME NEW l \in Int, NEW w \in Int PROVE <<<<"setup_link", l, w>>>> \in Seq(Plain)
  OBVIOUS
<1>1. <<"setup_link", l, w>> \in Plain
  BY DEF Plain, Quiet, Handling
<1>2. QED
  BY <1>1

LEMMA FirePlain == Mapped => \A p \in {"pedestal", "charge"} : <<<<"fire", p>>>> \in Seq(Plain)
<1> SUFFICES ASSUME Mapped, NEW p \in {"pedestal", "charge"} PROVE <<<<"fire", p>>>> \in Seq(Plain)
  OBVIOUS
<1>1. <<"fire", p>> \in Plain
  BY DEF Plain, Quiet, Handling, Fires
<1>2. QED
  BY <1>1

\* A request, or a pulse, of a reset that is not counted.
LEMMA SendPlain ==
  /\ Mapped => \A r \in Resets \ Counting : Request(r) \in Seq(Plain)
  /\ ~Mapped => \A r \in Resets \ Counting : Pulse(r) \in Seq(Plain)
<1>1. ASSUME Mapped, NEW r \in Resets \ Counting PROVE Request(r) \in Seq(Plain)
  <2>1. <<"read">> \in Plain
    BY DEF Plain, Quiet, Handling, Words, Bare, Flagged, Counted
  <2>2. <<"write", r>> \in Plain
    BY <1>1 DEF Plain, Quiet, Handling, Sends
  <2>3. QED
    BY <2>1, <2>2 DEF Request
<1>2. ASSUME ~Mapped, NEW r \in Resets \ Counting PROVE Pulse(r) \in Seq(Plain)
  <2>1. <<"pulse", r>> \in Plain
    BY <1>2 DEF Plain, Quiet, Handling, Sends
  <2>2. QED
    BY <2>1 DEF Pulse
<1>3. QED
  BY <1>1, <1>2

\* What is not plain is quiet all the same.
LEMMA DoQuiet == \A x \in Bare : Do(x) \in Seq(Quiet)
<1> SUFFICES ASSUME NEW x \in Bare PROVE <<<<x>>>> \in Seq(Quiet)
  BY DEF Do
<1>1. <<x>> \in Quiet
  BY DEF Quiet, Words
<1>2. QED
  BY <1>1

LEMMA ConcatQuiet == \A s, t \in Seq(Quiet) : s \o t \in Seq(Quiet)
  OBVIOUS

LEMMA QuietlyPlain == \A s \in Seq(Plain) : Quietly(s) \in Seq(Plain)
<1>1. <<"save">> \in Plain /\ <<"mask">> \in Plain /\ <<"restore">> \in Plain
  BY DEF Plain, Quiet, Handling, Words, Bare, Flagged, Counted
<1>2. <<<<"save">>, <<"mask">>>> \in Seq(Plain) /\ <<<<"restore">>>> \in Seq(Plain)
  BY <1>1
<1>3. QED
  BY <1>2, ConcatPlain DEF Quietly

LEMMA CallsPlain ==
  /\ LinkresetRocs \in Seq(Plain) /\ LinkresetEcons \in Seq(Plain) /\ Bufferclear \in Seq(Plain)
  /\ SendL1A \in Seq(Plain) /\ Chargepulse \in Seq(Plain)
  /\ StandardSetup \in Seq(Plain) /\ \A on \in BOOLEAN : FcEnables(on) \in Seq(Plain)
<1>1. {"roct", "rocd", "econd", "econt", "ebr"} \subseteq Resets \ Counting
  BY DEF Resets, Counting
<1>2. Sleep \in Seq(Plain)
  <2>1. <<"sleep">> \in Plain
    BY DEF Plain, Quiet, Handling, Words, Bare, Flagged, Counted
  <2>2. QED
    BY <2>1 DEF Sleep
<1>3. <<>> \in Seq(Plain)
  OBVIOUS
<1>4. LinkresetRocs \in Seq(Plain)
  <2>1. CASE Mapped
    <3>1. Request("roct") \o Request("rocd") \in Seq(Plain)
      BY <1>1, <2>1, SendPlain, ConcatPlain
    <3>2. QED
      BY <2>1, <3>1, QuietlyPlain DEF LinkresetRocs
  <2>2. CASE ~Mapped
    <3>1. Pulse("rocd") \o Pulse("roct") \in Seq(Plain)
      BY <1>1, <2>2, SendPlain, ConcatPlain
    <3>2. QED
      BY <2>2, <3>1, QuietlyPlain DEF LinkresetRocs
  <2>3. QED
    BY <2>1, <2>2
<1>5. LinkresetEcons \in Seq(Plain)
  <2>1. CASE Mapped
    <3>1. Request("econd") \o Sleep \o Request("econt") \in Seq(Plain)
      BY <1>1, <1>2, <2>1, SendPlain, ConcatPlain
    <3>2. QED
      BY <2>1, <3>1, QuietlyPlain DEF LinkresetEcons
  <2>2. CASE ~Mapped
    <3>1. Pulse("econd") \o Pulse("econt") \in Seq(Plain)
      BY <1>1, <2>2, SendPlain, ConcatPlain
    <3>2. QED
      BY <2>2, <3>1, QuietlyPlain DEF LinkresetEcons
  <2>3. QED
    BY <2>1, <2>2
<1>6. Bufferclear \in Seq(Plain)
  BY <1>1, SendPlain, QuietlyPlain DEF Bufferclear
<1>7. SendL1A \in Seq(Plain) /\ Chargepulse \in Seq(Plain)
  <2>1. <<"trigger">> \in Plain
    BY DEF Plain, Quiet, Handling, Words, Bare, Flagged, Counted
  <2>2. <<<<"trigger">>>> \in Seq(Plain)
    BY <2>1
  <2>3. QED
    BY <2>2, FirePlain DEF SendL1A, Chargepulse
<1>8. StandardSetup \in Seq(Plain)
  <2>1. <<"follow">> \in Plain /\ <<"blink", FALSE>> \in Plain /\ <<"enables", TRUE>> \in Plain
    BY DEF Plain, Quiet, Handling, Words, Bare, Flagged, Counted
  <2>2. <<"delay", StandardDelay>> \in Plain
    BY SessionAssumption DEF Plain, Quiet, Handling, Counted
  <2>3. QED
    BY <1>3, <2>1, <2>2 DEF StandardSetup
<1>9. \A on \in BOOLEAN : FcEnables(on) \in Seq(Plain)
  BY <1>3, FlagPlain DEF FcEnables, Flagged
<1>10. QED
  BY <1>4, <1>5, <1>6, <1>7, <1>8, <1>9

-----------------------------------------------------------------------------
(***************************************************************************)
(* The commands of the menus, but for those that reset.                    *)
(***************************************************************************)
Clearing == {"RUN_CLEAR", "PEDESTAL", "CHARGE"}
Resetting == Clearing \cup {"COUNTER_RESET"}

LEMMA RootPlain == \A c \in DOMAIN RootCommands : RootCommands[c] \in Seq(Plain) /\ c \notin Resetting
<1> USE DEF Prompts, Texts, YesNo, Counts
<1>1. RootCommands.LOG \in Seq(Plain)
  BY AskPlain, ConcatPlain DEF RootCommands
<1>2. QED
  BY <1>1 DEF RootCommands, Resetting, Clearing

LEMMA FastControlPlain ==
  \A c \in DOMAIN FastControlCommands \ {"RUN_CLEAR", "COUNTER_RESET"} :
      FastControlCommands[c] \in Seq(Plain) /\ c \notin Resetting
<1> USE DEF Bare, Unfolding, Counted, Handling, Prompts, Texts, YesNo, Counts
<1>1. FastControlCommands.STATUS \in Seq(Plain)
  BY DoPlain DEF FastControlCommands
<1>2. FastControlCommands.SW_L1A \in Seq(Plain)
  BY CallsPlain DEF FastControlCommands
<1>3. FastControlCommands.LINK_RESET \in Seq(Plain)
  BY CallsPlain DEF FastControlCommands
<1>4. FastControlCommands.BUFFER_CLEAR \in Seq(Plain)
  BY CallsPlain DEF FastControlCommands
<1>5. FastControlCommands.ORBIT_BLINKER \in Seq(Plain)
  BY AskPlain, DoPlain, ConcatPlain DEF FastControlCommands
<1>6. FastControlCommands.CALIB \in Seq(Plain)
  BY AskPlain, DoPlain, ConcatPlain DEF FastControlCommands
<1>7. FastControlCommands.LED \in Seq(Plain)
  BY AskPlain, DoPlain, ConcatPlain DEF FastControlCommands
<1>8. DOMAIN FastControlCommands
      = {"STATUS", "SW_L1A", "LINK_RESET", "BUFFER_CLEAR", "RUN_CLEAR", "COUNTER_RESET",
         "ORBIT_BLINKER", "CALIB", "LED"}
  BY DEF FastControlCommands
<1>9. QED
  BY <1>1, <1>2, <1>3, <1>4, <1>5, <1>6, <1>7, <1>8 DEF Resetting, Clearing

LEMMA ElinkPlain ==
  \A c \in DOMAIN ElinkCommands :
      /\ c \notin Resetting /\ ElinkCommands[c] \in Seq(Quiet)
      /\ c \notin Handled => ElinkCommands[c] \in Seq(Plain)
<1> USE DEF Bare, Unfolding, Counted, Handling, Prompts, Texts, YesNo, Counts
<1>1. ElinkCommands.SPY \in Seq(Plain)
  BY AskPlain, DoPlain, ConcatPlain DEF ElinkCommands
<1>2. ElinkCommands.HARD_RESET \in Seq(Plain)
  BY DoPlain DEF ElinkCommands
<1>a. Ask("elink") \o Do("choose_link") \in Seq(Quiet) /\ Ask("bitslip") \in Seq(Quiet) /\ Ask("phase") \in Seq(Quiet)
  BY AskPlain, DoPlain, ConcatPlain, PlainQuiet
<1>b. Ask("proceed") \in Seq(Quiet)
  BY AskPlain, PlainQuiet
<1>3. ElinkCommands.SCAN \in Seq(Quiet)
  BY <1>a, DoQuiet, ConcatQuiet DEF ElinkCommands
<1>4. ElinkCommands.AUTO \in Seq(Quiet)
  BY <1>b, DoQuiet, ConcatQuiet DEF ElinkCommands
<1>5. ElinkCommands.BITSLIP \in Seq(Quiet)
  BY <1>a, DoQuiet, ConcatQuiet DEF ElinkCommands
<1>6. ElinkCommands.DELAY \in Seq(Quiet)
  BY <1>a, DoQuiet, ConcatQuiet DEF ElinkCommands
<1>7. DOMAIN ElinkCommands = {"SPY", "HARD_RESET", "SCAN", "AUTO", "BITSLIP", "DELAY"}
  BY DEF ElinkCommands
<1>8. QED
  BY <1>1, <1>2, <1>3, <1>4, <1>5, <1>6, <1>7, PlainQuiet DEF Resetting, Clearing, Handled

LEMMA I2cPlain ==
  \A c \in DOMAIN I2cCommands : I2cCommands[c] \in Seq(Plain) /\ c \notin Resetting
<1> USE DEF Bare, Unfolding, Counted, Handling, Prompts, Texts, YesNo, Counts
<1>1. I2cCommands.BUS \in Seq(Plain)
  BY AskPlain, DoPlain, ConcatPlain DEF I2cCommands
<1>2. I2cCommands.WRITE \in Seq(Plain)
  BY AskPlain, DoPlain, ConcatPlain DEF I2cCommands
<1>3. I2cCommands.READ \in Seq(Plain)
  BY AskPlain, DoPlain, ConcatPlain DEF I2cCommands
<1>4. I2cCommands.MULTIWRITE \in Seq(Plain)
  BY AskPlain, DoPlain, ConcatPlain DEF I2cCommands
<1>5. I2cCommands.MULTIREAD \in Seq(Plain)
  BY AskPlain, DoPlain, ConcatPlain DEF I2cCommands
<1>6. DOMAIN I2cCommands = {"BUS", "WRITE", "READ", "MULTIWRITE", "MULTIREAD"}
  BY DEF I2cCommands
<1>7. QED
  BY <1>1, <1>2, <1>3, <1>4, <1>5, <1>6 DEF Resetting, Clearing

LEMMA DaqPlain ==
  \A c \in DOMAIN DaqCommands \ {"PEDESTAL", "CHARGE"} : DaqCommands[c] \in Seq(Plain) /\ c \notin Resetting
<1> USE DEF Bare, Unfolding, Counted, Handling, Prompts, Texts, YesNo, Counts
<1>1. DaqCommands.RESET \in Seq(Plain)
  BY AskPlain, DoPlain, ConcatPlain DEF DaqCommands
<1>2. DaqCommands.LINK_ECON \in Seq(Plain)
  BY CallsPlain, AskPlain, DoPlain, ConcatPlain DEF DaqCommands
<1>3. DOMAIN DaqCommands = {"RESET", "LINK_ECON", "PEDESTAL", "CHARGE"}
  BY DEF DaqCommands
<1>4. QED
  BY <1>1, <1>2, <1>3 DEF Resetting, Clearing

LEMMA DebugPlain ==
  \A c \in DOMAIN DebugCommands : DebugCommands[c] \in Seq(Plain) /\ c \notin Resetting
<1> USE DEF Bare, Unfolding, Counted, Handling, Prompts, Texts, YesNo, Counts
<1>1. DebugCommands.ESPY \in Seq(Plain)
  BY AskPlain, DoPlain, ConcatPlain DEF DebugCommands
<1>2. DebugCommands.ADV \in Seq(Plain)
  BY AskPlain, DoPlain, ConcatPlain DEF DebugCommands
<1>3. DebugCommands.CLEAR \in Seq(Plain)
  BY AskPlain, DoPlain, ConcatPlain DEF DebugCommands
<1>4. DebugCommands.SW_L1A \in Seq(Plain)
  BY CallsPlain, AskPlain, DoPlain, ConcatPlain DEF DebugCommands
<1>5. DebugCommands.CHARGE_L1A \in Seq(Plain)
  BY CallsPlain, AskPlain, DoPlain, ConcatPlain DEF DebugCommands
<1>6. DOMAIN DebugCommands = {"ESPY", "ADV", "CLEAR", "SW_L1A", "CHARGE_L1A"}
  BY DEF DebugCommands
<1>7. QED
  BY <1>1, <1>2, <1>3, <1>4, <1>5, <1>6 DEF Resetting, Clearing

LEMMA SetupPlain ==
  \A c \in DOMAIN SetupCommands :
      /\ c \notin Resetting /\ SetupCommands[c] \in Seq(Quiet)
      /\ c \notin Handled => SetupCommands[c] \in Seq(Plain)
<1> USE DEF Bare, Unfolding, Counted, Handling, Prompts, Texts, YesNo, Counts
<1>1. SetupCommands.ENABLE \in Seq(Plain)
  BY AskPlain, DoPlain, ConcatPlain DEF SetupCommands
<1>2. SetupCommands.FORMAT \in Seq(Plain)
  BY AskPlain, DoPlain, ConcatPlain DEF SetupCommands
<1>3. SetupCommands.STANDARD \in Seq(Quiet)
  BY CallsPlain, PlainQuiet, DoQuiet, ConcatQuiet DEF SetupCommands
<1>4. SetupCommands.L1APARAMS \in Seq(Plain)
  BY AskPlain, DoPlain, ConcatPlain DEF SetupCommands
<1>5. DOMAIN SetupCommands = {"ENABLE", "FORMAT", "STANDARD", "L1APARAMS"}
  BY DEF SetupCommands
<1>6. QED
  BY <1>1, <1>2, <1>3, <1>4, <1>5, PlainQuiet DEF Resetting, Clearing, Handled

LEMMA OptoPlain ==
  \A c \in DOMAIN OptoCommands : OptoCommands[c] \in Seq(Plain) /\ c \notin Resetting
<1> USE DEF Bare, Unfolding, Counted, Handling, Prompts, Texts, YesNo, Counts
<1>1. Chosen \in Seq(Plain)
  BY DoPlain, ConcatPlain DEF Chosen
<1>2. OptoCommands.CHOOSE \in Seq(Plain)
  BY <1>1, AskPlain, DoPlain, ConcatPlain DEF OptoCommands
<1>3. OptoCommands.FULLSTATUS \in Seq(Plain)
  BY <1>1, AskPlain, DoPlain, ConcatPlain DEF OptoCommands
<1>4. OptoCommands.RESET \in Seq(Plain)
  BY <1>1, AskPlain, DoPlain, ConcatPlain DEF OptoCommands
<1>5. OptoCommands.LINKTRICK \in Seq(Plain)
  BY <1>1, AskPlain, DoPlain, ConcatPlain DEF OptoCommands
<1>6. OptoCommands.POLARITY \in Seq(Plain)
  BY <1>1, AskPlain, DoPlain, ConcatPlain DEF OptoCommands
<1>7. DOMAIN OptoCommands = {"CHOOSE", "FULLSTATUS", "RESET", "LINKTRICK", "POLARITY"}
  BY DEF OptoCommands
<1>8. QED
  BY <1>2, <1>3, <1>4, <1>5, <1>6, <1>7 DEF Resetting, Clearing

LEMMA BiasPlain ==
  \A c \in DOMAIN BiasCommands : BiasCommands[c] \in Seq(Plain) /\ c \notin Resetting
<1> USE DEF Bare, Unfolding, Counted, Handling, Prompts, Texts, YesNo, Counts
<1>1. BiasBoard \in Seq(Plain)
  BY AskPlain, DoPlain, ConcatPlain DEF BiasBoard
<1>2. BiasCommands.INIT \in Seq(Plain)
  BY <1>1, AskPlain, DoPlain, ConcatPlain DEF BiasCommands
<1>3. BiasCommands.READ_TEMP \in Seq(Plain)
  BY <1>1, AskPlain, DoPlain, ConcatPlain DEF BiasCommands
<1>4. BiasCommands.STATUS \in Seq(Plain)
  BY <1>1, AskPlain, DoPlain, ConcatPlain DEF BiasCommands
<1>5. BiasCommands.READ_SIPM \in Seq(Plain)
  BY <1>1, AskPlain, DoPlain, ConcatPlain DEF BiasCommands
<1>6. BiasCommands.SET_SIPM \in Seq(Plain)
  BY <1>1, AskPlain, DoPlain, ConcatPlain DEF BiasCommands
<1>7. DOMAIN BiasCommands = {"INIT", "READ_TEMP", "STATUS", "READ_SIPM", "SET_SIPM"}
  BY DEF BiasCommands
<1>8. QED
  BY <1>2, <1>3, <1>4, <1>5, <1>6, <1>7 DEF Resetting, Clearing

MenuName == {"ROOT", "EXPERT", "I2C", "ELINKS", "FAST_CONTROL", "DAQ", "DEBUG", "SETUP", "OPTO", "BIAS"}

\* The commands that reset are those of two menus; all the others are quiet.
LEMMA ProgramQuiet ==
  ASSUME NEW m \in MenuName, NEW c \in Commands[m]
  PROVE  /\ c \notin Resetting => Program[m][c] \in Seq(Quiet)
         /\ c \notin Resetting \cup Handled => Program[m][c] \in Seq(Plain)
         /\ c \in Resetting => \/ m = "FAST_CONTROL" /\ c \in {"RUN_CLEAR", "COUNTER_RESET"}
                               \/ m = "DAQ" /\ c \in {"PEDESTAL", "CHARGE"}
<1>1. DOMAIN Program = MenuName
  BY DEF Program, MenuName
<1>2. c \in DOMAIN Program[m]
  BY <1>1 DEF Commands
<1>3. CASE m = "ROOT"
  <2>1. Program[m] = RootCommands
    BY <1>3 DEF Program
  <2>2. QED
    BY <1>2, <2>1, RootPlain, PlainQuiet
<1>4. CASE m = "EXPERT"
  <2>1. Program[m] = <<>>
    BY <1>4 DEF Program
  <2>2. QED
    BY <1>2, <2>1, PlainQuiet
<1>5. CASE m = "I2C"
  <2>1. Program[m] = I2cCommands
    BY <1>5 DEF Program
  <2>2. QED
    BY <1>2, <2>1, I2cPlain, PlainQuiet
<1>6. CASE m = "ELINKS"
  <2>1. Program[m] = ElinkCommands
    BY <1>6 DEF Program
  <2>2. QED
    BY <1>2, <2>1, ElinkPlain, PlainQuiet
<1>7. CASE m = "FAST_CONTROL"
  <2>1. Program[m] = FastControlCommands
    BY <1>7 DEF Program
  <2>2. QED
    BY <1>2, <1>7, <2>1, FastControlPlain, PlainQuiet DEF Resetting, Clearing
<1>8. CASE m = "DAQ"
  <2>1. Program[m] = DaqCommands
    BY <1>8 DEF Program
  <2>2. QED
    BY <1>2, <1>8, <2>1, DaqPlain, PlainQuiet DEF Resetting, Clearing
<1>9. CASE m = "DEBUG"
  <2>1. Program[m] = DebugCommands
    BY <1>9 DEF Program
  <2>2. QED
    BY <1>2, <2>1, DebugPlain, PlainQuiet
<1>10. CASE m = "SETUP"
  <2>1. Program[m] = SetupCommands
    BY <1>10 DEF Program
  <2>2. QED
    BY <1>2, <2>1, SetupPlain, PlainQuiet
<1>11. CASE m = "OPTO"
  <2>1. Program[m] = OptoCommands
    BY <1>11 DEF Program
  <2>2. QED
    BY <1>2, <2>1, OptoPlain, PlainQuiet
<1>12. CASE m = "BIAS"
  <2>1. Program[m] = BiasCommands
    BY <1>12 DEF Program
  <2>2. QED
    BY <1>2, <2>1, BiasPlain, PlainQuiet
<1>13. QED
  BY <1>3, <1>4, <1>5, <1>6, <1>7, <1>8, <1>9, <1>10, <1>11, <1>12 DEF MenuName

-----------------------------------------------------------------------------
(***************************************************************************)
(* What unfolds is quiet.                                                  *)
(***************************************************************************)
LEMMA NumberType == \A p : Number(p) \in Int
<1> SUFFICES ASSUME NEW p PROVE Value(ans[p]) \in Int
  BY DEF Number
<1> DEFINE read == {n \in Numbers : ToString(n) = ans[p]}
<1>1. Value(ans[p]) = IF read = {} THEN 0 ELSE CHOOSE n \in read : TRUE
  BY DEF Value
<1>2. read \subseteq Int
  BY SessionAssumption
<1>3. QED
  BY <1>1, <1>2

LEMMA YesType == \A text : Yes(text) \in BOOLEAN
  BY DEF Yes

\* One operation for each number of a range.
LEMMA EachIn ==
  ASSUME NEW S, NEW n \in Int, NEW f \in [1..n -> S]
  PROVE  f \in Seq(S)
<1>1. CASE n \in Nat
  BY <1>1
<1>2. CASE n < 0
  <2>1. 1..n = 1..0
    BY <1>2
  <2>2. f \in [1..0 -> S]
    BY <2>1
  <2>3. QED
    BY <2>2
<1>3. QED
  BY <1>1, <1>2

LEMMA EachPlain ==
  /\ \A n \in Int, p \in Prompts : [k \in 1..n |-> <<"ask", p>>] \in Seq(Plain)
  /\ \A n \in Int : [k \in 1..n |-> <<"setup_link", k - 1, IF k < 3 THEN 40 ELSE 4>>] \in Seq(Plain)
<1>1. ASSUME NEW n \in Int, NEW p \in Prompts PROVE [k \in 1..n |-> <<"ask", p>>] \in Seq(Plain)
  <2>1. <<"ask", p>> \in Plain
    BY DEF Plain, Quiet, Handling, Asks
  <2>2. [k \in 1..n |-> <<"ask", p>>] \in [1..n -> Plain]
    BY <2>1
  <2>3. QED
    BY <2>2, EachIn
<1>2. ASSUME NEW n \in Int
      PROVE  [k \in 1..n |-> <<"setup_link", k - 1, IF k < 3 THEN 40 ELSE 4>>] \in Seq(Plain)
  <2>1. \A k \in 1..n : <<"setup_link", k - 1, IF k < 3 THEN 40 ELSE 4>> \in Plain
    BY DEF Plain, Quiet, Handling
  <2>2. [k \in 1..n |-> <<"setup_link", k - 1, IF k < 3 THEN 40 ELSE 4>>] \in [1..n -> Plain]
    BY <2>1
  <2>3. QED
    BY <2>2, EachIn
<1>3. QED
  BY <1>1, <1>2

LEMMA EachQuiet == \A x \in Counted, n \in Int : [k \in 1..n |-> <<x, k - 1>>] \in Seq(Quiet)
<1> SUFFICES ASSUME NEW x \in Counted, NEW n \in Int PROVE [k \in 1..n |-> <<x, k - 1>>] \in Seq(Quiet)
  OBVIOUS
<1>1. \A k \in 1..n : <<x, k - 1>> \in Quiet
  BY DEF Quiet
<1>2. [k \in 1..n |-> <<x, k - 1>>] \in [1..n -> Quiet]
  BY <1>1
<1>3. QED
  BY <1>2, EachIn

LEMMA AlignQuiet == Align \in Seq(Quiet)
<1>1. Cardinality(Link) \in Int /\ Cardinality(Roc) \in Int
  BY SessionAssumption, FS_CardinalityType
<1>2. Do("was") \in Seq(Quiet) /\ Do("hard_reset") \in Seq(Quiet)
  BY DoQuiet DEF Bare
<1>3. [k \in 1..Cardinality(Link) |-> <<"align_link", k - 1>>] \in Seq(Quiet)
  BY <1>1, EachQuiet DEF Counted
<1>4. [k \in 1..Cardinality(Roc) |-> <<"run_mode", k - 1>>] \in Seq(Quiet)
  BY <1>1, EachQuiet DEF Counted
<1>5. QED
  BY <1>2, <1>3, <1>4, ConcatQuiet DEF Align

LEMMA StandardQuiet == fc.delay \in Int => Standard \in Seq(Quiet)
<1> SUFFICES ASSUME fc.delay \in Int PROVE Standard \in Seq(Quiet)
  OBVIOUS
<1>1. <<"delay", fc.delay - 4>> \in Quiet
  BY DEF Quiet, Counted
<1>2. <<"standard_roc">> \in Quiet
  BY DEF Quiet, Words, Bare
<1>3. <<<<"delay", fc.delay - 4>>, <<"standard_roc">>>> \in Seq(Quiet)
  BY <1>1, <1>2
<1>4. Cardinality(Link) \in Int
  BY SessionAssumption, FS_CardinalityType
<1>5. [k \in 1..Cardinality(Link) |-> <<"setup_link", k - 1, IF k < 3 THEN 40 ELSE 4>>] \in Seq(Quiet)
  BY <1>4, EachPlain, PlainQuiet
<1>6. <<<<"set_format", 2>>>> \in Seq(Quiet)
  <2>1. <<"set_format", 2>> \in Quiet
    BY DEF Quiet, Counted
  <2>2. QED
    BY <2>1
<1>7. QED
  BY <1>3, <1>5, <1>6, ConcatQuiet DEF Standard

LEMMA TogglePlain == Toggle \in Seq(Plain)
<1>1. <<<<"readout", FALSE>>>> \in Seq(Plain) /\ <<<<"readout", TRUE>>>> \in Seq(Plain)
  BY FlagPlain DEF Handling, Flagged
<1>2. FcEnables(TRUE) \in Seq(Plain) /\ FcEnables(FALSE) \in Seq(Plain)
  BY CallsPlain
<1>3. /\ Ask("external") \in Seq(Plain) /\ Ask("axis") \in Seq(Plain)
      /\ Do("external") \in Seq(Plain) /\ Do("axis") \in Seq(Plain)
  BY AskPlain, DoPlain DEF Handling, Bare, Prompts, YesNo
<1>4. QED
  BY <1>1, <1>2, <1>3, ConcatPlain DEF Toggle

LEMMA BusPlain == BusQuestions \in Seq(Plain)
<1>1. /\ Ask("value") \in Seq(Plain) /\ Ask("addrlen") \in Seq(Plain) /\ Ask("length") \in Seq(Plain)
      /\ Do("addrlen") \in Seq(Plain) /\ Do("bytes") \in Seq(Plain)
  BY AskPlain, DoPlain DEF Handling, Bare, Unfolding, Counted, Prompts, Counts
<1>2. <<>> \in Seq(Plain)
  OBVIOUS
<1>3. QED
  BY <1>1, <1>2, ConcatPlain DEF BusQuestions

\* Numbers that an operation carries.
LEMMA CountedType ==
  ASSUME NEW op \in Operation, op[1] \in Counted
  PROVE  op[2] \in Int
<1>1. op \in Counted \X Int
  BY DEF Operation, Quiet, Counted, Flagged, Asks, Words, Bare, Unfolding, Sends, Fires, Phasing
<1>2. QED
  BY <1>1

LEMMA UnfoldedPlain ==
  ASSUME fc.delay \in Int, front.buf \in Int, NEW op \in Operation, op[1] \in Unfolding \ Handling
  PROVE  Unfolded(op) \in Seq(Plain)
<1>e. <<>> \in Seq(Plain)
  OBVIOUS
<1>d. \A x \in Bare \ Handling : Do(x) \in Seq(Plain)
  BY DoPlain
<1>a. \A p \in Prompts : Ask(p) \in Seq(Plain)
  BY AskPlain
<1>1. CASE op[1] = "blinker"
  <2>1. Unfolded(op) = IF Mapped THEN <<<<"blink", Yes(ans["blinker"])>>>> ELSE <<>>
    BY <1>1 DEF Unfolded
  <2>2. <<<<"blink", Yes(ans["blinker"])>>>> \in Seq(Plain)
    BY FlagPlain, YesType DEF Handling, Flagged
  <2>3. QED
    BY <1>e, <2>1, <2>2
<1>2. CASE op[1] = "offset"
  <2>1. Unfolded(op) = <<<<"delay", Number("offset")>>>>
    BY <1>2 DEF Unfolded
  <2>2. QED
    BY <2>1, CountPlain, NumberType DEF Handling, Counted
<1>3. CASE op[1] = "enable"
  <2>1. Unfolded(op) = Toggle
    BY <1>3 DEF Unfolded
  <2>2. QED
    BY <2>1, TogglePlain
<1>4. CASE op[1] = "format"
  <2>1. Unfolded(op) = IF board = "fiberless" THEN Ask("format") \o Do("pick_format") ELSE <<<<"set_format", 2>>>>
    BY <1>4 DEF Unfolded
  <2>2. Ask("format") \in Seq(Plain) /\ Do("pick_format") \in Seq(Plain)
    BY <1>a, <1>d DEF Handling, Bare, Unfolding, Prompts, Counts, Counted
  <2>4. <<<<"set_format", 2>>>> \in Seq(Plain)
    <3>1. "set_format" \in Counted \ Handling /\ 2 \in Int
      BY DEF Counted, Handling
    <3>2. QED
      BY <3>1, CountPlain
  <2>5. QED
    BY <2>1, <2>2, <2>4, ConcatPlain
<1>5. CASE op[1] = "pick_format"
  <2>1. Unfolded(op) = IF Number("format") \in 1..2 THEN <<<<"set_format", Number("format")>>>> ELSE Do("throw")
    BY <1>5 DEF Unfolded
  <2>2. <<<<"set_format", Number("format")>>>> \in Seq(Plain)
    BY CountPlain, NumberType DEF Handling, Counted
  <2>3. QED
    BY <1>d, <2>1, <2>2 DEF Handling, Bare
<1>6. CASE op[1] = "link"
  <2>1. Unfolded(op) = IF Number("link") < 0 THEN <<>> ELSE Ask("l1a_delay") \o Ask("capture") \o Do("capture")
    BY <1>6 DEF Unfolded
  <2>2. Ask("l1a_delay") \in Seq(Plain) /\ Ask("capture") \in Seq(Plain) /\ Do("capture") \in Seq(Plain)
    BY <1>a, <1>d DEF Handling, Bare, Unfolding, Counted, Prompts, Counts
  <2>3. QED
    BY <1>e, <2>1, <2>2, ConcatPlain
<1>7. CASE op[1] = "capture"
  <2>1. Unfolded(op) = IF board = "fiberless" THEN <<<<"setup_link", Number("link"), Number("capture")>>>> ELSE <<>>
    BY <1>7 DEF Unfolded
  <2>2. QED
    BY <1>e, <2>1, LinkPlain, NumberType
<1>8. CASE op[1] = "clear"
  <2>1. Unfolded(op) = <<<<"drain", front.buf>>>>
    BY <1>8 DEF Unfolded
  <2>2. QED
    BY <2>1, CountPlain DEF Handling, Counted
<1>9. CASE op[1] = "drain"
  <2>1. Unfolded(op) = IF front.buf > 0 THEN Do("advance") \o <<<<"compare", op[2]>>>> ELSE Do("empty")
    BY <1>9 DEF Unfolded, Drain
  <2>2. op[2] \in Int
    BY <1>9, CountedType DEF Handling, Counted
  <2>3. <<<<"compare", op[2]>>>> \in Seq(Plain) /\ Do("advance") \in Seq(Plain) /\ Do("empty") \in Seq(Plain)
    BY <1>d, <2>2, CountPlain DEF Handling, Bare, Counted
  <2>4. QED
    BY <2>1, <2>3, ConcatPlain
<1>10. CASE op[1] \in {"compare", "opto", "known_bus", "hcal", "bias_board", "decode", "data"}
  <2>1. Unfolded(op) \in {<<>>, Do("throw"), Do("clear"), Do("get_data")}
    BY <1>10 DEF Unfolded
  <2>2. QED
    BY <1>d, <1>e, <2>1 DEF Handling, Bare, Unfolding, Counted
<1>11. CASE op[1] = "choose"
  <2>1. Unfolded(op) = IF st.olink = "" THEN Ask("olink") \o Do("set_olink") ELSE <<>>
    BY <1>11 DEF Unfolded
  <2>2. Ask("olink") \in Seq(Plain) /\ Do("set_olink") \in Seq(Plain)
    BY <1>a, <1>d DEF Handling, Bare, Prompts, Texts
  <2>3. QED
    BY <1>e, <2>1, <2>2, ConcatPlain
<1>12. CASE op[1] = "choose_bus"
  <2>1. Unfolded(op) = Do("set_bus") \o Do("known_bus")
    BY <1>12 DEF Unfolded
  <2>2. Do("set_bus") \in Seq(Plain) /\ Do("known_bus") \in Seq(Plain)
    BY <1>d DEF Handling, Bare, Unfolding, Counted
  <2>3. QED
    BY <2>1, <2>2, ConcatPlain
<1>13. CASE op[1] = "bus"
  <2>1. Unfolded(op) = IF st.bus = "" \/ cmd = "BUS" THEN <<>>
                       ELSE Do("known_bus") \o Ask("address") \o BusQuestions
    BY <1>13 DEF Unfolded
  <2>2. Do("known_bus") \in Seq(Plain) /\ Ask("address") \in Seq(Plain)
    BY <1>a, <1>d DEF Handling, Bare, Unfolding, Counted, Prompts, Counts
  <2>3. Ask("address") \o BusQuestions \in Seq(Plain)
    BY <2>2, BusPlain, ConcatPlain
  <2>4. Do("known_bus") \o Ask("address") \o BusQuestions \in Seq(Plain)
    BY <2>2, <2>3, ConcatPlain
  <2>5. QED
    BY <1>e, <2>1, <2>4
<1>14. CASE op[1] = "addrlen"
  <2>1. Unfolded(op) = IF Number("addrlen") > 0 THEN Ask("value") ELSE <<>>
    BY <1>14 DEF Unfolded
  <2>2. QED
    BY <1>a, <1>e, <2>1 DEF Prompts, Counts
<1>15. CASE op[1] = "bytes"
  <2>1. Unfolded(op) = [k \in 1..Number("length") |-> <<"ask", "value">>]
    BY <1>15 DEF Unfolded
  <2>2. Number("length") \in Int /\ "value" \in Prompts
    BY NumberType DEF Prompts, Counts
  <2>3. [k \in 1..Number("length") |-> <<"ask", "value">>] \in Seq(Plain)
    BY <2>2, EachPlain
  <2>4. QED
    BY <2>1, <2>3
<1>16. QED
  BY <1>1, <1>2, <1>3, <1>4, <1>5, <1>6, <1>7, <1>8, <1>9, <1>10, <1>11, <1>12, <1>13, <1>14, <1>15 DEF Unfolding, Handling

LEMMA UnfoldedQuiet ==
  ASSUME fc.delay \in Int, front.buf \in Int, NEW op \in Operation, op[1] \in Unfolding
  PROVE  Unfolded(op) \in Seq(Quiet)
<1>e. <<>> \in Seq(Quiet)
  OBVIOUS
<1>1. CASE op[1] = "proceed"
  <2>1. Unfolded(op) = IF Yes(ans["proceed"]) THEN Align ELSE <<>>
    BY <1>1 DEF Unfolded
  <2>2. QED
    BY <1>e, <2>1, AlignQuiet
<1>2. CASE op[1] = "align_link"
  <2>1. Unfolded(op) = AlignLink(op[2])
    BY <1>2 DEF Unfolded
  <2>2. op[2] \in Int
    BY <1>2, CountedType DEF Counted
  <2>3. board = "fiberless" => <<"align_phase", op[2]>> \in Quiet
    BY <2>2 DEF Quiet, Phasing
  <2>4. <<"align_slip", op[2]>> \in Quiet
    BY <2>2 DEF Quiet, Counted
  <2>5. QED
    BY <1>e, <2>1, <2>3, <2>4, ConcatQuiet DEF AlignLink
<1>3. CASE op[1] \in {"set_phase", "scan_link"}
  <2>1. Unfolded(op) = <<>> \/ (board = "fiberless" /\ Unfolded(op) \in {Do("phase"), Do("scan")})
    BY <1>3 DEF Unfolded
  <2>2. board = "fiberless" => <<"phase">> \in Quiet /\ <<"scan">> \in Quiet
    BY DEF Quiet, Phasing
  <2>3. board = "fiberless" => Do("phase") \in Seq(Quiet) /\ Do("scan") \in Seq(Quiet)
    BY <2>2 DEF Do
  <2>4. QED
    BY <1>e, <2>1, <2>3
<1>4. CASE op[1] = "set_slip"
  <2>1. Unfolded(op) = <<>> \/ Unfolded(op) = Do("bitslip")
    BY <1>4 DEF Unfolded
  <2>2. QED
    BY <1>e, <2>1, DoQuiet DEF Bare
<1>5. CASE op[1] = "standard"
  <2>1. Unfolded(op) = Standard
    BY <1>5 DEF Unfolded
  <2>2. QED
    BY <2>1, StandardQuiet
<1>6. CASE op[1] \in Unfolding \ Handling
  BY <1>6, UnfoldedPlain, PlainQuiet
<1>7. QED
  BY <1>1, <1>2, <1>3, <1>4, <1>5, <1>6 DEF Unfolding, Handling

-----------------------------------------------------------------------------
(***************************************************************************)
(* Type correctness, as far as the counts of triggers need it.             *)
(***************************************************************************)

\* The registers and the counts, and what the block that is not mapped has none of.
FcShape ==
    /\ DOMAIN fc = {"l1a", "ext", "blinker", "follow", "delay", "req", "fire"}
    /\ DOMAIN front = {"count", "number", "buf", "left"}
    /\ fc.delay \in Int /\ front.buf \in Int
    /\ ~Mapped => fc.req = {} /\ fc.fire = {} /\ word = {}
    /\ \E S : saved \in Seq(S)

TypeInv ==
    /\ FcShape
    /\ path \in Seq(MenuName)
    /\ prog \in Seq(Operation)

\* Only the mapped block has requests and commands that are asked for.
LEMMA MappedOnly ==
  ASSUME NEW op \in Operation
  PROVE  /\ op[1] \in {"write", "fire"} => Mapped
         /\ op[1] = "pulse" => ~Mapped
BY DEF Operation, Quiet, Counted, Flagged, Asks, Words, Bare, Unfolding, Sends, Fires, Phasing

LEMMA FcShapeInit == FcInit => FcShape
<1> SUFFICES ASSUME FcInit PROVE FcShape
  OBVIOUS
<1>1. saved \in Seq({})
  BY DEF FcInit
<1>2. QED
  BY <1>1 DEF FcInit, FcShape

\* What is put aside and taken back stays a sequence.
LEMMA SavedType ==
  ASSUME NEW S, NEW s \in Seq(S), NEW x
  PROVE  Append(s, x) \in Seq(S \cup {x}) /\ Front(s) \in Seq(S)
<1>1. Append(s, x) \in Seq(S \cup {x})
  <2>1. s \in Seq(S \cup {x})
    OBVIOUS
  <2>2. QED
    BY <2>1
<1>2. CASE Len(s) = 0
  <2>1. Front(s) = SubSeq(s, 1, 0 - 1)
    BY <1>2 DEF Front
  <2>2. SubSeq(s, 1, 0 - 1) = <<>>
    OBVIOUS
  <2>3. QED
    BY <1>1, <2>1, <2>2
<1>3. CASE Len(s) # 0
  <2>1. Len(s) - 1 \in Nat /\ Len(s) - 1 <= Len(s)
    BY <1>3
  <2>2. SubSeq(s, 1, Len(s) - 1) \in Seq(S)
    BY <2>1
  <2>3. QED
    BY <1>1, <2>2 DEF Front
<1>4. QED
  BY <1>2, <1>3

LEMMA SentShape ==
  ASSUME DOMAIN front = {"count", "number", "buf", "left"}, NEW r
  PROVE  /\ DOMAIN Sent(r) = DOMAIN front /\ Sent(r).buf = front.buf /\ Sent(r).left = front.left
         /\ Sent(r).count = IF r = "count_rst" THEN 0 ELSE front.count
         /\ Sent(r).number = IF r = "ecr" THEN 0 ELSE front.number
BY DEF Sent

LEMMA TriggeredShape ==
  ASSUME DOMAIN front = {"count", "number", "buf", "left"}
  PROVE  /\ DOMAIN Triggered = DOMAIN front
         /\ \/ Triggered = front
            \/ /\ fc.l1a
               /\ Triggered.count = front.count + 1 /\ Triggered.number = front.number + 1
               /\ Triggered.buf = front.buf + 1
BY DEF Triggered

LEMMA FcShapeOperation ==
  ASSUME FcShape, NEW op \in Operation, FcOperation(op), board' = board
  PROVE  FcShape'
<1>m. Mapped' = Mapped
  BY DEF Mapped
<1>1. CASE op[1] = "read"
  BY <1>1, <1>m DEF FcOperation, FcShape
<1>2. CASE op[1] = "write"
  BY <1>2, <1>m, MappedOnly DEF FcOperation, FcShape
<1>3. CASE op[1] = "pulse"
  <2>1. front' = Sent(op[2]) /\ UNCHANGED <<fc, saved, word>>
    BY <1>3 DEF FcOperation
  <2>2. QED
    BY <1>m, <2>1, SentShape DEF FcShape
<1>4. CASE op[1] = "save"
  <2>1. saved' = Append(saved, fc.l1a) /\ UNCHANGED <<fc, front, word>>
    BY <1>4 DEF FcOperation
  <2>2. \E S : saved' \in Seq(S)
    BY <2>1, SavedType DEF FcShape
  <2>3. QED
    BY <1>m, <2>1, <2>2 DEF FcShape
<1>5. CASE op[1] = "restore"
  <2>1. fc' = [fc EXCEPT !.l1a = Last(saved)] /\ saved' = Front(saved) /\ UNCHANGED <<front, word>>
    BY <1>5 DEF FcOperation
  <2>2. \E S : saved' \in Seq(S)
    BY <2>1, SavedType DEF FcShape
  <2>3. QED
    BY <1>m, <2>1, <2>2 DEF FcShape
<1>6. CASE op[1] = "trigger"
  <2>1. front' = Triggered /\ UNCHANGED <<fc, saved, word>>
    BY <1>6 DEF FcOperation
  <2>2. QED
    BY <1>m, <2>1, TriggeredShape DEF FcShape
<1>7. CASE op[1] = "delay"
  <2>1. fc' = [fc EXCEPT !.delay = op[2]] /\ UNCHANGED <<front, saved, word>>
    BY <1>7 DEF FcOperation
  <2>2. op[2] \in Int
    BY <1>7, CountedType DEF Counted
  <2>3. QED
    BY <1>m, <2>1, <2>2 DEF FcShape
<1>8. CASE op[1] = "fire"
  BY <1>8, <1>m, MappedOnly DEF FcOperation, FcShape
<1>9. CASE op[1] \in {"sleep", "mask", "blink", "follow", "enables"}
  BY <1>9, <1>m DEF FcOperation, FcShape
<1>10. QED
  BY <1>1, <1>2, <1>3, <1>4, <1>5, <1>6, <1>7, <1>8, <1>9 DEF FcOperation

LEMMA FcShapeHardware ==
  ASSUME FcShape, Hardware
  PROVE  FcShape'
<1>1. CASE SendReset
  <2>1. PICK r \in fc.req : /\ front' = Sent(r) /\ fc' = [fc EXCEPT !.req = @ \ {r}]
                            /\ UNCHANGED <<board, saved, word>>
    BY <1>1 DEF SendReset
  <2>2. QED
    BY <2>1, SentShape DEF FcShape, Mapped
<1>2. CASE SendCommand
  <2>1. PICK p \in fc.fire : /\ front' = front \/ front' = Triggered
                             /\ fc' = [fc EXCEPT !.fire = @ \ {p}]
                             /\ UNCHANGED <<board, saved, word>>
    BY <1>2 DEF SendCommand
  <2>2. QED
    BY <2>1, TriggeredShape DEF FcShape, Mapped
<1>3. CASE Trigger
  BY <1>3, TriggeredShape DEF Trigger, FcShape, Mapped
<1>4. QED
  BY <1>1, <1>2, <1>3 DEF Hardware

-----------------------------------------------------------------------------
(***************************************************************************)
(* clear_run, operation by operation, and what the commands that call it   *)
(* do before and after it.                                                 *)
(***************************************************************************)
MappedOps ==
    << <<"save">>, <<"mask">>, <<"read">>, <<"write", "count_rst">>, <<"sleep">>,
       <<"save">>, <<"mask">>, <<"read">>, <<"write", "ebr">>, <<"restore">>, <<"sleep">>,
       <<"save">>, <<"mask">>, <<"read">>, <<"write", "ocr">>, <<"restore">>, <<"sleep">>,
       <<"read">>, <<"write", "ecr">>, <<"sleep">>, <<"restore">> >>
PulsedOps == << <<"pulse", "count_rst">>, <<"pulse", "ebr">>, <<"pulse", "ocr">>, <<"pulse", "ecr">> >>
ClearOps == IF Mapped THEN MappedOps ELSE PulsedOps
Last1 == IF Mapped THEN 21 ELSE 4

Before == Asks \cup {<<"empty">>}
After == Asks \cup {<<"decode">>, <<"throw">>, <<"advance">>, <<"trigger">>} \cup Fires

\* What the operation at place i is, counted from the first of clear_run.
Fits(op, i) ==
    /\ op \in Operation
    /\ i < 1 => op \in Before
    /\ i \in 1..Last1 => op = ClearOps[i]
    /\ i > Last1 => op \in After
\* s is the operations of the places from k to just before n.
Spells(s, k, n) ==
    /\ s \in Seq(Operation) /\ Len(s) = n - k
    /\ \A i \in 1..Len(s) : Fits(s[i], k + i - 1)

LEMMA SpellsConcat ==
  ASSUME NEW s, NEW t, NEW k \in Int, NEW m \in Int, NEW n \in Int, Spells(s, k, m), Spells(t, m, n)
  PROVE  Spells(s \o t, k, n)
<1>1. /\ s \in Seq(Operation) /\ t \in Seq(Operation) /\ Len(s) \in Nat /\ Len(t) \in Nat
      /\ Len(s) = m - k /\ Len(t) = n - m
  BY DEF Spells
<1>2. /\ s \o t \in Seq(Operation) /\ Len(s \o t) = Len(s) + Len(t)
      /\ \A i \in 1..(Len(s) + Len(t)) :
            (s \o t)[i] = IF i <= Len(s) THEN s[i] ELSE t[i - Len(s)]
  BY <1>1, ConcatProperties
<1>3. ASSUME NEW i \in 1..(Len(s) + Len(t)) PROVE Fits((s \o t)[i], k + i - 1)
  <2>1. CASE i <= Len(s)
    BY SMTT(30), <1>1, <1>2, <2>1 DEF Spells
  <2>2. CASE ~(i <= Len(s))
    <3>1. i - Len(s) \in 1..Len(t)
      BY <1>1, <2>2
    <3>2. Fits(t[i - Len(s)], m + (i - Len(s)) - 1)
      BY <3>1 DEF Spells
    <3>3. m + (i - Len(s)) - 1 = k + i - 1
      BY <1>1
    <3>4. QED
      BY <1>2, <2>2, <3>2, <3>3
  <2>3. QED
    BY <2>1, <2>2
<1>4. Len(s) + Len(t) = n - k
  BY <1>1
<1>5. QED
  BY <1>2, <1>3, <1>4 DEF Spells

LEMMA SpellsOne ==
  ASSUME NEW x, NEW k \in Int, NEW m \in Int, m = k + 1, Fits(x, k)
  PROVE  Spells(<<x>>, k, m)
<1>1. x \in Operation
  BY DEF Fits
<1>2. <<x>> \in Seq(Operation) /\ Len(<<x>>) = 1 /\ <<x>>[1] = x
  BY <1>1
<1>3. (\A i \in 1..1 : i = 1) /\ k + 1 - 1 = k /\ m - k = 1
  OBVIOUS
<1>4. QED
  BY <1>2, <1>3 DEF Spells

LEMMA SpellsTwo ==
  ASSUME NEW x, NEW y, NEW k \in Int, NEW l \in Int, NEW m \in Int, l = k + 1, m = k + 2,
         Fits(x, k), Fits(y, l)
  PROVE  Spells(<<x, y>>, k, m)
<1>1. x \in Operation /\ y \in Operation
  BY DEF Fits
<1>2. <<x, y>> \in Seq(Operation) /\ Len(<<x, y>>) = 2 /\ <<x, y>>[1] = x /\ <<x, y>>[2] = y
  BY <1>1
<1>3. (\A i \in 1..2 : i = 1 \/ i = 2) /\ k + 1 - 1 = k /\ k + 2 - 1 = l /\ m - k = 2
  OBVIOUS
<1>4. QED
  BY <1>2, <1>3 DEF Spells

\* The operations of clear_run are operations.
LEMMA ClearFits == \A i \in 1..Last1 : Fits(ClearOps[i], i)
<1>1. CASE Mapped
  <2>1. /\ <<"save">> \in Operation /\ <<"mask">> \in Operation /\ <<"read">> \in Operation
        /\ <<"sleep">> \in Operation /\ <<"restore">> \in Operation
    BY DEF Operation, Quiet, Words, Bare
  <2>2. \A r \in {"count_rst", "ecr", "ebr", "ocr"} : <<"write", r>> \in Operation
    BY <1>1 DEF Operation, Quiet, Sends, Resets, Counting
  <2>3. \A i \in 1..21 : MappedOps[i] \in Operation
    BY <2>1, <2>2 DEF MappedOps
  <2>4. QED
    BY <1>1, <2>3 DEF Fits, ClearOps, Last1
<1>2. CASE ~Mapped
  <2>1. \A r \in {"count_rst", "ecr", "ebr", "ocr"} : <<"pulse", r>> \in Operation
    BY <1>2 DEF Operation, Quiet, Sends, Resets, Counting
  <2>2. \A i \in 1..4 : PulsedOps[i] \in Operation
    BY <2>1 DEF PulsedOps
  <2>3. QED
    BY <1>2, <2>2 DEF Fits, ClearOps, Last1
<1>3. QED
  BY <1>1, <1>2

LEMMA SpellsQuietly ==
  ASSUME NEW s, NEW k \in Int, NEW l \in Int, NEW m \in Int, NEW n \in Int, NEW o \in Int,
         l = k + 1, m = k + 2, o = n + 1,
         Spells(s, m, n), Fits(<<"save">>, k), Fits(<<"mask">>, l), Fits(<<"restore">>, n)
  PROVE  Spells(Quietly(s), k, o)
<1>1. Spells(<<<<"save">>, <<"mask">>>>, k, m)
  BY SpellsTwo
<1>2. Spells(<<<<"restore">>>>, n, o)
  BY SpellsOne
<1>3. Spells(<<<<"save">>, <<"mask">>>> \o s, k, n)
  BY <1>1, SpellsConcat
<1>4. QED
  BY <1>2, <1>3, SpellsConcat DEF Quietly

LEMMA SpellsRequest ==
  ASSUME NEW r, NEW k \in Int, NEW l \in Int, NEW m \in Int, l = k + 1, m = k + 2,
         Fits(<<"read">>, k), Fits(<<"write", r>>, l)
  PROVE  Spells(Request(r), k, m)
BY SpellsTwo DEF Request

LEMMA SpellsClear == Spells(ClearRun, 1, Last1 + 1)
<1>1. CASE Mapped
  <2>1. \A i \in 1..21 : Fits(MappedOps[i], i)
    BY <1>1, ClearFits DEF ClearOps, Last1
  <2>2. /\ Fits(<<"save">>, 1) /\ Fits(<<"mask">>, 2) /\ Fits(<<"read">>, 3)
        /\ Fits(<<"write", "count_rst">>, 4) /\ Fits(<<"sleep">>, 5)
        /\ Fits(<<"save">>, 6) /\ Fits(<<"mask">>, 7) /\ Fits(<<"read">>, 8)
        /\ Fits(<<"write", "ebr">>, 9) /\ Fits(<<"restore">>, 10) /\ Fits(<<"sleep">>, 11)
        /\ Fits(<<"save">>, 12) /\ Fits(<<"mask">>, 13) /\ Fits(<<"read">>, 14)
        /\ Fits(<<"write", "ocr">>, 15) /\ Fits(<<"restore">>, 16) /\ Fits(<<"sleep">>, 17)
        /\ Fits(<<"read">>, 18) /\ Fits(<<"write", "ecr">>, 19) /\ Fits(<<"sleep">>, 20)
        /\ Fits(<<"restore">>, 21)
    BY <2>1 DEF MappedOps
  <2>3. /\ Spells(Request("count_rst"), 3, 5) /\ Spells(Request("ebr"), 8, 10)
        /\ Spells(Request("ocr"), 14, 16) /\ Spells(Request("ecr"), 18, 20)
    BY <2>2, SpellsRequest
  <2>4. /\ Spells(Sleep, 5, 6) /\ Spells(Sleep, 11, 12)
        /\ Spells(Sleep, 17, 18) /\ Spells(Sleep, 20, 21)
    BY <2>2, SpellsOne DEF Sleep
  <2>5. Spells(Quietly(Request("ebr")), 6, 11) /\ Spells(Quietly(Request("ocr")), 12, 17)
    BY <2>2, <2>3, SpellsQuietly
  <2> DEFINE all == Request("count_rst") \o Sleep \o Quietly(Request("ebr")) \o Sleep
                    \o Quietly(Request("ocr")) \o Sleep \o Request("ecr") \o Sleep
  <2>6. Spells(all, 3, 21)
    BY <2>3, <2>4, <2>5, SpellsConcat
  <2>7. ClearRun = Quietly(all)
    BY <1>1 DEF ClearRun, ResetCounters, Bufferclear, OrbitCountReset
  <2> HIDE DEF all
  <2>8. QED
    BY <1>1, <2>2, <2>6, <2>7, SpellsQuietly DEF Last1
<1>2. CASE ~Mapped
  <2>1. \A i \in 1..4 : Fits(PulsedOps[i], i)
    BY <1>2, ClearFits DEF ClearOps, Last1
  <2>2. /\ Fits(<<"pulse", "count_rst">>, 1) /\ Fits(<<"pulse", "ebr">>, 2)
        /\ Fits(<<"pulse", "ocr">>, 3) /\ Fits(<<"pulse", "ecr">>, 4)
    BY <2>1 DEF PulsedOps
  <2>3. /\ Spells(Pulse("count_rst"), 1, 2) /\ Spells(Pulse("ebr"), 2, 3)
        /\ Spells(Pulse("ocr"), 3, 4) /\ Spells(Pulse("ecr"), 4, 5)
    BY <2>2, SpellsOne DEF Pulse
  <2>4. ClearRun = Pulse("count_rst") \o Pulse("ebr") \o Pulse("ocr") \o Pulse("ecr")
    BY <1>2 DEF ClearRun, ResetCounters, Bufferclear, OrbitCountReset
  <2>5. Spells(Pulse("count_rst") \o Pulse("ebr") \o Pulse("ocr") \o Pulse("ecr"), 1, 5)
    BY <2>3, SpellsConcat
  <2>6. QED
    BY <1>2, <2>4, <2>5 DEF Last1
<1>3. QED
  BY <1>1, <1>2

LEMMA SpellsTail ==
  ASSUME NEW s, NEW k \in Int, NEW n \in Int, Spells(s, k, n), s # <<>>
  PROVE  Fits(Head(s), k) /\ Spells(Tail(s), k + 1, n) /\ k < n
<1>1. s \in Seq(Operation) /\ Len(s) = n - k /\ Len(s) \in Nat /\ Len(s) # 0
  BY DEF Spells
<1>2. 1 \in 1..Len(s) /\ Head(s) = s[1] /\ k + 1 - 1 = k
  BY <1>1
<1>3. Fits(Head(s), k)
  BY <1>2 DEF Spells
<1>4. /\ Tail(s) \in Seq(Operation) /\ Len(Tail(s)) = Len(s) - 1
      /\ \A i \in 1..(Len(s) - 1) : Tail(s)[i] = s[i + 1]
  BY <1>1
<1>5. \A i \in 1..(Len(s) - 1) : Fits(Tail(s)[i], (k + 1) + i - 1)
  <2>1. SUFFICES ASSUME NEW i \in 1..(Len(s) - 1) PROVE Fits(s[i + 1], (k + 1) + i - 1)
    BY <1>4
  <2>2. i + 1 \in 1..Len(s) /\ (k + 1) + i - 1 = k + (i + 1) - 1
    BY <1>1
  <2>3. Fits(s[i + 1], k + (i + 1) - 1)
    BY <2>2 DEF Spells
  <2>4. QED
    BY <2>2, <2>3
<1>6. Len(s) - 1 = n - (k + 1) /\ k < n
  BY <1>1
<1>7. QED
  BY <1>3, <1>4, <1>5, <1>6 DEF Spells

\* A run: questions, clear_run, questions, one trigger, the next event.
LEMMA SpellsRun ==
  ASSUME NEW shot, \/ shot = <<<<"trigger">>>>
                   \/ Mapped /\ \E p \in {"pedestal", "charge"} : shot = <<<<"fire", p>>>>
  PROVE  Spells(Run(shot), -3, Last1 + 6)
<1> DEFINE l == Last1
<1>1. l \in Nat /\ l + 1 \in Int /\ l + 2 \in Int /\ l + 3 \in Int /\ l + 4 \in Int /\ l + 5 \in Int /\ l + 6 \in Int
  BY DEF Last1
<1>2. \A p \in Prompts : \A i \in Int : i < 1 \/ i > l => Fits(<<"ask", p>>, i)
  <2>1. \A p \in Prompts : <<"ask", p>> \in Asks /\ <<"ask", p>> \in Operation
    BY DEF Asks, Operation, Quiet
  <2>2. QED
    BY <1>1, <2>1 DEF Fits, Before, After
<1>3. Fits(<<"empty">>, 0)
  <2>1. <<"empty">> \in Operation
    BY DEF Operation, Quiet, Words, Bare
  <2>2. QED
    BY <1>1, <2>1 DEF Fits, Before
<1>4. \A i \in Int : i > l => Fits(<<"decode">>, i) /\ Fits(<<"advance">>, i)
  <2>1. <<"decode">> \in Operation /\ <<"advance">> \in Operation
    BY DEF Operation, Quiet, Words, Bare, Unfolding, Counted
  <2>2. QED
    BY <1>1, <2>1 DEF Fits, After
<1>5. \A i \in Int : i > l => \E x : shot = <<x>> /\ Fits(x, i)
  <2>1. CASE shot = <<<<"trigger">>>>
    <3>1. <<"trigger">> \in Operation
      BY DEF Operation, Quiet, Words, Bare
    <3>2. QED
      BY <1>1, <2>1, <3>1 DEF Fits, After
  <2>2. ASSUME Mapped, NEW p \in {"pedestal", "charge"}, shot = <<<<"fire", p>>>>
        PROVE  \A i \in Int : i > l => \E x : shot = <<x>> /\ Fits(x, i)
    <3>1. <<"fire", p>> \in Fires
      BY <2>2 DEF Fires
    <3>2. <<"fire", p>> \in Operation
      BY <3>1 DEF Operation, Quiet
    <3>3. QED
      BY <1>1, <2>2, <3>1, <3>2 DEF Fits, After
  <2>3. QED
    BY <2>1, <2>2
<1>6. Spells(ClearRun, 1, l + 1)
  BY SpellsClear
<1> HIDE DEF l
<1>7. /\ Spells(Ask("run"), -3, -2) /\ Spells(Ask("events"), -2, -1) /\ Spells(Ask("rate"), -1, 0)
  <2>1. {"run", "events", "rate"} \subseteq Prompts
    BY DEF Prompts, Counts
  <2>2. QED
    BY <1>1, <1>2, <2>1, SpellsOne DEF Ask
<1>8. Spells(Do("empty"), 0, 1)
  BY <1>3, SpellsOne DEF Do
<1>9. Spells(Ask("filename"), l + 1, l + 2) /\ Spells(Ask("decode"), l + 2, l + 3)
  <2>1. {"filename", "decode"} \subseteq Prompts
    BY DEF Prompts, Texts, YesNo
  <2>2. l + 1 > l /\ l + 2 > l /\ l + 2 = (l + 1) + 1 /\ l + 3 = (l + 2) + 1
    BY <1>1
  <2>3. QED
    BY <1>1, <1>2, <2>1, <2>2, SpellsOne DEF Ask
<1>10. Spells(Do("decode"), l + 3, l + 4) /\ Spells(Do("advance"), l + 5, l + 6)
  <2>1. l + 3 > l /\ l + 5 > l /\ l + 4 = (l + 3) + 1 /\ l + 6 = (l + 5) + 1
    BY <1>1
  <2>2. QED
    BY <1>1, <1>4, <2>1, SpellsOne DEF Do
<1>11. Spells(shot, l + 4, l + 5)
  <2>1. l + 4 > l /\ l + 5 = (l + 4) + 1
    BY <1>1
  <2>2. QED
    BY <1>1, <1>5, <2>1, SpellsOne
<1>12. Spells(Ask("run") \o Ask("events") \o Ask("rate") \o Do("empty"), -3, 1)
  BY <1>7, <1>8, SpellsConcat
<1>13. Spells(Ask("run") \o Ask("events") \o Ask("rate") \o Do("empty") \o ClearRun, -3, l + 1)
  BY <1>1, <1>6, <1>12, SpellsConcat
<1>14. Spells(Run(shot), -3, l + 6)
  BY <1>1, <1>9, <1>10, <1>11, <1>13, SpellsConcat DEF Run
<1>15. QED
  BY <1>14 DEF l

-----------------------------------------------------------------------------
(***************************************************************************)
(* How far the counts have been cleared at each place.                     *)
(***************************************************************************)
Agree ==
    /\ front.count = front.number
    /\ fc.req \cap Counting = {} /\ word \cap Counting = {}

\* The mapped block: no trigger is let through from the mask on; the count is
\* cleared at the first pause at the latest, the number at the last; what the
\* nested calls put aside is the mask.
MaskedUpTo(k) ==
    /\ k \in 3..21 => fc.l1a = FALSE
    /\ k \in 7..10 \cup 13..16 => saved # <<>> /\ Last(saved) = FALSE
    /\ k = 5 => "count_rst" \in fc.req \/ front.count = 0
    /\ k \in 6..21 => front.count = 0
    /\ k \in 6..19 => fc.req \cap Counting = {}
    /\ k \in 9..21 => word \cap Counting = {}
    /\ k = 20 => "count_rst" \notin fc.req /\ ("ecr" \in fc.req \/ front.number = 0)
    /\ k = 21 => fc.req = {} /\ front.number = 0
    /\ k > 21 => Agree

\* The other block goes on triggering, unless it cannot.
CalmUpTo(k) == Calm => (k \in 2..4 => front.count = 0) /\ (k > 4 => Agree)

Progress(k) == IF Mapped THEN MaskedUpTo(k) ELSE CalmUpTo(k)

LEMMA PutAside ==
  ASSUME NEW S, NEW s \in Seq(S), NEW x
  PROVE  Append(s, x) # <<>> /\ Last(Append(s, x)) = x
<1>1. s \in Seq(S \cup {x})
  OBVIOUS
<1>2. Append(s, x) \in Seq(S \cup {x}) /\ Len(Append(s, x)) = Len(s) + 1 /\ Append(s, x)[Len(s) + 1] = x
  BY <1>1
<1>3. Len(s) \in Nat
  OBVIOUS
<1>4. QED
  BY <1>2, <1>3 DEF Last

LEMMA MaskedStep ==
  ASSUME FcShape, Mapped, NEW k \in 1..21, MaskedUpTo(k), FcOperation(MappedOps[k])
  PROVE  MaskedUpTo(k + 1)'
<1>1. CASE k \in {1, 6, 12}
  <2>1. MappedOps[k] = <<"save">>
    BY <1>1 DEF MappedOps
  <2>2. saved' = Append(saved, fc.l1a) /\ UNCHANGED <<fc, front, word>>
    BY <2>1 DEF FcOperation
  <2>3. saved' # <<>> /\ Last(saved') = fc.l1a
    BY <2>2, PutAside DEF FcShape
  <2>4. QED
    BY <1>1, <2>2, <2>3 DEF MaskedUpTo
<1>2. CASE k \in {2, 7, 13}
  <2>1. MappedOps[k] = <<"mask">>
    BY <1>2 DEF MappedOps
  <2>2. fc' = [fc EXCEPT !.l1a = FALSE] /\ UNCHANGED <<front, saved, word>>
    BY <2>1 DEF FcOperation
  <2>3. fc'.l1a = FALSE /\ fc'.req = fc.req
    BY <2>2 DEF FcShape
  <2>4. QED
    BY SMTT(30), <1>2, <2>2, <2>3 DEF MaskedUpTo
<1>3. CASE k \in {3, 8, 14, 18}
  <2>1. MappedOps[k] = <<"read">>
    BY <1>3 DEF MappedOps
  <2>2. word' = fc.req /\ UNCHANGED <<fc, front, saved>>
    BY <2>1 DEF FcOperation
  <2>3. QED
    BY <1>3, <2>2 DEF MaskedUpTo
<1>4. ASSUME NEW r, MappedOps[k] = <<"write", r>>
      PROVE  /\ fc'.l1a = fc.l1a /\ fc'.req = word \cup {r}
             /\ UNCHANGED <<front, saved, word>>
  BY <1>4 DEF FcOperation, FcShape
<1>5. CASE k = 4
  <2>1. MappedOps[k] = <<"write", "count_rst">>
    BY <1>5 DEF MappedOps
  <2>2. QED
    BY <1>4, <1>5, <2>1 DEF MaskedUpTo
<1>6. CASE k \in {9, 15}
  <2>1. PICK r \in {"ebr", "ocr"} : MappedOps[k] = <<"write", r>>
    BY <1>6 DEF MappedOps
  <2>2. fc'.req \cap Counting = {}
    BY <1>4, <1>6, <2>1 DEF MaskedUpTo, Counting
  <2>3. QED
    BY <1>4, <1>6, <2>1, <2>2 DEF MaskedUpTo
<1>7. CASE k = 19
  <2>1. MappedOps[k] = <<"write", "ecr">>
    BY <1>7 DEF MappedOps
  <2>2. "count_rst" \notin fc'.req /\ "ecr" \in fc'.req
    BY <1>4, <1>7, <2>1 DEF MaskedUpTo, Counting
  <2>3. QED
    BY <1>4, <1>7, <2>1, <2>2 DEF MaskedUpTo
<1>8. CASE k \in {5, 11, 17, 20}
  <2>1. MappedOps[k] = <<"sleep">>
    BY <1>8 DEF MappedOps
  <2>2. fc.req = {} /\ UNCHANGED <<fc, front, saved, word>>
    BY <2>1 DEF FcOperation
  <2>3. QED
    BY SMTT(30), <1>8, <2>2 DEF MaskedUpTo
<1>9. CASE k \in {10, 16, 21}
  <2>1. MappedOps[k] = <<"restore">>
    BY <1>9 DEF MappedOps
  <2>2. fc' = [fc EXCEPT !.l1a = Last(saved)] /\ UNCHANGED <<front, word>>
    BY <2>1 DEF FcOperation
  <2>3. fc'.l1a = Last(saved) /\ fc'.req = fc.req
    BY <2>2 DEF FcShape
  <2>4. QED
    BY SMTT(30), <1>9, <2>2, <2>3 DEF MaskedUpTo, Agree
<1>10. QED
  BY <1>1, <1>2, <1>3, <1>5, <1>6, <1>7, <1>8, <1>9

\* The other block sends at once; nothing is let through or held back meanwhile.
LEMMA PulsedStep ==
  ASSUME FcShape, ~Mapped, board' = board, NEW k \in 1..4, CalmUpTo(k), FcOperation(PulsedOps[k])
  PROVE  CalmUpTo(k + 1)' /\ Calm' = Calm
<1>1. PICK r \in {"count_rst", "ebr", "ocr", "ecr"} :
          /\ PulsedOps[k] = <<"pulse", r>>
          /\ k = 1 <=> r = "count_rst"
          /\ k = 4 <=> r = "ecr"
  BY DEF PulsedOps
<1>2. front' = Sent(r) /\ UNCHANGED <<fc, saved, word>>
  BY <1>1 DEF FcOperation
<1>3. Calm' = Calm
  BY <1>2 DEF Calm, Mapped
<1>4. /\ front'.count = IF r = "count_rst" THEN 0 ELSE front.count
      /\ front'.number = IF r = "ecr" THEN 0 ELSE front.number
  BY <1>2, SentShape DEF FcShape
<1>5. fc.req = {} /\ word = {}
  BY DEF FcShape
<1>6. QED
  BY <1>1, <1>2, <1>3, <1>4, <1>5 DEF CalmUpTo, Agree

-----------------------------------------------------------------------------
(***************************************************************************)
(* What the hardware and the other operations do to the counts.            *)
(***************************************************************************)
LEMMA AgreeHardware ==
  ASSUME FcShape, Agree, Hardware
  PROVE  Agree'
<1>1. CASE SendReset
  <2>1. PICK r \in fc.req : /\ front' = Sent(r) /\ fc' = [fc EXCEPT !.req = @ \ {r}] /\ word' = word
    BY <1>1 DEF SendReset
  <2>2. r \notin Counting
    BY <2>1 DEF Agree
  <2>3. front'.count = front.count /\ front'.number = front.number
    BY <2>1, <2>2, SentShape DEF FcShape, Counting
  <2>4. fc'.req \subseteq fc.req
    BY <2>1 DEF FcShape
  <2>5. QED
    BY <2>1, <2>3, <2>4 DEF Agree
<1>2. CASE SendCommand \/ Trigger
  <2>1. /\ front' = front \/ front' = Triggered
        /\ fc'.req = fc.req /\ word' = word
    BY <1>2 DEF SendCommand, Trigger, FcShape
  <2>2. QED
    BY <2>1, TriggeredShape DEF Agree, FcShape
<1>3. QED
  BY <1>1, <1>2 DEF Hardware

LEMMA MaskedHardware ==
  ASSUME FcShape, Mapped, NEW k \in Int, MaskedUpTo(k), Hardware
  PROVE  MaskedUpTo(k)'
<1>1. CASE k > 21
  BY <1>1, AgreeHardware DEF MaskedUpTo, Agree
<1>2. CASE SendReset /\ k <= 21
  <2>1. PICK r \in fc.req : /\ front' = Sent(r) /\ fc' = [fc EXCEPT !.req = @ \ {r}]
                            /\ UNCHANGED <<saved, word>>
    BY <1>2 DEF SendReset
  <2>2. /\ front'.count = IF r = "count_rst" THEN 0 ELSE front.count
        /\ front'.number = IF r = "ecr" THEN 0 ELSE front.number
    BY <2>1, SentShape DEF FcShape
  <2>3. fc'.l1a = fc.l1a /\ fc'.req = fc.req \ {r}
    BY <2>1 DEF FcShape
  <2>4. QED
    BY SMTT(30), <1>2, <2>1, <2>2, <2>3 DEF MaskedUpTo
<1>3. CASE (SendCommand \/ Trigger) /\ k <= 21
  <2>1. /\ front' = front \/ front' = Triggered
        /\ fc'.req = fc.req /\ fc'.l1a = fc.l1a /\ UNCHANGED <<saved, word>>
    BY <1>3 DEF SendCommand, Trigger, FcShape
  <2>2. k \in 3..21 => front' = front
    BY <2>1, TriggeredShape DEF MaskedUpTo, FcShape
  <2>3. QED
    BY <1>3, <2>1, <2>2 DEF MaskedUpTo
<1>4. QED
  BY <1>1, <1>2, <1>3 DEF Hardware

\* Nothing comes while the other block is calm, and what comes else does not matter.
LEMMA CalmHardware ==
  ASSUME FcShape, ~Mapped, NEW k \in Int, CalmUpTo(k), Hardware
  PROVE  CalmUpTo(k)'
<1>1. Trigger
  BY DEF Hardware, SendReset, SendCommand, FcShape
<1>2. fc' = fc /\ board' = board /\ ~Calm
  BY <1>1 DEF Trigger, Calm
<1>3. QED
  BY <1>2 DEF CalmUpTo, Calm, Mapped

LEMMA ProgressHardware ==
  ASSUME FcShape, NEW k \in Int, Progress(k), Hardware
  PROVE  Progress(k)'
<1>1. Mapped' = Mapped
  BY DEF Hardware, SendReset, SendCommand, Trigger, Mapped
<1>2. QED
  BY <1>1, MaskedHardware, CalmHardware DEF Progress

\* Before clear_run nothing is known, after it nothing more is to be reached.
LEMMA ProgressOutside ==
  ASSUME NEW k \in Int, k < 1 \/ k > Last1, Progress(k)
  PROVE  Progress(k + 1)
<1>1. CASE Mapped
  BY SMTT(30), <1>1 DEF Progress, MaskedUpTo, Last1
<1>2. CASE ~Mapped
  BY <1>2 DEF Progress, CalmUpTo, Last1
<1>3. QED
  BY <1>1, <1>2

\* A quiet operation keeps the agreement.
LEMMA QuietStep ==
  ASSUME FcShape, Agree, NEW op \in Quiet, FcOperation(op), board' = board
  PROVE  Agree'
<1>1. op[1] \in {"write", "pulse"} => op[2] \notin Counting
  BY DEF Quiet, Counted, Flagged, Asks, Words, Bare, Unfolding, Sends, Fires, Phasing
<1>2. CASE op[1] = "write"
  <2>1. fc' = [fc EXCEPT !.req = word \cup {op[2]}] /\ UNCHANGED <<front, word>>
    BY <1>2 DEF FcOperation
  <2>2. fc'.req = word \cup {op[2]}
    BY <2>1 DEF FcShape
  <2>3. QED
    BY <1>1, <1>2, <2>1, <2>2 DEF Agree
<1>3. CASE op[1] = "pulse"
  <2>1. front' = Sent(op[2]) /\ UNCHANGED <<fc, word>>
    BY <1>3 DEF FcOperation
  <2>2. QED
    BY <1>1, <1>3, <2>1, SentShape DEF Agree, FcShape, Counting
<1>4. CASE op[1] = "trigger"
  <2>1. front' = Triggered /\ UNCHANGED <<fc, word>>
    BY <1>4 DEF FcOperation
  <2>2. QED
    BY <2>1, TriggeredShape DEF Agree, FcShape
<1>5. CASE op[1] = "read"
  BY <1>5 DEF FcOperation, Agree
<1>6. CASE op[1] \in {"sleep", "save", "mask", "restore", "fire", "blink", "delay", "follow", "enables"}
  <2>1. fc'.req = fc.req /\ UNCHANGED <<front, word>>
    BY <1>6 DEF FcOperation, FcShape
  <2>2. QED
    BY <2>1 DEF Agree
<1>7. QED
  BY <1>2, <1>3, <1>4, <1>5, <1>6 DEF FcOperation

\* Reading the buffer does not count.
LEMMA ReadoutStep ==
  ASSUME FcShape, NEW op, OnReadout(op), UNCHANGED <<board, saved, word>>
  PROVE  /\ FcShape' /\ (Agree => Agree') /\ Mapped' = Mapped
         /\ op[1] # "external" => Calm' = Calm
<1>1. /\ DOMAIN front' = DOMAIN front /\ DOMAIN fc' = DOMAIN fc
      /\ front'.buf \in Int /\ fc'.delay = fc.delay
      /\ front'.count = front.count /\ front'.number = front.number
      /\ fc'.req = fc.req /\ fc'.fire = fc.fire
      /\ op[1] # "external" => fc' = fc
  <2>1. CASE op[1] = "external"
    BY <2>1 DEF OnReadout, FcShape
  <2>2. CASE op[1] \in {"advance", "empty"}
    BY <2>2 DEF OnReadout, FcShape
  <2>3. QED
    BY <2>1, <2>2 DEF OnReadout
<1>2. Mapped' = Mapped
  BY DEF Mapped
<1>3. QED
  BY <1>1, <1>2 DEF FcShape, Agree, Calm

-----------------------------------------------------------------------------
(***************************************************************************)
(* The invariant: while a clearing command runs, what it has still to do   *)
(* spells the rest of it, and the counts are as far as its place says.     *)
(***************************************************************************)
Place(k) == \E n \in Int : n > Last1 /\ Spells(prog, k, n)

NumberedInv ==
    /\ TypeInv
    /\ synced => Agree /\ prog \in Seq(Quiet)
    /\ cmd \in Clearing /\ prog # <<>> => ~synced /\ \E k \in Int : Place(k) /\ Progress(k)

LEMMA BoardSame ==
  ASSUME board' = board
  PROVE  /\ Mapped' = Mapped /\ Last1' = Last1 /\ ClearOps' = ClearOps
         /\ Quiet' = Quiet /\ Operation' = Operation /\ After' = After /\ Before' = Before
         /\ Unhandled' = Unhandled
<1>1. Mapped' = Mapped
  BY DEF Mapped
<1>3. Fires' = Fires /\ Phasing' = Phasing
  BY <1>1 DEF Fires, Phasing
<1>4. Quiet' = Quiet
  BY <1>1, <1>3 DEF Quiet, Sends
<1>5. Operation' = Operation
  BY <1>1, <1>4 DEF Operation, Sends
<1>6. After' = After /\ Before' = Before
  BY <1>3 DEF After, Before
<1>7. Last1' = Last1 /\ ClearOps' = ClearOps
  BY <1>1 DEF Last1, ClearOps
<1>8. Unhandled' = Unhandled
  BY <1>5 DEF Unhandled
<1>9. QED
  BY <1>1, <1>4, <1>5, <1>6, <1>7, <1>8

\* What is left of a program is at the next place.
LEMMA PlaceNext ==
  ASSUME board' = board, NEW k \in Int, NEW n \in Int, n > Last1, Spells(prog', k, n)
  PROVE  Place(k)'
<1>1. \A op, i : Fits(op, i)' <=> Fits(op, i)
  BY BoardSame DEF Fits
<1>2. Spells(prog, k, n)'
  BY <1>1, BoardSame DEF Spells
<1>3. QED
  BY <1>2, BoardSame DEF Place

\* An operation of a clearing command brings the counts to the next place.
LEMMA ClearingStep ==
  ASSUME FcShape, NEW k \in Int, NEW op, Fits(op, k), Progress(k), board' = board,
         \/ FcOperation(op)
         \/ (OnTool(op) \/ OnLinks(op)) /\ UNCHANGED fcvars
         \/ OnReadout(op) /\ UNCHANGED <<saved, word>>
  PROVE  Progress(k + 1)' /\ Calm' = Calm
<1>m. Mapped' = Mapped
  BY BoardSame
<1>1. CASE k \in 1..Last1
  <2>1. op = ClearOps[k]
    BY <1>1 DEF Fits
  <2>2. CASE Mapped
    <3>1. op = MappedOps[k] /\ k \in 1..21
      BY <1>1, <2>1, <2>2 DEF ClearOps, Last1
    <3>2. op[1] \in {"save", "mask", "read", "write", "sleep", "restore"}
      BY <3>1 DEF MappedOps
    <3>3. FcOperation(op)
      BY <3>2 DEF OnTool, OnLinks, OnReadout, Switches
    <3>4. QED
      BY <1>m, <2>2, <3>1, <3>3, MaskedStep DEF Progress, Calm
  <2>3. CASE ~Mapped
    <3>1. op = PulsedOps[k] /\ k \in 1..4
      BY <1>1, <2>1, <2>3 DEF ClearOps, Last1
    <3>2. op[1] = "pulse"
      BY <3>1 DEF PulsedOps
    <3>3. FcOperation(op)
      BY <3>2 DEF OnTool, OnLinks, OnReadout, Switches
    <3>4. QED
      BY <1>m, <2>3, <3>1, <3>3, PulsedStep DEF Progress
  <2>4. QED
    BY <2>2, <2>3
<1>2. CASE k < 1 \/ k > Last1
  <2>1. op \in Before \cup After
    BY <1>2 DEF Fits
  <2>2. op \in Quiet /\ op[1] \in {"ask", "empty", "decode", "throw", "advance", "trigger", "fire"}
    BY <2>1 DEF Before, After, Asks, Fires, Quiet, Words, Bare, Unfolding, Counted
  <2>3. op[1] = "fire" => Mapped
    BY <2>1 DEF Before, After, Asks, Fires
  <2>4. Calm' = Calm
    <3>1. CASE FcOperation(op)
      <4>1. op[1] = "trigger" \/ Mapped
        BY <2>2, <2>3, <3>1 DEF FcOperation
      <4>2. QED
        BY <1>m, <3>1, <4>1 DEF FcOperation, Calm
    <3>2. CASE UNCHANGED fcvars
      BY <1>m, <3>2 DEF fcvars, Calm
    <3>3. CASE OnReadout(op) /\ UNCHANGED <<saved, word>>
      BY <2>2, <3>3, ReadoutStep
    <3>4. QED
      BY <3>1, <3>2, <3>3
  <2>5. Agree => Agree'
    <3>1. CASE FcOperation(op)
      BY <2>2, <3>1, QuietStep
    <3>2. CASE UNCHANGED fcvars
      BY <3>2 DEF fcvars, Agree
    <3>3. CASE OnReadout(op) /\ UNCHANGED <<saved, word>>
      BY <3>3, ReadoutStep
    <3>4. QED
      BY <3>1, <3>2, <3>3
  <2>6. CASE Mapped
    <3>1. k < 1 \/ k > 21
      BY <1>2, <2>6 DEF Last1
    <3>2. QED
      BY <1>m, <2>4, <2>5, <2>6, <3>1 DEF Progress, MaskedUpTo
  <2>7. CASE ~Mapped
    <3>1. k < 1 \/ k > 4
      BY <1>2, <2>7 DEF Last1
    <3>2. QED
      BY <1>m, <2>4, <2>5, <2>7, <3>1 DEF Progress, CalmUpTo
  <2>8. QED
    BY <2>6, <2>7
<1>3. Last1 \in Int
  BY DEF Last1
<1>4. QED
  BY <1>1, <1>2, <1>3

-----------------------------------------------------------------------------
(***************************************************************************)
(* Every action keeps the invariant.                                       *)
(***************************************************************************)
LEMMA NumberedInit == Init => NumberedInv
<1> SUFFICES ASSUME Init PROVE NumberedInv
  OBVIOUS
<1>1. FcShape
  BY FcShapeInit DEF Init
<1>2. path = <<"ROOT">> /\ prog = <<>> /\ synced = FALSE
  BY DEF Init, MenuInit
<1>3. path \in Seq(MenuName) /\ prog \in Seq(Operation)
  BY <1>2 DEF MenuName
<1>4. QED
  BY <1>1, <1>2, <1>3 DEF NumberedInv, TypeInv

LEMMA QuietType == \A s \in Seq(Quiet) : s \in Seq(Operation)
<1>1. Quiet \subseteq Operation
  BY DEF Operation
<1>2. QED
  BY <1>1

LEMMA SpellsType == \A s, k, n : Spells(s, k, n) => s \in Seq(Operation)
  BY DEF Spells

\* What each command begins with.
LEMMA StartedProgram ==
  ASSUME NEW m \in MenuName, NEW c \in Commands[m]
  PROVE  /\ Program[m][c] \in Seq(Operation)
         /\ c \notin Resetting => Program[m][c] \in Seq(Quiet)
         /\ c \in Clearing => \E k \in Int, n \in Int :
                n > Last1 /\ Spells(Program[m][c], k, n) /\ Progress(k)
<1>1. Last1 \in Nat /\ Last1 + 1 > Last1 /\ Last1 + 6 > Last1 /\ Last1 + 1 \in Int /\ Last1 + 6 \in Int
  BY DEF Last1
<1>2. Progress(1) /\ Progress(-3)
  BY DEF Progress, MaskedUpTo, CalmUpTo
<1>3. CASE c \notin Resetting
  BY <1>3, ProgramQuiet, QuietType DEF Resetting
<1>4. CASE m = "FAST_CONTROL" /\ c = "RUN_CLEAR"
  <2>1. Program[m][c] = ClearRun
    BY <1>4 DEF Program, FastControlCommands
  <2>2. QED
    BY <1>1, <1>2, <1>4, <2>1, SpellsClear, SpellsType DEF Resetting, Clearing
<1>5. CASE m = "FAST_CONTROL" /\ c = "COUNTER_RESET"
  <2>1. Program[m][c] = ResetCounters \o Do("print")
    BY <1>5 DEF Program, FastControlCommands
  <2>2. ResetCounters \in Seq(Operation)
    <3>1. Mapped => <<"read">> \in Operation /\ <<"write", "count_rst">> \in Operation
      BY DEF Operation, Quiet, Words, Bare, Sends, Counting
    <3>2. ~Mapped => <<"pulse", "count_rst">> \in Operation
      BY DEF Operation, Sends, Counting
    <3>3. QED
      BY <3>1, <3>2 DEF ResetCounters, Request, Pulse
  <2>3. Do("print") \in Seq(Operation)
    <3>1. "print" \in Bare
      BY DEF Bare
    <3>2. QED
      BY <3>1, DoQuiet, QuietType
  <2>4. Program[m][c] \in Seq(Operation)
    BY <2>1, <2>2, <2>3
  <2>5. QED
    BY <1>5, <2>4 DEF Resetting, Clearing
<1>6. CASE m = "DAQ" /\ c \in {"PEDESTAL", "CHARGE"}
  <2>1. PICK shot : /\ Program[m][c] = Run(shot)
                    /\ \/ shot = <<<<"trigger">>>>
                       \/ Mapped /\ \E p \in {"pedestal", "charge"} : shot = <<<<"fire", p>>>>
    BY <1>6 DEF Program, DaqCommands, SendL1A, Chargepulse
  <2>2. Spells(Program[m][c], -3, Last1 + 6)
    BY <2>1, SpellsRun
  <2>3. QED
    BY <1>1, <1>2, <1>6, <2>2, SpellsType DEF Resetting, Clearing
<1>7. QED
  BY <1>3, <1>4, <1>5, <1>6, ProgramQuiet

LEMMA LastType == ASSUME NEW S, NEW s \in Seq(S), s # <<>> PROVE Last(s) \in S
  BY DEF Last

LEMMA FcSame ==
  ASSUME UNCHANGED fcvars
  PROVE  /\ board' = board /\ (FcShape <=> FcShape') /\ (Agree <=> Agree') /\ \A k \in Int : Progress(k) => Progress(k)'
<1>1. Mapped' = Mapped /\ Calm' = Calm
  BY DEF fcvars, Mapped, Calm
<1>2. (FcShape <=> FcShape') /\ (Agree <=> Agree')
  BY <1>1 DEF fcvars, FcShape, Agree
<1>3. \A k \in Int : Progress(k) => Progress(k)'
  BY <1>1 DEF Progress, MaskedUpTo, CalmUpTo, Agree, fcvars
<1>4. QED
  BY <1>2, <1>3 DEF fcvars

LEMMA StartStep ==
  ASSUME NumberedInv, Start
  PROVE  NumberedInv'
<1> DEFINE m == Last(path)
           c == cmd'
<1>1. /\ path # <<>> /\ path' = path /\ c \in Commands[m] /\ prog' = Program[m][c]
      /\ synced' = (synced /\ c \notin Resetting) /\ UNCHANGED fcvars
  BY DEF Start, StartCommand, Read, Resetting, Clearing
<1>2. m \in MenuName
  BY <1>1, LastType DEF NumberedInv, TypeInv
<1> HIDE DEF m, c
<1>3. /\ prog' \in Seq(Operation)
      /\ c \notin Resetting => prog' \in Seq(Quiet)
      /\ c \in Clearing => \E k \in Int, n \in Int : n > Last1 /\ Spells(prog', k, n) /\ Progress(k)
  BY <1>1, <1>2, StartedProgram
<1>4. TypeInv'
  BY <1>1, <1>3, FcSame, BoardSame DEF NumberedInv, TypeInv
<1>5. synced' => Agree' /\ (prog \in Seq(Quiet))'
  BY <1>1, <1>3, FcSame, BoardSame DEF NumberedInv
<1>6. c \in Clearing => ~synced' /\ \E k \in Int : Place(k)' /\ Progress(k)'
  BY <1>1, <1>3, FcSame, PlaceNext DEF Resetting
<1>7. QED
  BY <1>4, <1>5, <1>6 DEF NumberedInv, c

\* A step of the operator takes a question from the front of the program, or all of it.
LEMMA OperatorProgram ==
  ASSUME Operator
  PROVE  /\ cmd' = cmd
         /\ \/ prog' = prog \/ prog' = <<>>
            \/ prog # <<>> /\ prog' = Tail(prog) /\ \E p : Head(prog) = <<"ask", p>>
<1>1. CASE \E p \in Prompts \ {"request"} : Waiting(p) /\ Answer(p, Default(p), p \in Counts)
  BY <1>1 DEF Answer, Abandon, Waiting, Idle
<1>2. CASE EnterMenu(Menus) \/ LeaveMenu \/ StayInMenu(Menus, Commands) \/ TypeLine(Prompts)
  BY <1>2 DEF EnterMenu, LeaveMenu, StayInMenu, TypeLine
<1>3. CASE EndOfInput(Prompts)
  BY <1>3 DEF EndOfInput, Abandon
<1>4. QED
  BY <1>1, <1>2, <1>3 DEF Operator

LEMMA OperatorStep ==
  ASSUME NumberedInv, Operator
  PROVE  NumberedInv'
<1>1. UNCHANGED <<fcvars, synced>>
  BY DEF Operator, own
<1>2. path' \in Seq(MenuName)
  <2>1. CASE EnterMenu(Menus)
    <3>1. path # <<>> /\ \E m \in Menus[Last(path)] : path' = Append(path, m)
      BY <2>1 DEF EnterMenu, Read
    <3>2. Last(path) \in MenuName /\ path \in Seq(MenuName)
      BY <3>1, LastType DEF NumberedInv, TypeInv
    <3>3. \A m \in MenuName : Menus[m] \subseteq MenuName
      BY DEF Menus, MenuName
    <3>4. QED
      BY <3>1, <3>2, <3>3
  <2>2. CASE LeaveMenu
    BY <2>2, SavedType DEF LeaveMenu, NumberedInv, TypeInv
  <2>3. CASE UNCHANGED path
    BY <2>3 DEF NumberedInv, TypeInv
  <2>4. CASE EndOfInput(Prompts)
    <3>1. path' = <<>> \/ path' = path
      BY <2>4 DEF EndOfInput
    <3>2. <<>> \in Seq(MenuName) /\ path \in Seq(MenuName)
      BY DEF NumberedInv, TypeInv
    <3>3. QED
      BY <3>1, <3>2
  <2>5. QED
    BY <2>1, <2>2, <2>3, <2>4 DEF Operator, StayInMenu, Answer, TypeLine
<1>3. /\ cmd' = cmd
      /\ \/ prog' = prog \/ prog' = <<>>
         \/ prog # <<>> /\ prog' = Tail(prog) /\ \E p : Head(prog) = <<"ask", p>>
  BY OperatorProgram
<1>4. /\ prog' \in Seq(Operation)
      /\ prog \in Seq(Quiet) => prog' \in Seq(Quiet)
  <2>1. \A S : <<>> \in Seq(S)
    OBVIOUS
  <2>2. \A S : prog \in Seq(S) /\ prog # <<>> => Tail(prog) \in Seq(S)
    OBVIOUS
  <2>3. \A S : prog \in Seq(S) => prog' \in Seq(S)
    BY <1>3, <2>1, <2>2
  <2>4. QED
    BY <2>3 DEF NumberedInv, TypeInv
<1>5. TypeInv'
  BY <1>1, <1>2, <1>4, FcSame, BoardSame DEF NumberedInv, TypeInv
<1>6. synced' => Agree' /\ (prog \in Seq(Quiet))'
  BY <1>1, <1>4, FcSame, BoardSame DEF NumberedInv
<1>7. ASSUME cmd' \in Clearing, prog' # <<>>
      PROVE  ~synced' /\ \E k \in Int : Place(k)' /\ Progress(k)'
  <2>1. cmd \in Clearing /\ prog # <<>>
    BY <1>3, <1>7
  <2>2. PICK k \in Int, n \in Int : n > Last1 /\ Spells(prog, k, n) /\ Progress(k)
    BY <2>1 DEF NumberedInv, Place
  <2>3. ~synced'
    BY <1>1, <2>1 DEF NumberedInv
  <2>4. CASE prog' = prog
    BY <1>1, <2>2, <2>3, <2>4, FcSame, PlaceNext
  <2>5. CASE prog' = Tail(prog) /\ \E p : Head(prog) = <<"ask", p>>
    <3>1. Fits(Head(prog), k) /\ Spells(prog', k + 1, n)
      BY <2>1, <2>2, <2>5, SpellsTail
    <3>2. k < 1 \/ k > Last1
      <4>1. \A i \in 1..Last1 : ClearOps[i][1] # "ask"
        BY DEF ClearOps, Last1, MappedOps, PulsedOps
      <4>2. Last1 \in Int
        BY DEF Last1
      <4>3. QED
        BY <2>5, <3>1, <4>1, <4>2 DEF Fits
    <3>3. Progress(k + 1) /\ k + 1 \in Int
      BY <2>2, <3>2, ProgressOutside
    <3>4. QED
      BY <1>1, <2>2, <2>3, <3>1, <3>3, FcSame, PlaceNext
  <2>6. QED
    BY <1>3, <1>7, <2>4, <2>5
<1>8. QED
  BY <1>5, <1>6, <1>7 DEF NumberedInv

\* Of the operations that unfold only the question whether to decode is in a run.
LEMMA UnfoldStep ==
  ASSUME NumberedInv, Unfold
  PROVE  NumberedInv'
<1>1. /\ prog # <<>> /\ Head(prog)[1] \in Unfolding /\ prog' = Unfolded(Head(prog)) \o Tail(prog)
      /\ UNCHANGED <<fcvars, synced, path, cmd>>
  BY DEF Unfold, own
<1>2. Head(prog) \in Operation /\ prog \in Seq(Operation)
  BY <1>1 DEF NumberedInv, TypeInv
<1>3. Unfolded(Head(prog)) \in Seq(Quiet)
  BY <1>1, <1>2, UnfoldedQuiet DEF NumberedInv, TypeInv, FcShape
<1>4. Tail(prog) \in Seq(Operation) /\ (prog \in Seq(Quiet) => Tail(prog) \in Seq(Quiet))
  BY <1>1, <1>2
<1>5. prog' \in Seq(Operation) /\ (prog \in Seq(Quiet) => prog' \in Seq(Quiet))
  BY <1>1, <1>3, <1>4, QuietType
<1>6. TypeInv'
  BY <1>1, <1>5, FcSame, BoardSame DEF NumberedInv, TypeInv
<1>7. synced' => Agree' /\ (prog \in Seq(Quiet))'
  BY <1>1, <1>5, FcSame, BoardSame DEF NumberedInv
<1>8. ASSUME cmd' \in Clearing
      PROVE  ~synced' /\ \E k \in Int : Place(k)' /\ Progress(k)'
  <2>1. PICK k \in Int, n \in Int : n > Last1 /\ Spells(prog, k, n) /\ Progress(k)
    BY <1>1, <1>8 DEF NumberedInv, Place
  <2>2. ~synced'
    BY <1>1, <1>8 DEF NumberedInv
  <2>3. Fits(Head(prog), k) /\ Spells(Tail(prog), k + 1, n)
    BY <1>1, <2>1, SpellsTail
  <2>4. Last1 \in Nat
    BY DEF Last1
  <2>5. k > Last1 /\ Head(prog)[1] = "decode"
    <3>1. \A i \in 1..Last1 : ClearOps[i][1] \notin Unfolding
      BY DEF ClearOps, Last1, MappedOps, PulsedOps, Unfolding
    <3>2. \A op \in Before : op[1] \notin Unfolding
      BY DEF Before, Asks, Unfolding
    <3>3. \A op \in After : op[1] \in Unfolding => op[1] = "decode"
      BY DEF After, Asks, Fires, Unfolding
    <3>4. QED
      BY <1>1, <2>3, <2>4, <3>1, <3>2, <3>3 DEF Fits
  <2>6. Unfolded(Head(prog)) = Do("throw") \/ Unfolded(Head(prog)) = <<>>
    BY <2>5 DEF Unfolded
  <2>7. CASE Unfolded(Head(prog)) = Do("throw")
    <3>1. <<"throw">> \in After /\ <<"throw">> \in Operation
      BY DEF After, Operation, Quiet, Words, Bare
    <3>2. Fits(<<"throw">>, k)
      BY <2>4, <2>5, <3>1 DEF Fits
    <3>3. Spells(<<<<"throw">>>>, k, k + 1)
      BY <3>2, SpellsOne
    <3>4. Spells(prog', k, n)
      BY <1>1, <2>3, <2>7, <3>3, SpellsConcat DEF Do
    <3>5. QED
      BY <1>1, <2>1, <2>2, <3>4, FcSame, PlaceNext
  <2>8. CASE Unfolded(Head(prog)) = <<>>
    <3>1. prog' = Tail(prog)
      BY <1>1, <1>4, <2>8
    <3>2. Progress(k + 1) /\ k + 1 \in Int
      BY <2>1, <2>5, ProgressOutside
    <3>3. QED
      BY <1>1, <2>1, <2>2, <2>3, <3>1, <3>2, FcSame, PlaceNext
  <2>9. QED
    BY <2>6, <2>7, <2>8
<1>9. QED
  BY <1>6, <1>7, <1>8 DEF NumberedInv

\* An operation is done: a quiet one keeps the agreement, one of a clearing
\* command comes nearer to it, and the last one has reached it.
LEMMA WorkStep ==
  ASSUME NumberedInv, Work
  PROVE  NumberedInv'
<1> DEFINE op == Head(prog)
<1>1. /\ prog # <<>> /\ prog' = Tail(prog) /\ UNCHANGED <<board, path, cmd>>
      /\ \/ FcOperation(op)
         \/ (OnTool(op) \/ OnLinks(op)) /\ UNCHANGED fcvars
         \/ OnReadout(op) /\ UNCHANGED <<saved, word>>
      /\ synced' = (synced \/ (prog' = <<>> /\ cmd \in Clearing /\ Calm))
  BY DEF Work, Ended, Clearing, fcvars
<1>2. op \in Operation /\ (prog \in Seq(Quiet) => op \in Quiet) /\ FcShape
  BY <1>1 DEF NumberedInv, TypeInv
<1>3. prog' \in Seq(Operation) /\ (prog \in Seq(Quiet) => prog' \in Seq(Quiet))
  BY <1>1 DEF NumberedInv, TypeInv
<1> HIDE DEF op
<1>4. FcShape'
  BY <1>1, <1>2, FcShapeOperation, ReadoutStep, FcSame
<1>5. TypeInv'
  BY <1>1, <1>3, <1>4, BoardSame DEF NumberedInv, TypeInv
<1>6. CASE cmd \notin Clearing
  <2>1. synced' <=> synced
    BY <1>1, <1>6
  <2>2. synced => Agree' /\ (prog \in Seq(Quiet))'
    BY <1>1, <1>2, <1>3, QuietStep, ReadoutStep, FcSame, BoardSame DEF NumberedInv
  <2>3. QED
    BY <1>1, <1>5, <1>6, <2>1, <2>2 DEF NumberedInv
<1>7. CASE cmd \in Clearing
  <2>1. PICK k \in Int, n \in Int : n > Last1 /\ Spells(prog, k, n) /\ Progress(k)
    BY <1>1, <1>7 DEF NumberedInv, Place
  <2>2. ~synced
    BY <1>1, <1>7 DEF NumberedInv
  <2>3. Fits(op, k) /\ Spells(prog', k + 1, n) /\ k < n
    BY <1>1, <2>1, SpellsTail DEF op
  <2>4. Progress(k + 1)' /\ Calm' = Calm
    BY <1>1, <1>2, <2>1, <2>3, ClearingStep
  <2>5. Place(k + 1)'
    BY <1>1, <2>1, <2>3, PlaceNext
  <2>6. CASE prog' = <<>>
    <3>1. k + 1 = n
      BY <2>3, <2>6 DEF Spells
    <3>2. k + 1 > Last1 /\ Last1' = Last1
      BY <1>1, <2>1, <3>1, BoardSame
    <3>3. Calm => Agree'
      BY <2>4, <3>2 DEF Progress, MaskedUpTo, CalmUpTo, Last1
    <3>4. (prog \in Seq(Quiet))'
      BY <2>6
    <3>5. QED
      BY <1>1, <1>5, <2>2, <2>6, <3>3, <3>4 DEF NumberedInv
  <2>7. CASE prog' # <<>>
    <3>1. synced' = (synced \/ (prog' = <<>> /\ cmd \in Clearing /\ Calm))
      BY <1>1
    <3>2. ~synced'
      BY <2>2, <2>7, <3>1
    <3>3. k + 1 \in Int
      OBVIOUS
    <3>4. QED
      BY <1>5, <2>4, <2>5, <3>2, <3>3 DEF NumberedInv
  <2>8. QED
    BY <2>6, <2>7
<1>8. QED
  BY <1>6, <1>7

LEMMA ThrowStep ==
  ASSUME NumberedInv, Throw
  PROVE  NumberedInv'
<1>1. prog' = <<>> /\ UNCHANGED <<fcvars, synced, path, cmd>>
  BY DEF Throw, Abandon, own
<1>2. (prog \in Seq(Operation))' /\ (prog \in Seq(Quiet))'
  BY <1>1
<1>3. QED
  BY <1>1, <1>2, FcSame DEF NumberedInv, TypeInv

LEMMA HardwareStep ==
  ASSUME NumberedInv, Hardware, UNCHANGED <<menuvars, linkvars, own>>
  PROVE  NumberedInv'
<1>1. board' = board /\ UNCHANGED <<prog, path, cmd, synced>>
  BY DEF Hardware, SendReset, SendCommand, Trigger, menuvars, own
<1>2. TypeInv'
  BY <1>1, FcShapeHardware, BoardSame DEF NumberedInv, TypeInv
<1>3. synced' => Agree' /\ (prog \in Seq(Quiet))'
  BY <1>1, AgreeHardware, BoardSame DEF NumberedInv, TypeInv
<1>4. ASSUME cmd \in Clearing, prog # <<>>
      PROVE  ~synced' /\ \E k \in Int : Place(k)' /\ Progress(k)'
  <2>1. PICK k \in Int, n \in Int : n > Last1 /\ Spells(prog, k, n) /\ Progress(k)
    BY <1>4 DEF NumberedInv, Place
  <2>2. Progress(k)'
    BY <2>1, ProgressHardware DEF NumberedInv, TypeInv
  <2>3. Place(k)'
    BY <1>1, <2>1, PlaceNext
  <2>4. QED
    BY <1>1, <1>4, <2>2, <2>3 DEF NumberedInv
<1>5. QED
  BY <1>1, <1>2, <1>3, <1>4 DEF NumberedInv

LEMMA NumberedStep == NumberedInv /\ [Next]_svars => NumberedInv'
<1> SUFFICES ASSUME NumberedInv, [Next]_svars PROVE NumberedInv'
  OBVIOUS
<1>1. CASE UNCHANGED svars
  <2>1. UNCHANGED <<fcvars, prog, path, cmd, synced>>
    BY <1>1 DEF svars, menuvars
  <2>2. TypeInv'
    BY <2>1, FcSame, BoardSame DEF NumberedInv, TypeInv
  <2>3. synced' => Agree' /\ (prog \in Seq(Quiet))'
    BY <2>1, FcSame, BoardSame DEF NumberedInv
  <2>4. ASSUME cmd \in Clearing, prog # <<>>
        PROVE  ~synced' /\ \E k \in Int : Place(k)' /\ Progress(k)'
    BY <2>1, <2>4, FcSame, PlaceNext DEF NumberedInv, Place
  <2>5. QED
    BY <2>1, <2>2, <2>3, <2>4 DEF NumberedInv
<1>2. QED
  BY <1>1, StartStep, OperatorStep, UnfoldStep, WorkStep, ThrowStep, HardwareStep DEF Next, Tool

\* Once a run was cleared the triggers the block has counted are those the chips
\* have numbered, for any script and any operator, and wherever the requests go
\* out and the triggers fall between the accesses (FastControlCMS_MMap::clear_run).
THEOREM NumberedCorrect == Spec => []Numbered
<1>1. NumberedInv => Numbered
  BY DEF NumberedInv, Numbered, Agree
<1>2. QED
  BY <1>1, NumberedInit, NumberedStep, PTL DEF Spec

-----------------------------------------------------------------------------
(***************************************************************************)
(* The window that the search for a phase takes.                           *)
(***************************************************************************)
Tried(x) == x % Step = 0

\* Phases that are tried are a step apart, and so is what is counted from one to
\* another; each number has one at or below it within a step.
LEMMA Apart ==
  ASSUME NEW x \in Int, NEW y \in Int, Tried(x), Tried(y)
  PROVE  /\ x < y => x + Step <= y
         /\ Tried(x + Step) /\ Tried(x - Step)
         /\ \A z \in Int : Tried(z) => Tried(x - y + z)
<1>1. PICK k \in Int : x = Step * k
  BY PhaseAssumption DEF Tried
<1>2. PICK j \in Int : y = Step * j
  BY PhaseAssumption DEF Tried
<1>3. \A z \in Int : Tried(z) => \E l \in Int : z = Step * l
  BY PhaseAssumption DEF Tried
<1>4. \A i \in Int : (Step * i) % Step = 0
  BY PhaseAssumption
<1>5. x < y => k < j
  <2>1. k >= j => Step * k >= Step * j
    BY PhaseAssumption
  <2>2. QED
    BY <1>1, <1>2, <2>1, PhaseAssumption
<1>6. k < j => Step * k + Step <= Step * j
  BY PhaseAssumption
<1>7. Step * (k + 1) = x + Step /\ Step * (k - 1) = x - Step
  BY <1>1, PhaseAssumption
<1>8. \A l \in Int : Step * (k - j + l) = x - y + Step * l
  BY <1>1, <1>2, PhaseAssumption
<1>9. Tried(x + Step) /\ Tried(x - Step)
  BY <1>4, <1>7 DEF Tried
<1>10. ASSUME NEW z \in Int, Tried(z) PROVE Tried(x - y + z)
  <2>1. PICK l \in Int : z = Step * l
    BY <1>3, <1>10
  <2>2. k - j + l \in Int /\ Step * (k - j + l) = x - y + z
    BY <1>8, <2>1
  <2>3. QED
    BY <1>4, <2>2 DEF Tried
<1>11. QED
  BY <1>1, <1>2, <1>5, <1>6, <1>9, <1>10

LEMMA Nearest ==
  ASSUME NEW p \in Nat
  PROVE  \E b \in Nat : Tried(b) /\ b <= p /\ p < b + Step
<1> DEFINE k == p \div Step
           r == p % Step
<1>1. k \in Int /\ r \in Int /\ p = Step * k + r /\ 0 <= r /\ r < Step
  BY PhaseAssumption
<1> HIDE DEF k, r
<1>2. Step * k \in Int /\ (Step * k) % Step = 0
  BY <1>1, PhaseAssumption
<1>3. Step * k >= 0
  <2>1. k < 0 => Step * k + Step <= 0
    BY <1>1, PhaseAssumption
  <2>2. QED
    BY <1>1, <1>2, <2>1, PhaseAssumption
<1>4. Step * k \in Nat /\ Step * k <= p /\ p < Step * k + Step
  BY <1>1, <1>2, <1>3, PhaseAssumption
<1>5. QED
  BY <1>2, <1>4 DEF Tried

LEMMA PhasesType ==
  /\ Phases \subseteq Nat /\ IsFiniteSet(Phases)
  /\ \A x : x \in Phases <=> x \in Int /\ 0 <= x /\ x < Top /\ Tried(x)
<1>1. IsFiniteSet(0..(Top - 1))
  BY PhaseAssumption, FS_Interval
<1>2. Phases \subseteq 0..(Top - 1)
  BY DEF Phases
<1>3. QED
  BY <1>1, <1>2, FS_Subset, PhaseAssumption DEF Phases, Tried

\* The least of some natural numbers, and the greatest of numbers if there is one.
LEMMA LeastOf ==
  ASSUME NEW S, S \subseteq Nat, S # {}
  PROVE  Min(S) \in S /\ \A y \in S : Min(S) <= y
<1> DEFINE less == OpToRel(<, Nat)
<1>1. IsWellFoundedOn(less, Nat)
  BY NatLessThanWellFounded
<1>2. \A x, y \in S : <<y, x>> \in less <=> y < x
  BY DEF OpToRel
<1> HIDE DEF less
<1>3. PICK x \in S : \A y \in S : ~(<<y, x>> \in less)
  BY <1>1, WFMin
<1>4. x \in S /\ \A y \in S : x <= y
  <2>1. \A y \in S : ~(y < x)
    BY <1>2, <1>3
  <2>2. QED
    BY <2>1
<1>5. \E m : m \in S /\ \A y \in S : m <= y
  BY <1>4
<1>6. QED
  BY <1>5, Zenon DEF Min

LEMMA GreatestIs ==
  ASSUME NEW S \in SUBSET Int, NEW m \in S, \A x \in S : x <= m
  PROVE  Max(S) = m
<1>1. \E x : x \in S /\ \A y \in S : x >= y
  OBVIOUS
<1>2. Max(S) \in S /\ \A y \in S : Max(S) >= y
  BY <1>1, Zenon DEF Max
<1>3. Max(S) \in Int /\ m \in Int /\ Max(S) >= m /\ Max(S) <= m
  BY <1>2
<1>4. QED
  BY <1>3

\* The phase from which a number is reached within a step.
LEMMA BelowIs ==
  ASSUME NEW p \in Nat, NEW b \in Nat, Tried(b), b <= p, p < b + Step, b < Top
  PROVE  Below(p) = b
<1>1. b \in Phases
  BY PhasesType
<1>2. \A r \in Phases : r <= p => r <= b
  <2>1. SUFFICES ASSUME NEW r \in Phases, r <= p, b < r PROVE FALSE
    BY PhasesType
  <2>2. r \in Int /\ Tried(r)
    BY PhasesType
  <2>3. b + Step <= r
    BY <2>1, <2>2, Apart
  <2>4. QED
    BY <2>1, <2>2, <2>3, PhaseAssumption
<1>3. {r \in Phases : r <= p} \in SUBSET Int
  BY PhasesType
<1>4. QED
  BY <1>1, <1>2, <1>3, GreatestIs DEF Below

\* A window from a to e: without mismatch all along, with one before and behind.
Points(a, e) == {q \in Phases : a <= q /\ q <= e}
Window(a, e, good) ==
    /\ a \in good /\ a - Step \notin good /\ e \in Nat /\ a <= e /\ e <= Top
    /\ Points(a, e) \subseteq good
    /\ e = Top \/ (e + 1 \in Phases /\ e + 1 \notin good)

LEMMA WindowsAre ==
  ASSUME NEW good \in SUBSET Phases
  PROVE  \A w \in Windows(good) : w = <<w[1], w[2]>> /\ Window(w[1], w[2], good)
<1> SUFFICES ASSUME NEW a \in Starts(good) PROVE Window(a, Edge(a, good), good)
  BY DEF Windows
<1> DEFINE behind == {i \in Phases \ good : i > a}
           ends == {i - 1 : i \in behind} \cup {Top}
           e == Min(ends)
<1>1. a \in Nat /\ a < Top /\ a \in good /\ a - Step \notin good
  BY PhasesType DEF Starts
<1>2. \A i \in behind : i \in Nat /\ i > a /\ i < Top /\ i \notin good /\ i \in Phases
  BY PhasesType
<1>3. ends \subseteq Nat /\ Top \in ends
  BY <1>1, <1>2, PhaseAssumption
<1> HIDE DEF ends
<1>4. e \in ends /\ \A y \in ends : e <= y
  BY <1>3, LeastOf
<1> HIDE DEF e
<1>5. e \in Nat /\ e <= Top
  BY <1>3, <1>4
<1>6. a <= e /\ (e = Top \/ (e + 1 \in Phases /\ e + 1 \notin good))
  <2>1. e = Top \/ \E i \in behind : e = i - 1
    BY <1>4 DEF ends
  <2>2. ASSUME NEW i \in behind, e = i - 1 PROVE a <= e /\ e + 1 \in Phases /\ e + 1 \notin good
    <3>1. e + 1 = i
      BY <1>2, <2>2
    <3>2. QED
      BY <1>1, <1>2, <2>2, <3>1
  <2>3. QED
    BY <1>1, <2>1, <2>2, PhaseAssumption
<1>7. Points(a, e) \subseteq good
  <2>1. SUFFICES ASSUME NEW q \in Phases, a <= q, q <= e, q \notin good PROVE FALSE
    BY DEF Points
  <2>2. q \in Nat /\ q # a
    BY <1>1, <2>1, PhasesType
  <2>3. q \in behind
    BY <1>1, <2>1, <2>2
  <2>4. q - 1 \in ends
    BY <2>3 DEF ends
  <2>5. QED
    BY <1>4, <1>5, <2>1, <2>2, <2>4
<1>8. Edge(a, good) = e
  BY DEF Edge, e, ends
<1>9. QED
  BY <1>1, <1>5, <1>6, <1>7, <1>8 DEF Window

\* The points around a phase without a gap are those of its window.
LEMMA AroundWindow ==
  ASSUME NEW good \in SUBSET Phases, NEW a \in Nat, NEW e \in Nat, Window(a, e, good),
         NEW p \in Nat, Below(p) \in Points(a, e)
  PROVE  Around(p, good) = Points(a, e)
<1> DEFINE b == Below(p)
<1>1. b \in Nat /\ a <= b /\ b <= e
  BY PhasesType DEF Points
<1>2. /\ Points(a, e) \subseteq good /\ a - Step \notin good /\ a \in Phases /\ a \in Nat /\ Tried(a)
      /\ e = Top \/ (e + 1 \in Phases /\ e + 1 \notin good)
  BY PhasesType DEF Window
<1> HIDE DEF b
<1>3. Around(p, good) = {q \in good : \A r \in Phases : (q <= r /\ r <= b) \/ (b <= r /\ r <= q) => r \in good}
  BY DEF Around, b
<1>4. ASSUME NEW q \in Points(a, e) PROVE q \in Around(p, good)
  <2>1. q \in Nat /\ a <= q /\ q <= e /\ q \in good
    BY <1>2, PhasesType DEF Points
  <2>2. ASSUME NEW r \in Phases, (q <= r /\ r <= b) \/ (b <= r /\ r <= q) PROVE r \in good
    <3>1. a <= r /\ r <= e
      BY <1>1, <2>1, <2>2, PhasesType
    <3>2. QED
      BY <1>2, <3>1 DEF Points
  <2>3. QED
    BY <1>3, <2>1, <2>2
<1>5. ASSUME NEW q \in Around(p, good) PROVE q \in Points(a, e)
  <2>1. /\ q \in good /\ q \in Phases /\ q \in Nat /\ Tried(q) /\ q < Top
        /\ \A r \in Phases : (q <= r /\ r <= b) \/ (b <= r /\ r <= q) => r \in good
    BY <1>3, PhasesType
  <2>2. ASSUME q < a PROVE FALSE
    <3>1. q + Step <= a /\ Tried(a - Step)
      BY <1>2, <2>1, <2>2, Apart
    <3>2. a - Step \in Phases /\ q <= a - Step /\ a - Step <= b
      BY <1>1, <1>2, <2>1, <3>1, PhasesType, PhaseAssumption
    <3>3. QED
      BY <1>2, <2>1, <3>2
  <2>3. ASSUME e < q PROVE FALSE
    <3>1. e # Top
      BY <2>1, <2>3, PhaseAssumption
    <3>2. e + 1 \in Phases /\ e + 1 \notin good /\ b <= e + 1 /\ e + 1 <= q
      BY <1>1, <1>2, <2>1, <2>3, <3>1
    <3>3. QED
      BY <2>1, <3>2
  <2>4. a <= q /\ q <= e
    BY <2>1, <2>2, <2>3
  <2>5. QED
    BY <2>1, <2>4 DEF Points
<1>6. QED
  BY <1>4, <1>5

\* Every phase without mismatch is in a window.
LEMMA InWindow ==
  ASSUME NEW good \in SUBSET Phases, NEW p \in good
  PROVE  \E w \in Windows(good) : p \in Points(w[1], w[2])
<1> DEFINE S == {x \in good : x <= p /\ \A r \in Phases : x <= r /\ r <= p => r \in good}
           a == Min(S)
<1>1. p \in Nat /\ p < Top /\ p \in Phases
  BY PhasesType
<1>2. S \subseteq Nat /\ p \in S
  <2>1. \A r \in Phases : p <= r /\ r <= p => r \in good
    BY <1>1, PhasesType
  <2>2. p \in S
    BY <1>1, <2>1
  <2>3. QED
    BY <2>2, PhasesType
<1> HIDE DEF S
<1>3. a \in S /\ \A y \in S : a <= y
  BY <1>2, LeastOf
<1> HIDE DEF a
<1>4. /\ a \in Nat /\ a \in good /\ a <= p /\ Tried(a)
      /\ \A r \in Phases : a <= r /\ r <= p => r \in good
  BY <1>2, <1>3, PhasesType DEF S
<1>5. a - Step \notin good
  <2>1. SUFFICES ASSUME a - Step \in good PROVE FALSE
    OBVIOUS
  <2>2. a - Step \in Nat /\ Tried(a - Step) /\ a - Step <= p /\ a - Step < a
    BY <1>1, <1>4, <2>1, PhasesType, PhaseAssumption
  <2>3. ASSUME NEW r \in Phases, a - Step <= r, r <= p PROVE r \in good
    <3>1. r \in Int /\ Tried(r)
      BY PhasesType
    <3>2. a - Step < r => a <= r
      <4>1. a - Step < r => (a - Step) + Step <= r
        BY <2>2, <3>1, Apart
      <4>2. QED
        BY <1>4, <3>1, <4>1, PhaseAssumption
    <3>3. QED
      BY <1>4, <2>1, <2>2, <2>3, <3>1, <3>2
  <2>4. a - Step \in S
    BY <2>1, <2>2, <2>3 DEF S
  <2>5. QED
    BY <1>3, <1>4, <2>2, <2>4
<1> DEFINE w == <<a, Edge(a, good)>>
<1>6. w \in Windows(good)
  BY <1>4, <1>5 DEF Windows, Starts
<1>7. Window(a, w[2], good) /\ w[1] = a /\ w[2] \in Nat
  BY <1>6, WindowsAre DEF Window
<1>8. p <= w[2]
  <2>1. SUFFICES ASSUME w[2] < p PROVE FALSE
    BY <1>1, <1>7
  <2>2. w[2] # Top
    BY <1>1, <1>7, <2>1, PhaseAssumption
  <2>3. w[2] + 1 \in Phases /\ w[2] + 1 \notin good /\ a <= w[2] + 1 /\ w[2] + 1 <= p
    BY <1>1, <1>4, <1>7, <2>1, <2>2 DEF Window
  <2>4. QED
    BY <1>4, <2>3
<1>9. QED
  BY <1>1, <1>4, <1>6, <1>7, <1>8 DEF Points

\* A window that does not reach further has no more points: moved to the other's
\* beginning, they are among them.
LEMMA NoMorePoints ==
  ASSUME NEW good \in SUBSET Phases, NEW a \in Nat, NEW e \in Nat, NEW c \in Nat, NEW f \in Nat,
         Window(a, e, good), Window(c, f, good), f - c <= e - a
  PROVE  Cardinality(Points(c, f)) <= Cardinality(Points(a, e))
<1> DEFINE move == [q \in Points(c, f) |-> (q - c) + a]
<1>1. IsFiniteSet(Points(a, e))
  BY PhasesType, FS_Subset DEF Points
<1>2. Tried(a) /\ Tried(c) /\ f <= Top /\ e <= Top /\ (f = Top \/ Tried(f + 1))
  BY PhasesType DEF Window
<1>3. ASSUME NEW q \in Points(c, f) PROVE (q - c) + a \in Points(a, e)
  <2>1. q \in Nat /\ Tried(q) /\ c <= q /\ q <= f /\ q < Top
    BY PhasesType DEF Points
  <2>2. Tried((q - c) + a)
    BY <1>2, <2>1, Apart
  <2>3. (q - c) + a \in Int /\ a <= (q - c) + a /\ (q - c) + a <= e
    BY <2>1
  <2>4. (q - c) + a < Top
    <3>1. SUFFICES ASSUME (q - c) + a >= Top PROVE FALSE
      BY <2>3, PhaseAssumption
    <3>2. q = f
      BY <1>2, <2>1, <3>1, PhaseAssumption
    <3>3. f # Top /\ Tried(q + 1)
      BY <1>2, <2>1, <3>2, PhaseAssumption
    <3>4. q + Step <= q + 1
      BY <2>1, <3>3, Apart
    <3>5. QED
      BY <2>1, <3>4, PhaseAssumption
  <2>5. QED
    BY <2>2, <2>3, <2>4, PhasesType DEF Points
<1>4. move \in Injection(Points(c, f), Points(a, e))
  <2>1. \A q, r \in Points(c, f) : (q - c) + a = (r - c) + a => q = r
    BY PhasesType DEF Points
  <2>2. QED
    BY <1>3, <2>1, FS_Injection DEF Injection, IsInjective
<1>5. QED
  BY <1>1, <1>4, FS_Injection

\* A window of more than two points goes on for two steps.
LEMMA ThirdPoint ==
  ASSUME NEW good \in SUBSET Phases, NEW a \in Nat, NEW e \in Nat, Window(a, e, good),
         Cardinality(Points(a, e)) > 2
  PROVE  a + Step + Step <= e /\ a + Step + Step < Top
<1>1. a \in Int /\ Tried(a) /\ Tried(a + Step) /\ a + Step \in Int
  BY PhasesType, Apart, PhaseAssumption DEF Window
<1>2. PICK q \in Points(a, e) : q # a /\ q # a + Step
  <2>1. SUFFICES ASSUME Points(a, e) \subseteq {a} \cup {a + Step} PROVE FALSE
    OBVIOUS
  <2>2. IsFiniteSet({a}) /\ Cardinality({a}) = 1
    BY FS_Singleton
  <2>3. IsFiniteSet({a} \cup {a + Step}) /\ Cardinality({a} \cup {a + Step}) <= 2
    BY <2>2, FS_AddElement
  <2>4. Cardinality(Points(a, e)) <= Cardinality({a} \cup {a + Step})
    BY <2>1, <2>3, FS_Subset
  <2>5. Cardinality(Points(a, e)) \in Nat /\ Cardinality({a} \cup {a + Step}) \in Nat
    BY <2>1, <2>3, FS_Subset, FS_CardinalityType
  <2>6. QED
    BY <2>3, <2>4, <2>5
<1>3. q \in Int /\ Tried(q) /\ a < q /\ q <= e /\ q < Top
  BY <1>2, PhasesType DEF Points
<1>4. a + Step < q
  <2>1. a + Step <= q
    BY <1>1, <1>3, Apart
  <2>2. QED
    BY <1>1, <1>2, <1>3, <2>1
<1>5. a + Step + Step <= q
  BY <1>1, <1>3, <1>4, Apart
<1>6. QED
  BY <1>3, <1>5, <1>1, PhaseAssumption

\* The window the search takes is the widest.
LEMMA BestIs ==
  ASSUME NEW good \in SUBSET Phases, good # {}
  PROVE  /\ Windows(good) # {} /\ Best(good) \in Windows(good)
         /\ \A v \in Windows(good) : Size(v) <= Size(Best(good))
<1>1. Windows(good) # {}
  BY InWindow
<1>2. \A w \in Windows(good) : w[1] \in Nat /\ Size(w) \in Nat /\ Top - Size(w) \in Nat
  <2>1. SUFFICES ASSUME NEW w \in Windows(good) PROVE w[1] \in Nat /\ Size(w) \in Nat /\ Top - Size(w) \in Nat
    OBVIOUS
  <2>2. w[1] \in Nat /\ w[2] \in Nat /\ w[1] <= w[2] /\ w[2] <= Top
    BY WindowsAre, PhasesType DEF Window
  <2>3. QED
    BY <2>2, PhaseAssumption DEF Size
<1> DEFINE short == {Top - Size(w) : w \in Windows(good)}
<1>3. short \subseteq Nat /\ short # {}
  BY <1>1, <1>2
<1>4. Min(short) \in short /\ \A y \in short : Min(short) <= y
  BY <1>3, LeastOf
<1>5. PICK w \in Windows(good) : Min(short) = Top - Size(w)
  BY <1>4
<1>6. \A v \in Windows(good) : Top - Size(w) <= Top - Size(v)
  BY <1>4, <1>5
<1>7. w \in Widest(good)
  BY <1>2, <1>6, PhaseAssumption DEF Widest
<1> DEFINE first == {v[1] : v \in Widest(good)}
<1>8. first \subseteq Nat /\ first # {}
  BY <1>2, <1>7 DEF Widest
<1>9. Min(first) \in first /\ \A y \in first : Min(first) <= y
  BY <1>8, LeastOf
<1>10. \E v \in Widest(good) : \A u \in Widest(good) : v[1] <= u[1]
  BY <1>9
<1>11. Best(good) \in Widest(good)
  BY <1>10 DEF Best
<1>12. QED
  BY <1>1, <1>11 DEF Widest

\* The middle of a window is in it, and a step from its ends if it is two long.
LEMMA MiddleIs ==
  ASSUME NEW good \in SUBSET Phases, NEW a \in Nat, NEW e \in Nat, Window(a, e, good)
  PROVE  LET p == (a + e) \div 2
         IN /\ p \in Nat /\ p < 512
            /\ Below(p) \in Points(a, e)
            /\ a + Step + Step <= e /\ a + Step + Step < Top
                   => {Below(p) - Step, Below(p) + Step} \subseteq Points(a, e)
<1> DEFINE p == (a + e) \div 2
<1>1. a < Top /\ a <= e /\ e <= Top /\ Tried(a) /\ a \in Int
  BY PhasesType DEF Window
<1>2. p \in Nat /\ a <= p /\ p <= e /\ p < Top /\ 2 * p <= a + e /\ a + e <= 2 * p + 1
  BY <1>1, PhaseAssumption
<1> HIDE DEF p
<1>3. PICK b \in Nat : Tried(b) /\ b <= p /\ p < b + Step
  BY <1>2, Nearest
<1>4. Below(p) = b
  BY <1>2, <1>3, BelowIs, PhaseAssumption
<1>5. a <= b
  <2>1. b < a => b + Step <= a
    BY <1>1, <1>3, Apart
  <2>2. QED
    BY <1>2, <1>3, <2>1, PhaseAssumption
<1>6. b \in Points(a, e)
  BY <1>2, <1>3, <1>5, PhasesType, PhaseAssumption DEF Points
<1>7. ASSUME a + Step + Step <= e, a + Step + Step < Top
      PROVE  {b - Step, b + Step} \subseteq Points(a, e)
  <2>1. Tried(a + Step) /\ Tried(b - Step) /\ Tried(b + Step) /\ a + Step \in Int
    BY <1>1, <1>3, Apart, PhaseAssumption
  <2>2. a + Step <= p
    BY <1>2, <1>7, PhaseAssumption
  <2>3. a + Step <= b
    <3>1. b < a + Step => b + Step <= a + Step
      BY <1>3, <2>1, Apart
    <3>2. QED
      BY <1>1, <1>2, <1>3, <2>1, <2>2, <3>1, PhaseAssumption
  <2>4. b + Step <= e
    BY <1>2, <1>3, <1>7, <2>2, PhaseAssumption
  <2>5. b + Step < Top
    <3>1. CASE e < Top
      BY <1>3, <2>4, <3>1, PhaseAssumption
    <3>2. CASE e = Top
      BY <1>2, <1>3, <1>7, <2>4, <3>2, PhaseAssumption
    <3>3. QED
      BY <1>1, <3>1, <3>2, PhaseAssumption
  <2>6. b - Step \in Points(a, e)
    BY <1>2, <1>3, <2>1, <2>3, PhasesType, PhaseAssumption DEF Points
  <2>7. b + Step \in Points(a, e)
    BY <1>3, <1>5, <2>1, <2>4, <2>5, PhasesType, PhaseAssumption DEF Points
  <2>8. QED
    BY <2>6, <2>7
<1>8. p < 512
  BY <1>2, PhaseAssumption
<1>9. QED
  BY <1>2, <1>4, <1>6, <1>7, <1>8 DEF p

\* The phase the search ends with, in the nine bits of its register, is centred in
\* the widest window, wherever the mismatches are.
LEMMA ScanCentred ==
  ASSUME NEW good \in SUBSET Phases, good # {}
  PROVE  Centred(ScanAlign(good) % 512, good)
<1> DEFINE a == Best(good)[1]
           e == Best(good)[2]
           p == (a + e) \div 2
<1>1. Windows(good) # {} /\ Best(good) \in Windows(good) /\ Best(good) = <<a, e>>
  BY BestIs, WindowsAre
<1>2. Window(a, e, good)
  BY <1>1, WindowsAre
<1>3. a \in Nat /\ e \in Nat
  BY <1>2, PhasesType DEF Window
<1>4. ScanAlign(good) = p
  BY <1>1 DEF ScanAlign
<1> HIDE DEF a, e
<1>5. /\ p \in Nat /\ p < 512 /\ Below(p) \in Points(a, e)
      /\ a + Step + Step <= e /\ a + Step + Step < Top => {Below(p) - Step, Below(p) + Step} \subseteq Points(a, e)
  BY <1>2, <1>3, MiddleIs
<1> HIDE DEF p
<1>6. ScanAlign(good) % 512 = p
  BY <1>4, <1>5
<1>7. Around(p, good) = Points(a, e)
  BY <1>2, <1>3, <1>5, AroundWindow
<1>8. ASSUME NEW q \in good PROVE Cardinality(Around(q, good)) <= Cardinality(Points(a, e))
  <2>1. PICK v \in Windows(good) : q \in Points(v[1], v[2])
    BY InWindow
  <2>2. Window(v[1], v[2], good) /\ v[1] \in Nat /\ v[2] \in Nat
    BY WindowsAre, PhasesType DEF Window
  <2>3. q \in Nat /\ Tried(q) /\ q < Top
    BY PhasesType
  <2>4. Below(q) = q
    <3>1. q <= q /\ q < q + Step
      BY <2>3, PhaseAssumption
    <3>2. QED
      BY <2>3, <3>1, BelowIs
  <2>5. Around(q, good) = Points(v[1], v[2])
    BY <2>1, <2>2, <2>3, <2>4, AroundWindow
  <2>6. v[2] - v[1] <= e - a
    BY BestIs DEF Size, a, e
  <2>7. QED
    BY <1>2, <1>3, <2>2, <2>5, <2>6, NoMorePoints
<1>9. Cardinality(Points(a, e)) > 2 => {Below(p) - Step, Below(p) + Step} \subseteq Points(a, e)
  BY <1>2, <1>3, <1>5, ThirdPoint
<1>10. QED
  BY <1>5, <1>6, <1>7, <1>8, <1>9 DEF Centred

-----------------------------------------------------------------------------
(***************************************************************************)
(* What an alignment has still to do, and what it has done at each place.  *)
(***************************************************************************)
Links == Cardinality(Link)
Rocs == Cardinality(Roc)

\* An operation for each number from k to just before n.
Each(x, k, n) == [i \in 1..(n - k) |-> <<x, (k + i) - 1>>]
LinksFrom(k) == Each("align_link", k, Links)
ModesFrom(j) == Each("run_mode", j, Rocs)

LinkDone(l) ==
    /\ eye[l] # {} => Centred(phase[l], eye[l])
    /\ lock[l] >= 0 => slip[l] = lock[l]
PhaseDone(l) == eye[l] # {} => Centred(phase[l], eye[l])
LinksDone(k) == \A l \in 0..(k - 1) : LinkDone(l)
ModesDone(j) == \A r \in 0..(j - 1) : running[r] = was[r]

Asked == prog = <<<<"ask", "proceed">>, <<"proceed">>>> \/ prog = <<<<"proceed">>>>
Reading == prog = <<<<"was">>>> \o (<<<<"hard_reset">>>> \o (LinksFrom(0) \o ModesFrom(0)))
HardReset == prog = <<<<"hard_reset">>>> \o (LinksFrom(0) \o ModesFrom(0))
AtLink(k) == LinksDone(k) /\ prog = LinksFrom(k) \o ModesFrom(0)
InPhase(k) ==
    /\ LinksDone(k) /\ board = "fiberless"
    /\ prog = <<<<"align_phase", k>>>> \o (<<<<"align_slip", k>>>> \o (LinksFrom(k + 1) \o ModesFrom(0)))
InSlip(k) ==
    /\ LinksDone(k) /\ PhaseDone(k)
    /\ prog = <<<<"align_slip", k>>>> \o (LinksFrom(k + 1) \o ModesFrom(0))
AtMode(j) == LinksDone(Links) /\ ModesDone(j) /\ prog = ModesFrom(j)

Underway ==
    \/ Reading
    \/ HardReset
    \/ \E k \in 0..Links : AtLink(k)
    \/ \E k \in 0..(Links - 1) : InPhase(k) \/ InSlip(k)
    \/ \E j \in 0..Rocs : AtMode(j)

\* What the steps of an alignment need of the state.
LinkShape ==
    /\ DOMAIN phase = Link /\ DOMAIN slip = Link /\ DOMAIN eye = Link /\ DOMAIN lock = Link
    /\ running \in [Roc -> BOOLEAN] /\ was \in [Roc -> BOOLEAN]
    /\ board # "fiberless" => \A l \in Link : eye[l] = {}

AlignedInv ==
    /\ TypeInv /\ LinkShape
    /\ cmd \notin Handled => prog \in Seq(Unhandled)
    /\ cmd = "AUTO" /\ Mapped => prog = <<>> \/ Asked \/ Underway
    /\ aligned => /\ LinksDone(Links) /\ running = was
                  /\ prog = <<>> \/ cmd \notin Handled

LEMMA SizesType ==
  /\ Links \in Nat /\ Rocs \in Nat /\ Link = 0..(Links - 1) /\ Roc = 0..(Rocs - 1)
  BY SessionAssumption, FS_CardinalityType DEF Links, Rocs

LEMMA EachShape ==
  ASSUME NEW x, NEW n \in Nat, NEW k \in 0..n
  PROVE  /\ Each(x, k, n) \in Seq({x} \X Nat)
         /\ k = n => Each(x, k, n) = <<>>
         /\ Len(Each(x, k, n)) = n - k
         /\ k # n => Each(x, k, n) = <<<<x, k>>>> \o Each(x, k + 1, n)
<1>1. \A i \in 1..(n - k) : <<x, (k + i) - 1>> \in {x} \X Nat
  OBVIOUS
<1>2. n - k \in Nat
  OBVIOUS
<1>3. Each(x, k, n) \in Seq({x} \X Nat) /\ Len(Each(x, k, n)) = n - k
  BY <1>1, <1>2 DEF Each
<1>4. k = n => Each(x, k, n) = <<>>
  BY <1>3
<1>5. ASSUME k # n PROVE Each(x, k, n) = <<<<x, k>>>> \o Each(x, k + 1, n)
  <2>1. k + 1 \in 0..n
    BY <1>5
  <2>2. n - (k + 1) \in Nat /\ \A i \in 1..(n - (k + 1)) : <<x, ((k + 1) + i) - 1>> \in {x} \X Nat
    BY <2>1
  <2>3. Each(x, k + 1, n) \in Seq({x} \X Nat) /\ Len(Each(x, k + 1, n)) = n - (k + 1)
    BY <2>2 DEF Each
  <2> DEFINE s == <<<<x, k>>>>
             t == Each(x, k + 1, n)
  <2>4. s \in Seq({x} \X Nat) /\ Len(s) = 1
    OBVIOUS
  <2>5. /\ s \o t \in Seq({x} \X Nat) /\ Len(s \o t) = 1 + Len(t)
        /\ \A i \in 1..(1 + Len(t)) : (s \o t)[i] = IF i <= 1 THEN s[i] ELSE t[i - 1]
    BY <2>3, <2>4, ConcatProperties
  <2>6. 1 + Len(t) = n - k
    BY <2>3
  <2>7. ASSUME NEW i \in 1..(n - k) PROVE (s \o t)[i] = Each(x, k, n)[i]
    <3>1. Each(x, k, n)[i] = <<x, (k + i) - 1>>
      BY DEF Each
    <3>2. CASE i = 1
      BY <2>5, <2>6, <3>1, <3>2
    <3>3. CASE i # 1
      <4>1. i - 1 \in 1..(n - (k + 1)) /\ ((k + 1) + (i - 1)) - 1 = (k + i) - 1
        BY <2>1, <3>3
      <4>2. t[i - 1] = <<x, ((k + 1) + (i - 1)) - 1>>
        BY <4>1 DEF Each
      <4>3. (s \o t)[i] = t[i - 1]
        BY <2>5, <2>6, <3>3
      <4>4. QED
        BY <3>1, <4>1, <4>2, <4>3
    <3>4. QED
      BY <3>2, <3>3
  <2>8. Each(x, k, n) \in Seq({x} \X Nat) /\ Len(Each(x, k, n)) = Len(s \o t)
    BY <1>3, <2>5, <2>6
  <2> HIDE DEF s, t
  <2>9. s \o t = Each(x, k, n)
    <3>1. \A i \in 1..Len(s \o t) : (s \o t)[i] = Each(x, k, n)[i]
      BY <2>5, <2>6, <2>7
    <3>2. QED
      BY <2>5, <2>8, <3>1, SeqEqual
  <2>10. QED
    BY <2>9 DEF s, t
<1>6. QED
  BY <1>3, <1>4, <1>5

\* A program that begins with an operation.
LEMMA FirstIs ==
  ASSUME NEW x, NEW S, NEW s \in Seq(S)
  PROVE  LET t == <<x>> \o s IN t # <<>> /\ Head(t) = x /\ Tail(t) = s
<1> DEFINE U == S \cup {x}
<1>1. s \in Seq(U) /\ <<x>> \in Seq(U) /\ Len(<<x>>) = 1
  OBVIOUS
<1> HIDE DEF U
<1>2. QED
  BY <1>1

\* The operations of an alignment.
Left == {<<"was">>, <<"hard_reset">>} \cup ({"align_link", "align_phase", "align_slip", "run_mode"} \X Nat)

LEMMA LeftType ==
  ASSUME NEW k \in 0..Links
  PROVE  LinksFrom(k) \in Seq(Left) /\ ModesFrom(0) \in Seq(Left) /\ LinksFrom(k) \o ModesFrom(0) \in Seq(Left)
<1>1. LinksFrom(k) \in Seq({"align_link"} \X Nat) /\ ModesFrom(0) \in Seq({"run_mode"} \X Nat)
  <2>1. Links \in Nat /\ Rocs \in Nat /\ 0 \in 0..Rocs
    BY SizesType
  <2>2. Each("align_link", k, Links) \in Seq({"align_link"} \X Nat)
    BY <2>1, EachShape
  <2>3. Each("run_mode", 0, Rocs) \in Seq({"run_mode"} \X Nat)
    BY <2>1, EachShape
  <2>4. QED
    BY <2>2, <2>3 DEF LinksFrom, ModesFrom
<1>2. LinksFrom(k) \in Seq(Left) /\ ModesFrom(0) \in Seq(Left)
  BY <1>1 DEF Left
<1>3. QED
  BY <1>2

\* The next link, and after the last one the run modes.
LEMMA LinkNext ==
  ASSUME NEW k \in 0..Links
  PROVE  /\ k = Links => LinksFrom(k) \o ModesFrom(0) = ModesFrom(0)
         /\ k # Links => /\ k + 1 \in 0..Links /\ k \in 0..(Links - 1)
                         /\ LinksFrom(k) \o ModesFrom(0)
                            = <<<<"align_link", k>>>> \o (LinksFrom(k + 1) \o ModesFrom(0))
<1>1. CASE k = Links
  <2>1. LinksFrom(k) = <<>>
    BY <1>1, EachShape, SizesType DEF LinksFrom
  <2>2. QED
    BY <1>1, <2>1, LeftType
<1>2. CASE k # Links
  <2>1. k + 1 \in 0..Links /\ k \in 0..(Links - 1)
    BY <1>2, SizesType
  <2>2. LinksFrom(k) = <<<<"align_link", k>>>> \o LinksFrom(k + 1)
    BY <1>2, EachShape, SizesType DEF LinksFrom
  <2> DEFINE one == <<<<"align_link", k>>>>
             s == LinksFrom(k + 1)
             t == ModesFrom(0)
  <2>3. one \in Seq(Left)
    BY SizesType DEF Left
  <2>4. s \in Seq(Left) /\ t \in Seq(Left)
    BY <2>1, LeftType
  <2> HIDE DEF one, s, t
  <2>5. (one \o s) \o t = one \o (s \o t)
    BY <2>3, <2>4, ConcatAssociative
  <2>6. QED
    BY <1>2, <2>1, <2>2, <2>5 DEF one, s, t
<1>3. QED
  BY <1>1, <1>2

LEMMA ModeNext ==
  ASSUME NEW j \in 0..Rocs
  PROVE  /\ j = Rocs => ModesFrom(j) = <<>>
         /\ j # Rocs => /\ j + 1 \in 0..Rocs /\ ModesFrom(j) # <<>>
                        /\ Head(ModesFrom(j)) = <<"run_mode", j>> /\ Tail(ModesFrom(j)) = ModesFrom(j + 1)
<1>1. j = Rocs => ModesFrom(j) = <<>>
  BY EachShape, SizesType DEF ModesFrom
<1>2. CASE j # Rocs
  <2>1. j + 1 \in 0..Rocs
    BY <1>2, SizesType
  <2>2. ModesFrom(j) = <<<<"run_mode", j>>>> \o ModesFrom(j + 1)
    BY <1>2, EachShape, SizesType DEF ModesFrom
  <2>3. ModesFrom(j + 1) \in Seq({"run_mode"} \X Nat)
    BY <2>1, EachShape, SizesType DEF ModesFrom
  <2>4. QED
    BY <2>1, <2>2, <2>3, FirstIs
<1>3. QED
  BY <1>1, <1>2


LEMMA ProgramAhead ==
  /\ Reading => /\ prog # <<>> /\ Head(prog) = <<"was">>
                /\ Tail(prog) = <<<<"hard_reset">>>> \o (LinksFrom(0) \o ModesFrom(0))
  /\ HardReset => /\ prog # <<>> /\ Head(prog) = <<"hard_reset">>
                  /\ Tail(prog) = LinksFrom(0) \o ModesFrom(0)
  /\ \A k \in 0..(Links - 1) :
        /\ AtLink(k) => /\ prog # <<>> /\ Head(prog) = <<"align_link", k>>
                        /\ Tail(prog) = LinksFrom(k + 1) \o ModesFrom(0)
        /\ InPhase(k) => /\ prog # <<>> /\ Head(prog) = <<"align_phase", k>>
                         /\ Tail(prog) = <<<<"align_slip", k>>>> \o (LinksFrom(k + 1) \o ModesFrom(0))
        /\ InSlip(k) => /\ prog # <<>> /\ Head(prog) = <<"align_slip", k>>
                        /\ Tail(prog) = LinksFrom(k + 1) \o ModesFrom(0)
<1>1. 0 \in 0..Links /\ LinksFrom(0) \o ModesFrom(0) \in Seq(Left)
  BY LeftType, SizesType
<1>2. <<<<"hard_reset">>>> \o (LinksFrom(0) \o ModesFrom(0)) \in Seq(Left)
  <2>1. <<<<"hard_reset">>>> \in Seq(Left)
    BY DEF Left
  <2>2. QED
    BY <1>1, <2>1
<1>3. ASSUME NEW k \in 0..(Links - 1)
      PROVE  /\ LinksFrom(k + 1) \o ModesFrom(0) \in Seq(Left)
             /\ <<<<"align_slip", k>>>> \o (LinksFrom(k + 1) \o ModesFrom(0)) \in Seq(Left)
             /\ k \in 0..Links /\ k # Links
  <2>1. k + 1 \in 0..Links /\ k \in 0..Links /\ k # Links /\ k \in Nat
    BY SizesType
  <2>2. LinksFrom(k + 1) \o ModesFrom(0) \in Seq(Left)
    BY <2>1, LeftType
  <2>3. <<<<"align_slip", k>>>> \in Seq(Left)
    BY <2>1 DEF Left
  <2>4. QED
    BY <2>1, <2>2, <2>3
<1>4. Reading => /\ prog # <<>> /\ Head(prog) = <<"was">>
                 /\ Tail(prog) = <<<<"hard_reset">>>> \o (LinksFrom(0) \o ModesFrom(0))
  BY <1>2, FirstIs DEF Reading
<1>5. HardReset => /\ prog # <<>> /\ Head(prog) = <<"hard_reset">>
                   /\ Tail(prog) = LinksFrom(0) \o ModesFrom(0)
  BY <1>1, FirstIs DEF HardReset
<1>6. ASSUME NEW k \in 0..(Links - 1), AtLink(k)
      PROVE  prog # <<>> /\ Head(prog) = <<"align_link", k>> /\ Tail(prog) = LinksFrom(k + 1) \o ModesFrom(0)
  <2>1. prog = <<<<"align_link", k>>>> \o (LinksFrom(k + 1) \o ModesFrom(0))
    BY <1>3, <1>6, LinkNext DEF AtLink
  <2>2. QED
    BY <1>3, <2>1, FirstIs
<1>7. ASSUME NEW k \in 0..(Links - 1), InPhase(k)
      PROVE  /\ prog # <<>> /\ Head(prog) = <<"align_phase", k>>
             /\ Tail(prog) = <<<<"align_slip", k>>>> \o (LinksFrom(k + 1) \o ModesFrom(0))
  BY <1>3, <1>7, FirstIs DEF InPhase
<1>8. ASSUME NEW k \in 0..(Links - 1), InSlip(k)
      PROVE  prog # <<>> /\ Head(prog) = <<"align_slip", k>> /\ Tail(prog) = LinksFrom(k + 1) \o ModesFrom(0)
  BY <1>3, <1>8, FirstIs DEF InSlip
<1>9. QED
  BY <1>4, <1>5, <1>6, <1>7, <1>8

\* Where an alignment is, in all cases.
LEMMA UnderwayCases ==
  ASSUME Underway
  PROVE  \/ Reading \/ HardReset
         \/ \E k \in 0..(Links - 1) : AtLink(k) \/ InPhase(k) \/ InSlip(k)
         \/ \E j \in 0..Rocs : AtMode(j)
<1>1. ASSUME NEW k \in 0..Links, AtLink(k), k = Links PROVE AtMode(0) /\ 0 \in 0..Rocs
  <2>1. prog = ModesFrom(0)
    BY <1>1, LinkNext DEF AtLink
  <2>2. QED
    BY <1>1, <2>1, SizesType DEF AtLink, AtMode, ModesDone
<1>2. ASSUME NEW k \in 0..Links, k # Links PROVE k \in 0..(Links - 1)
  BY <1>2, SizesType
<1>3. QED
  BY <1>1, <1>2 DEF Underway

\* An alignment with nothing left has set all links, and all chips as they were.
LEMMA UnderwayDone ==
  ASSUME Underway, prog = <<>>
  PROVE  LinksDone(Links) /\ ModesDone(Rocs)
<1>1. PICK j \in 0..Rocs : AtMode(j)
  BY UnderwayCases, ProgramAhead
<1>2. j = Rocs
  BY <1>1, ModeNext DEF AtMode
<1>3. QED
  BY <1>1, <1>2 DEF AtMode

\* The effect of an operation on the links and the chips.
LEMMA WorkEffect ==
  ASSUME Work
  PROVE  LET op == Head(prog)
         IN /\ prog # <<>> /\ prog' = Tail(prog) /\ UNCHANGED <<board, cmd, ans>>
            /\ op[1] \notin Handling => UNCHANGED <<running, was, phase, slip, eye, lock>>
            /\ op[1] = "was" => was' = running /\ UNCHANGED <<running, phase, slip, eye, lock>>
            /\ op[1] = "hard_reset" =>
                  running' = [r \in Roc |-> FALSE] /\ UNCHANGED <<was, phase, slip, eye, lock>>
            /\ op[1] = "run_mode" =>
                  running' = [running EXCEPT ![op[2]] = was[op[2]]] /\ UNCHANGED <<was, phase, slip, eye, lock>>
            /\ op[1] = "standard_roc" =>
                  running' = [running EXCEPT ![0] = TRUE] /\ UNCHANGED <<was, phase, slip, eye, lock>>
            /\ op[1] = "align_phase" => AlignPhase(op[2]) /\ UNCHANGED <<running, was>>
            /\ op[1] = "align_slip" => AlignSlip(op[2]) /\ UNCHANGED <<running, was>>
            /\ op[1] \in {"phase", "scan"} =>
                  (\E p : SetAlignPhase(st.elink, p)) /\ UNCHANGED <<running, was, slip, eye, lock>>
            /\ op[1] = "bitslip" =>
                  (\E v : slip' = [l \in Link |-> v[l]]) /\ UNCHANGED <<running, was, phase, eye, lock>>
            /\ op[1] \notin {"ask", "proceed", "standard", "align_link", "set_phase", "set_slip", "scan_link"}
<1> DEFINE op == Head(prog)
<1>1. /\ prog # <<>> /\ prog' = Tail(prog) /\ UNCHANGED <<board, cmd, ans>>
      /\ \/ FcOperation(op) /\ UNCHANGED <<linkvars, running, was>>
         \/ OnTool(op) /\ UNCHANGED linkvars
         \/ OnLinks(op) /\ UNCHANGED <<running, was>>
         \/ OnReadout(op) /\ UNCHANGED <<linkvars, running, was>>
  BY DEF Work, fcvars
<1> HIDE DEF op
<1>2. CASE FcOperation(op) /\ UNCHANGED <<linkvars, running, was>>
  <2>1. op[1] \in {"read", "write", "pulse", "sleep", "save", "mask", "restore", "fire", "blink", "delay",
                   "follow", "trigger", "enables"}
    BY <1>2 DEF FcOperation
  <2>2. QED
    BY <1>1, <1>2, <2>1 DEF op, linkvars
<1>3. CASE OnTool(op) /\ UNCHANGED linkvars
  BY <1>1, <1>3 DEF op, linkvars, OnTool, Switches, Handling
<1>4. CASE OnLinks(op) /\ UNCHANGED <<running, was>>
  <2>1. CASE op[1] \in {"align_phase", "align_slip"}
    BY <1>1, <1>4, <2>1 DEF op, OnLinks, Handling
  <2>2. CASE op[1] \in {"phase", "scan"}
    <3>1. (\E p : SetAlignPhase(st.elink, p)) /\ UNCHANGED <<slip, eye, lock>>
      BY <1>4, <2>2 DEF OnLinks, ScanPhase
    <3>2. QED
      BY <1>1, <1>4, <2>2, <3>1 DEF op, Handling
  <2>3. CASE op[1] = "bitslip"
    <3>1. slip' = [l \in Link |-> IF st.elink < 0 \/ l = st.elink
                                 THEN Number("bitslip") % (MaxSlip + 1) ELSE slip[l]]
      BY <1>4, <2>3 DEF OnLinks
    <3>2. slip' = [l \in Link |-> slip'[l]] /\ UNCHANGED <<phase, eye, lock>>
      BY <1>4, <2>3, <3>1 DEF OnLinks
    <3>3. QED
      BY <1>1, <1>4, <2>3, <3>2 DEF op, Handling
  <2>4. CASE op[1] \in {"setup_link", "get_data"}
    BY <1>1, <1>4, <2>4 DEF op, OnLinks, SetupLink, GetLinkData
  <2>5. QED
    BY <1>4, <2>1, <2>2, <2>3, <2>4 DEF OnLinks
<1>5. CASE OnReadout(op) /\ UNCHANGED <<linkvars, running, was>>
  <2>1. op[1] \in {"advance", "empty", "external"}
    BY <1>5 DEF OnReadout
  <2>2. QED
    BY <1>1, <1>5, <2>1 DEF op, linkvars
<1>6. QED
  BY <1>1, <1>2, <1>3, <1>4, <1>5

\* Only the fiberless target has a phase to set.
LEMMA PhasingOnly ==
  ASSUME NEW op \in Operation
  PROVE  op[1] \in {"phase", "scan", "align_phase"} => board = "fiberless"
BY DEF Operation, Quiet, Counted, Flagged, Asks, Words, Bare, Unfolding, Sends, Fires, Phasing

LEMMA LinkShapeSame ==
  ASSUME LinkShape, UNCHANGED <<board, running, was, phase, slip, eye, lock>>
  PROVE  LinkShape'
BY DEF LinkShape

LEMMA DoneSame ==
  ASSUME UNCHANGED <<phase, slip, eye, lock>>
  PROVE  /\ \A l : LinkDone(l)' <=> LinkDone(l)
         /\ \A k : LinksDone(k)' <=> LinksDone(k)
BY DEF LinkDone, LinksDone

LEMMA LinkShapeWork ==
  ASSUME TypeInv, LinkShape, Work
  PROVE  LinkShape'
<1> DEFINE op == Head(prog)
<1>1. op \in Operation
  BY WorkEffect DEF TypeInv
<1>2. CASE op[1] \notin Handling
  BY <1>2, WorkEffect, LinkShapeSame
<1>3. CASE op[1] \in {"was", "hard_reset"}
  BY <1>3, WorkEffect DEF LinkShape
<1>4. CASE op[1] = "run_mode"
  <2>1. running' = [running EXCEPT ![op[2]] = was[op[2]]] /\ UNCHANGED <<board, was, phase, slip, eye, lock>>
    BY <1>4, WorkEffect
  <2>2. running' \in [Roc -> BOOLEAN]
    BY <2>1 DEF LinkShape
  <2>3. QED
    BY <2>1, <2>2 DEF LinkShape
<1>5. CASE op[1] = "standard_roc"
  <2>1. running' = [running EXCEPT ![0] = TRUE] /\ UNCHANGED <<board, was, phase, slip, eye, lock>>
    BY <1>5, WorkEffect
  <2>2. running' \in [Roc -> BOOLEAN]
    BY <2>1 DEF LinkShape
  <2>3. QED
    BY <2>1, <2>2 DEF LinkShape
<1>6. CASE op[1] = "align_phase"
  <2>1. AlignPhase(op[2]) /\ UNCHANGED <<board, running, was>> /\ board = "fiberless"
    BY <1>1, <1>6, WorkEffect, PhasingOnly
  <2>2. QED
    BY <2>1 DEF LinkShape, AlignPhase, SetAlignPhase
<1>7. CASE op[1] = "align_slip"
  <2>1. AlignSlip(op[2]) /\ UNCHANGED <<board, running, was>>
    BY <1>7, WorkEffect
  <2>2. QED
    BY <2>1 DEF LinkShape, AlignSlip, SetBitslip
<1>8. CASE op[1] \in {"phase", "scan"}
  <2>1. (\E p : SetAlignPhase(st.elink, p)) /\ UNCHANGED <<board, running, was, slip, eye, lock>>
    BY <1>8, WorkEffect
  <2>2. QED
    BY <2>1 DEF LinkShape, SetAlignPhase
<1>9. CASE op[1] = "bitslip"
  BY <1>9, WorkEffect DEF LinkShape
<1>10. QED
  BY <1>2, <1>3, <1>4, <1>5, <1>6, <1>7, <1>8, <1>9, WorkEffect DEF Handling

\* The next step of an alignment brings it to its next place.
LEMMA UnderwayWork ==
  ASSUME LinkShape, Underway, Work
  PROVE  Underway'
<1>e. prog # <<>> /\ prog' = Tail(prog) /\ UNCHANGED <<board, cmd, ans>>
  BY WorkEffect
<1>s. Links \in Nat /\ Rocs \in Nat /\ Link = 0..(Links - 1) /\ Roc = 0..(Rocs - 1)
  BY SizesType
<1>1. CASE Reading
  <2>1. prog' = <<<<"hard_reset">>>> \o (LinksFrom(0) \o ModesFrom(0))
    BY <1>1, <1>e, ProgramAhead
  <2>2. QED
    BY <2>1 DEF Underway, HardReset
<1>2. CASE HardReset
  <2>1. prog' = LinksFrom(0) \o ModesFrom(0)
    BY <1>2, <1>e, ProgramAhead
  <2>2. LinksDone(0)' /\ 0 \in 0..Links
    BY <1>s DEF LinksDone
  <2>3. QED
    BY <2>1, <2>2 DEF Underway, AtLink
<1>3. ASSUME NEW k \in 0..(Links - 1), AtLink(k) PROVE FALSE
  <2>1. Head(prog) = <<"align_link", k>>
    BY <1>3, ProgramAhead
  <2>2. Head(prog)[1] = "align_link"
    BY <2>1
  <2>3. QED
    BY <2>2, WorkEffect
<1>4. ASSUME NEW k \in 0..(Links - 1), InPhase(k) PROVE Underway'
  <2>1. /\ Head(prog) = <<"align_phase", k>>
        /\ prog' = <<<<"align_slip", k>>>> \o (LinksFrom(k + 1) \o ModesFrom(0))
    BY <1>4, <1>e, ProgramAhead
  <2>2. AlignPhase(k)
    BY <2>1, WorkEffect
  <2>3. PICK good \in SUBSET Phases :
            /\ eye' = [eye EXCEPT ![k] = good]
            /\ phase' = [phase EXCEPT ![k] = ScanAlign(good) % 512]
            /\ UNCHANGED <<slip, lock>>
    BY <2>2 DEF AlignPhase, SetAlignPhase
  <2>4. k \in Link /\ DOMAIN eye = Link /\ DOMAIN phase = Link
    BY <1>s DEF LinkShape
  <2>5. eye'[k] = good /\ phase'[k] = ScanAlign(good) % 512
    BY <2>3, <2>4
  <2>6. PhaseDone(k)'
    BY <2>5, ScanCentred DEF PhaseDone
  <2>7. LinksDone(k)'
    <3>1. \A l \in 0..(k - 1) : l # k /\ l \in Link
      BY <1>s
    <3>2. \A l \in 0..(k - 1) : eye'[l] = eye[l] /\ phase'[l] = phase[l]
      BY <2>3, <2>4, <3>1
    <3>3. \A l \in 0..(k - 1) : LinkDone(l)
      BY <1>4 DEF InPhase, LinksDone
    <3>4. \A l \in 0..(k - 1) : LinkDone(l)'
      BY <2>3, <3>2, <3>3 DEF LinkDone
    <3>5. QED
      BY <3>4 DEF LinksDone
  <2>8. InSlip(k)'
    BY <2>1, <2>6, <2>7 DEF InSlip
  <2>9. QED
    BY <2>8 DEF Underway
<1>5. ASSUME NEW k \in 0..(Links - 1), InSlip(k) PROVE Underway'
  <2>1. Head(prog) = <<"align_slip", k>> /\ prog' = LinksFrom(k + 1) \o ModesFrom(0)
    BY <1>5, <1>e, ProgramAhead
  <2>2. AlignSlip(k)
    BY <2>1, WorkEffect
  <2>3. PICK s \in -1..MaxSlip :
            /\ lock' = [lock EXCEPT ![k] = s]
            /\ slip' = [slip EXCEPT ![k] = (IF s < 0 THEN MaxSlip ELSE s) % (MaxSlip + 1)]
            /\ UNCHANGED <<phase, eye>>
    BY <2>2 DEF AlignSlip, SetBitslip
  <2>4. k \in Link /\ DOMAIN lock = Link /\ DOMAIN slip = Link
    BY <1>s DEF LinkShape
  <2>5. lock'[k] = s /\ slip'[k] = (IF s < 0 THEN MaxSlip ELSE s) % (MaxSlip + 1)
    BY <2>3, <2>4
  <2>6. s >= 0 => s % (MaxSlip + 1) = s
    BY SlipAssumption
  <2>7. LinkDone(k)'
    <3>1. PhaseDone(k)
      BY <1>5 DEF InSlip
    <3>2. lock'[k] >= 0 => slip'[k] = lock'[k]
      BY <2>5, <2>6
    <3>3. QED
      BY <2>3, <3>1, <3>2 DEF LinkDone, PhaseDone
  <2>8. LinksDone(k + 1)'
    <3>1. \A l \in 0..(k - 1) : l # k /\ l \in Link
      BY <1>s
    <3>2. \A l \in 0..(k - 1) : lock'[l] = lock[l] /\ slip'[l] = slip[l]
      BY <2>3, <2>4, <3>1
    <3>3. \A l \in 0..(k - 1) : LinkDone(l)
      BY <1>5 DEF InSlip, LinksDone
    <3>4. \A l \in 0..(k - 1) : LinkDone(l)'
      BY <2>3, <3>2, <3>3 DEF LinkDone
    <3>5. \A l \in 0..((k + 1) - 1) : l = k \/ l \in 0..(k - 1)
      OBVIOUS
    <3>6. QED
      BY <2>7, <3>4, <3>5 DEF LinksDone
  <2>9. AtLink(k + 1)' /\ k + 1 \in 0..Links
    BY <1>s, <2>1, <2>8 DEF AtLink
  <2>10. QED
    BY <2>9 DEF Underway
<1>6. ASSUME NEW j \in 0..Rocs, AtMode(j) PROVE Underway'
  <2>1. j # Rocs
    BY <1>6, <1>e, ModeNext DEF AtMode
  <2>2. Head(prog) = <<"run_mode", j>> /\ prog' = ModesFrom(j + 1) /\ j + 1 \in 0..Rocs
    BY <1>6, <1>e, <2>1, ModeNext DEF AtMode
  <2>3. running' = [running EXCEPT ![j] = was[j]] /\ UNCHANGED <<was, phase, slip, eye, lock>>
    BY <2>2, WorkEffect
  <2>4. j \in Roc /\ DOMAIN running = Roc
    BY <1>s, <2>1 DEF LinkShape
  <2>5. ModesDone(j + 1)'
    <3>1. \A r \in 0..((j + 1) - 1) : r \in Roc /\ (r = j \/ r \in 0..(j - 1))
      BY <1>s, <2>1
    <3>2. \A r \in 0..((j + 1) - 1) : running'[r] = was'[r]
      BY <1>6, <2>3, <2>4, <3>1 DEF AtMode, ModesDone
    <3>3. QED
      BY <3>2 DEF ModesDone
  <2>6. LinksDone(Links)'
    BY <1>6, <2>3, DoneSame DEF AtMode
  <2>7. AtMode(j + 1)'
    BY <2>2, <2>5, <2>6 DEF AtMode
  <2>8. QED
    BY <2>2, <2>7 DEF Underway
<1>7. QED
  BY <1>1, <1>2, <1>3, <1>4, <1>5, <1>6, UnderwayCases

-----------------------------------------------------------------------------
(***************************************************************************)
(* Every action keeps the alignment, or begins another.                    *)
(***************************************************************************)
LEMMA PairIs ==
  ASSUME NEW x, NEW y
  PROVE  <<x>> \o <<y>> = <<x, y>>
<1> DEFINE s == <<x>>
           t == <<y>>
           u == <<x, y>>
           S == {x, y}
<1>1. s \in Seq(S) /\ t \in Seq(S) /\ u \in Seq(S)
  OBVIOUS
<1>2. Len(s) = 1 /\ Len(t) = 1 /\ Len(u) = 2
  OBVIOUS
<1>3. s[1] = u[1] /\ t[1] = u[2]
  OBVIOUS
<1> HIDE DEF s, t, u, S
<1>4. /\ s \o t \in Seq(S) /\ Len(s \o t) = Len(s) + Len(t)
      /\ \A i \in 1..Len(s) + Len(t) : (s \o t)[i] = IF i <= Len(s) THEN s[i] ELSE t[i - Len(s)]
  BY <1>1, ConcatProperties
<1>5. \A i \in 1..2 : (s \o t)[i] = u[i]
  BY <1>2, <1>3, <1>4
<1>6. s \o t = u
  BY <1>1, <1>2, <1>4, <1>5, SeqEqual
<1>7. QED
  BY <1>6 DEF s, t, u

\* An alignment from its beginning, and what is done for a link.
LEMMA AlignIs == Align = <<<<"was">>>> \o (<<<<"hard_reset">>>> \o (LinksFrom(0) \o ModesFrom(0)))
<1>s. 0 \in 0..Links
  BY SizesType
<1>1. LinksFrom(0) = [k \in 1..Links |-> <<"align_link", k - 1>>]
  BY SizesType DEF LinksFrom, Each
<1>2. ModesFrom(0) = [k \in 1..Rocs |-> <<"run_mode", k - 1>>]
  BY SizesType DEF ModesFrom, Each
<1> DEFINE a == Do("was")
           b == Do("hard_reset")
           c == LinksFrom(0)
           d == ModesFrom(0)
<1>3. Align = ((a \o b) \o c) \o d
  BY <1>1, <1>2 DEF Align, Links, Rocs
<1>4. <<"was">> \in Left /\ <<"hard_reset">> \in Left
  BY DEF Left
<1>5. a \in Seq(Left) /\ b \in Seq(Left)
  BY <1>4 DEF Do
<1>6. c \in Seq(Left) /\ d \in Seq(Left)
  BY <1>s, LeftType
<1> HIDE DEF a, b, c, d
<1> DEFINE e == a \o b
           f == c \o d
<1>7. e \in Seq(Left) /\ f \in Seq(Left)
  BY <1>5, <1>6
<1> HIDE DEF e, f
<1>8. (e \o c) \o d = e \o (c \o d)
  BY <1>6, <1>7, ConcatAssociative
<1>9. (a \o b) \o f = a \o (b \o f)
  BY <1>5, <1>7, ConcatAssociative, SMTT(30)
<1>10. QED
  BY <1>3, <1>8, <1>9 DEF a, b, c, d, e, f, Do

LEMMA PhaseThenSlip ==
  ASSUME NEW k \in 0..(Links - 1)
  PROVE  (<<<<"align_phase", k>>>> \o <<<<"align_slip", k>>>>) \o (LinksFrom(k + 1) \o ModesFrom(0))
         = <<<<"align_phase", k>>>> \o (<<<<"align_slip", k>>>> \o (LinksFrom(k + 1) \o ModesFrom(0)))
<1>1. k + 1 \in 0..Links /\ k \in Nat
  BY SizesType
<1> DEFINE a == <<<<"align_phase", k>>>>
           b == <<<<"align_slip", k>>>>
           c == LinksFrom(k + 1) \o ModesFrom(0)
<1>2. <<"align_slip", k>> \in Left /\ <<"align_phase", k>> \in Left
  BY <1>1 DEF Left
<1>3. a \in Seq(Left) /\ b \in Seq(Left)
  BY <1>2
<1>4. c \in Seq(Left)
  BY <1>1, LeftType
<1> HIDE DEF a, b, c
<1>5. (a \o b) \o c = a \o (b \o c)
  BY <1>3, <1>4, ConcatAssociative
<1>6. QED
  BY <1>5 DEF a, b, c

\* The operation that is next in an alignment.
LEMMA UnderwayHead ==
  ASSUME Underway, prog # <<>>
  PROVE  /\ Head(prog)[1] \in {"was", "hard_reset", "align_link", "align_phase", "align_slip", "run_mode"}
         /\ \/ Head(prog)[1] \in {"was", "hard_reset", "align_phase", "align_slip", "run_mode"}
            \/ \E k \in 0..(Links - 1) : AtLink(k)
<1>1. ASSUME Reading PROVE Head(prog)[1] = "was"
  <2>1. Head(prog) = <<"was">>
    BY <1>1, ProgramAhead
  <2>2. QED
    BY <2>1
<1>2. ASSUME HardReset PROVE Head(prog)[1] = "hard_reset"
  <2>1. Head(prog) = <<"hard_reset">>
    BY <1>2, ProgramAhead
  <2>2. QED
    BY <2>1
<1>3. ASSUME NEW k \in 0..(Links - 1), AtLink(k) PROVE Head(prog)[1] = "align_link"
  <2>1. Head(prog) = <<"align_link", k>>
    BY <1>3, ProgramAhead
  <2>2. QED
    BY <2>1
<1>4. ASSUME NEW k \in 0..(Links - 1), InPhase(k) PROVE Head(prog)[1] = "align_phase"
  <2>1. Head(prog) = <<"align_phase", k>>
    BY <1>4, ProgramAhead
  <2>2. QED
    BY <2>1
<1>5. ASSUME NEW k \in 0..(Links - 1), InSlip(k) PROVE Head(prog)[1] = "align_slip"
  <2>1. Head(prog) = <<"align_slip", k>>
    BY <1>5, ProgramAhead
  <2>2. QED
    BY <2>1
<1>6. ASSUME NEW j \in 0..Rocs, AtMode(j) PROVE Head(prog)[1] = "run_mode"
  <2>1. j # Rocs
    BY <1>6, ModeNext DEF AtMode
  <2>2. Head(prog) = <<"run_mode", j>>
    BY <1>6, <2>1, ModeNext DEF AtMode
  <2>3. QED
    BY <2>2
<1>7. QED
  BY <1>1, <1>2, <1>3, <1>4, <1>5, <1>6, UnderwayCases

\* Only the menu of the links has the command that aligns them.
LEMMA AutoProgram ==
  ASSUME NEW m \in MenuName, "AUTO" \in Commands[m]
  PROVE  Program[m]["AUTO"] = <<<<"ask", "proceed">>, <<"proceed">>>>
<1>1. DOMAIN Program = MenuName
  BY DEF Program, MenuName
<1>2. "AUTO" \in DOMAIN Program[m]
  BY <1>1 DEF Commands
<1>3. m = "ELINKS"
  <2>1. CASE m = "ROOT"
    <3>1. Program[m] = RootCommands
      BY <2>1 DEF Program
    <3>2. "AUTO" \notin DOMAIN RootCommands
      BY DEF RootCommands
    <3>3. QED
      BY <1>2, <3>1, <3>2
  <2>2. CASE m = "I2C"
    <3>1. Program[m] = I2cCommands
      BY <2>2 DEF Program
    <3>2. "AUTO" \notin DOMAIN I2cCommands
      BY DEF I2cCommands
    <3>3. QED
      BY <1>2, <3>1, <3>2
  <2>3. CASE m = "FAST_CONTROL"
    <3>1. Program[m] = FastControlCommands
      BY <2>3 DEF Program
    <3>2. "AUTO" \notin DOMAIN FastControlCommands
      BY DEF FastControlCommands
    <3>3. QED
      BY <1>2, <3>1, <3>2
  <2>4. CASE m = "DAQ"
    <3>1. Program[m] = DaqCommands
      BY <2>4 DEF Program
    <3>2. "AUTO" \notin DOMAIN DaqCommands
      BY DEF DaqCommands
    <3>3. QED
      BY <1>2, <3>1, <3>2
  <2>5. CASE m = "DEBUG"
    <3>1. Program[m] = DebugCommands
      BY <2>5 DEF Program
    <3>2. "AUTO" \notin DOMAIN DebugCommands
      BY DEF DebugCommands
    <3>3. QED
      BY <1>2, <3>1, <3>2
  <2>6. CASE m = "SETUP"
    <3>1. Program[m] = SetupCommands
      BY <2>6 DEF Program
    <3>2. "AUTO" \notin DOMAIN SetupCommands
      BY DEF SetupCommands
    <3>3. QED
      BY <1>2, <3>1, <3>2
  <2>7. CASE m = "OPTO"
    <3>1. Program[m] = OptoCommands
      BY <2>7 DEF Program
    <3>2. "AUTO" \notin DOMAIN OptoCommands
      BY DEF OptoCommands
    <3>3. QED
      BY <1>2, <3>1, <3>2
  <2>8. CASE m = "BIAS"
    <3>1. Program[m] = BiasCommands
      BY <2>8 DEF Program
    <3>2. "AUTO" \notin DOMAIN BiasCommands
      BY DEF BiasCommands
    <3>3. QED
      BY <1>2, <3>1, <3>2
  <2>9. CASE m = "EXPERT"
    <3>1. Program[m] = <<>>
      BY <2>9 DEF Program
    <3>2. QED
      BY <1>2, <3>1
  <2>10. QED
    BY <2>1, <2>2, <2>3, <2>4, <2>5, <2>6, <2>7, <2>8, <2>9 DEF MenuName
<1>4. Program[m]["AUTO"] = Ask("proceed") \o Do("proceed")
  BY <1>3 DEF Program, ElinkCommands
<1>5. Ask("proceed") \o Do("proceed") = <<<<"ask", "proceed">>, <<"proceed">>>>
  BY PairIs DEF Ask, Do
<1>6. QED
  BY <1>4, <1>5

LEMMA SpellsUnhandled == \A s, k, n : Spells(s, k, n) /\ k \in Int => s \in Seq(Unhandled)
<1> SUFFICES ASSUME NEW s, NEW k \in Int, NEW n, Spells(s, k, n) PROVE s \in Seq(Unhandled)
  OBVIOUS
<1>1. s \in Seq(Operation) /\ \A i \in 1..Len(s) : Fits(s[i], k + i - 1)
  BY DEF Spells
<1>2. \A op \in Before \cup After : op[1] \notin Handling
  BY DEF Before, After, Asks, Fires, Handling
<1>3. \A i \in 1..Last1 : ClearOps[i][1] \notin Handling
  BY DEF ClearOps, Last1, MappedOps, PulsedOps, Handling
<1>4. ASSUME NEW i \in 1..Len(s) PROVE s[i] \in Unhandled
  <2>1. Fits(s[i], k + i - 1) /\ k + i - 1 \in Int /\ Last1 \in Int
    BY <1>1 DEF Last1
  <2>2. s[i][1] \notin Handling
    BY <1>2, <1>3, <2>1 DEF Fits
  <2>3. QED
    BY <2>1, <2>2 DEF Fits, Unhandled
<1>5. QED
  BY <1>1, <1>4

LEMMA PlainUnhandled == \A s \in Seq(Plain) : s \in Seq(Unhandled)
<1>1. Plain \subseteq Unhandled
  BY DEF Plain, Unhandled, Operation
<1>2. QED
  BY <1>1

\* The programs of all but five commands leave the links and the chips alone.
LEMMA StartedUnhandled ==
  ASSUME NEW m \in MenuName, NEW c \in Commands[m], c \notin Handled
  PROVE  Program[m][c] \in Seq(Unhandled)
<1>1. CASE c \notin Resetting
  BY <1>1, ProgramQuiet, PlainUnhandled
<1>2. CASE c \in Clearing
  BY <1>2, StartedProgram, SpellsUnhandled
<1>3. CASE c = "COUNTER_RESET"
  <2>1. m = "FAST_CONTROL"
    BY <1>3, ProgramQuiet DEF Resetting
  <2>2. Program[m][c] = ResetCounters \o Do("print")
    BY <1>3, <2>1 DEF Program, FastControlCommands
  <2>3. ResetCounters \in Seq(Unhandled)
    <3>1. Mapped => <<"read">> \in Unhandled /\ <<"write", "count_rst">> \in Unhandled
      BY DEF Unhandled, Handling, Operation, Quiet, Words, Bare, Sends, Counting
    <3>2. ~Mapped => <<"pulse", "count_rst">> \in Unhandled
      BY DEF Unhandled, Handling, Operation, Sends, Counting
    <3>3. QED
      BY <3>1, <3>2 DEF ResetCounters, Request, Pulse
  <2>4. Do("print") \in Seq(Unhandled)
    <3>1. "print" \in Bare \ Handling
      BY DEF Bare, Handling
    <3>2. QED
      BY <3>1, DoPlain, PlainUnhandled
  <2>5. QED
    BY <2>2, <2>3, <2>4
<1>4. QED
  BY <1>1, <1>2, <1>3 DEF Resetting

LEMMA PlacesSame ==
  ASSUME UNCHANGED <<board, prog, running, was, phase, slip, eye, lock>>
  PROVE  (Asked <=> Asked') /\ (Underway <=> Underway') /\ Mapped' = Mapped
<1>1. \A k : (LinksDone(k)' <=> LinksDone(k)) /\ (ModesDone(k)' <=> ModesDone(k)) /\ (PhaseDone(k)' <=> PhaseDone(k))
  BY DoneSame DEF ModesDone, PhaseDone
<1>2. (Reading <=> Reading') /\ (HardReset <=> HardReset') /\ (Asked <=> Asked')
  BY DEF Reading, HardReset, Asked
<1>3. \A k : (AtLink(k) <=> AtLink(k)') /\ (InPhase(k) <=> InPhase(k)') /\ (InSlip(k) <=> InSlip(k)') /\ (AtMode(k) <=> AtMode(k)')
  BY <1>1 DEF AtLink, InPhase, InSlip, AtMode
<1>4. QED
  BY <1>2, <1>3 DEF Underway, Mapped

LEMMA AlignedInit == Init => AlignedInv
<1> SUFFICES ASSUME Init PROVE AlignedInv
  OBVIOUS
<1>1. TypeInv
  BY NumberedInit DEF NumberedInv
<1>2. LinkShape
  BY DEF Init, LinkInit, LinkShape
<1>3. prog = <<>> /\ cmd = "none" /\ aligned = FALSE
  BY DEF Init, MenuInit
<1>4. prog \in Seq(Unhandled)
  BY <1>3
<1>5. QED
  BY <1>1, <1>2, <1>3, <1>4 DEF AlignedInv

LEMMA AlignedStart ==
  ASSUME AlignedInv, TypeInv', Start
  PROVE  AlignedInv'
<1> DEFINE m == Last(path)
           c == cmd'
<1>1. /\ path # <<>> /\ prog = <<>> /\ c \in Commands[m] /\ prog' = Program[m][c]
      /\ aligned' = (aligned /\ c \notin Handled) /\ UNCHANGED <<board, running, was, phase, slip, eye, lock>>
  BY DEF Start, StartCommand, Read, Waiting, Idle, Handled, fcvars, linkvars
<1>2. m \in MenuName
  BY <1>1, LastType DEF AlignedInv, TypeInv
<1> HIDE DEF m, c
<1>3. LinkShape'
  BY <1>1, LinkShapeSame DEF AlignedInv
<1>4. c \notin Handled => (prog \in Seq(Unhandled))'
  BY <1>1, <1>2, StartedUnhandled, BoardSame
<1>5. c = "AUTO" => Asked'
  BY <1>1, <1>2, AutoProgram DEF Asked
<1>6. aligned' => LinksDone(Links)' /\ running' = was' /\ c \notin Handled
  BY <1>1, DoneSame DEF AlignedInv
<1>7. QED
  BY <1>3, <1>4, <1>5, <1>6 DEF AlignedInv, c

\* A step of the operator takes a question away, or the whole program.
LEMMA AlignedOperator ==
  ASSUME AlignedInv, TypeInv', Operator
  PROVE  AlignedInv'
<1>1. /\ UNCHANGED <<board, running, was, phase, slip, eye, lock, aligned>> /\ cmd' = cmd
      /\ \/ prog' = prog \/ prog' = <<>>
         \/ prog # <<>> /\ prog' = Tail(prog) /\ \E p : Head(prog) = <<"ask", p>>
  BY OperatorProgram DEF Operator, own, linkvars, fcvars
<1>2. LinkShape' /\ (LinksDone(Links)' <=> LinksDone(Links))
  <2>1. LinkShape'
    BY <1>1, LinkShapeSame DEF AlignedInv
  <2>2. LinksDone(Links)' <=> LinksDone(Links)
    BY <1>1, DoneSame
  <2>3. QED
    BY <2>1, <2>2
<1>3. cmd' \notin Handled => (prog \in Seq(Unhandled))'
  <2>1. \A S : prog \in Seq(S) => prog' \in Seq(S)
    <3>1. \A S : <<>> \in Seq(S)
      OBVIOUS
    <3>2. \A S : prog \in Seq(S) /\ prog # <<>> => Tail(prog) \in Seq(S)
      OBVIOUS
    <3>3. QED
      BY <1>1, <3>1, <3>2
  <2>2. QED
    BY <1>1, <2>1, BoardSame DEF AlignedInv
<1>4. cmd' = "AUTO" /\ Mapped' => prog' = <<>> \/ Asked' \/ Underway'
  <2>1. SUFFICES ASSUME cmd = "AUTO", Mapped, prog # <<>>, prog' # <<>> PROVE Asked' \/ Underway'
    BY <1>1, BoardSame
  <2>2. CASE prog' = prog
    BY <1>1, <2>1, <2>2, PlacesSame DEF AlignedInv
  <2>3. CASE prog' = Tail(prog) /\ \E p : Head(prog) = <<"ask", p>>
    <3>1. PICK p : Head(prog) = <<"ask", p>>
      BY <2>3
    <3>2. Head(prog)[1] = "ask"
      BY <3>1
    <3>3. ~Underway
      <4>1. SUFFICES ASSUME Underway PROVE FALSE
        OBVIOUS
      <4>2. Head(prog)[1] \in {"was", "hard_reset", "align_link", "align_phase", "align_slip", "run_mode"}
        BY <2>1, <4>1, UnderwayHead
      <4>3. QED
        BY <3>2, <4>2
    <3>4. Asked
      BY <2>1, <3>3 DEF AlignedInv
    <3>5. prog = <<<<"ask", "proceed">>, <<"proceed">>>>
      BY <3>2, <3>4 DEF Asked
    <3>6. prog' = <<<<"proceed">>>>
      BY <2>3, <3>5
    <3>7. QED
      BY <3>6 DEF Asked
  <2>4. QED
    BY <1>1, <2>1, <2>2, <2>3
<1>5. aligned' => LinksDone(Links)' /\ running' = was' /\ (prog' = <<>> \/ cmd' \notin Handled)
  BY <1>1, <1>2 DEF AlignedInv
<1>6. QED
  BY <1>2, <1>3, <1>4, <1>5 DEF AlignedInv

\* The answer unfolds to the whole of it, and what is done for a link to its parts.
LEMMA UnderwayUnfold ==
  ASSUME LinkShape, Mapped, Asked \/ Underway, Unfold
  PROVE  prog' = <<>> \/ Underway'
<1>1. /\ prog # <<>> /\ Head(prog)[1] \in Unfolding /\ prog' = Unfolded(Head(prog)) \o Tail(prog)
      /\ UNCHANGED <<board, running, was, phase, slip, eye, lock>>
  BY DEF Unfold, own, linkvars, fcvars
<1>s. Links \in Nat /\ Rocs \in Nat /\ Link = 0..(Links - 1)
  BY SizesType
<1>u. board # "fiberless" => \A k \in 0..(Links - 1) : eye[k] = {}
  BY <1>s DEF LinkShape
<1>2. CASE Asked
  <2>1. Head(prog) = <<"proceed">> /\ Tail(prog) = <<>>
    BY <1>1, <1>2 DEF Asked, Unfolding
  <2>2. Unfolded(Head(prog)) = IF Yes(ans["proceed"]) THEN Align ELSE <<>>
    <3>1. Head(prog)[1] = "proceed"
      BY <2>1
    <3>2. QED
      BY <3>1 DEF Unfolded
  <2>3. Align \o <<>> = Align
    BY AlignQuiet
  <2>5. CASE Yes(ans["proceed"])
    <3>1. prog' = Align
      BY <1>1, <2>1, <2>2, <2>3, <2>5
    <3>2. QED
      BY <3>1, AlignIs DEF Underway, Reading
  <2>6. CASE ~Yes(ans["proceed"])
    BY <1>1, <2>1, <2>2, <2>6
  <2>7. QED
    BY <2>5, <2>6
<1>3. CASE Underway
  <2>1. PICK k \in 0..(Links - 1) : AtLink(k)
    <3>1. Head(prog)[1] \notin {"was", "hard_reset", "align_phase", "align_slip", "run_mode"}
      BY <1>1 DEF Unfolding
    <3>2. QED
      BY <1>1, <1>3, <3>1, UnderwayHead
  <2>2. Head(prog) = <<"align_link", k>> /\ Tail(prog) = LinksFrom(k + 1) \o ModesFrom(0)
    BY <2>1, ProgramAhead
  <2>3. Unfolded(Head(prog)) = AlignLink(k)
    <3>1. Head(prog)[1] = "align_link" /\ Head(prog)[2] = k
      BY <2>2
    <3>2. Unfolded(Head(prog)) = AlignLink(Head(prog)[2])
      BY <3>1 DEF Unfolded
    <3>3. QED
      BY <3>1, <3>2
  <2>4. LinksDone(k)'
    BY <1>1, <2>1, DoneSame DEF AtLink
  <2> DEFINE rest == LinksFrom(k + 1) \o ModesFrom(0)
             slipping == <<<<"align_slip", k>>>>
             phasing == <<<<"align_phase", k>>>>
  <2>6. CASE board = "fiberless"
    <3>1. AlignLink(k) = phasing \o slipping
      BY <2>6 DEF AlignLink
    <3>2. (phasing \o slipping) \o rest = phasing \o (slipping \o rest)
      BY PhaseThenSlip
    <3>3. prog' = phasing \o (slipping \o rest)
      BY <1>1, <2>2, <2>3, <3>1, <3>2
    <3>4. InPhase(k)'
      BY <1>1, <2>4, <2>6, <3>3 DEF InPhase
    <3>5. QED
      BY <3>4 DEF Underway
  <2>7. CASE board # "fiberless"
    <3>1. AlignLink(k) = slipping
      BY <2>7 DEF AlignLink
    <3>2. prog' = slipping \o rest
      BY <1>1, <2>2, <2>3, <3>1
    <3>3. PhaseDone(k)'
      BY <1>1, <1>u, <2>7 DEF PhaseDone
    <3>4. InSlip(k)'
      BY <2>4, <3>2, <3>3 DEF InSlip
    <3>5. QED
      BY <3>4 DEF Underway
  <2>8. QED
    BY <2>6, <2>7
<1>4. QED
  BY <1>2, <1>3

LEMMA AlignedUnfold ==
  ASSUME AlignedInv, TypeInv', Unfold
  PROVE  AlignedInv'
<1> DEFINE op == Head(prog)
<1>1. /\ prog # <<>> /\ op[1] \in Unfolding /\ prog' = Unfolded(op) \o Tail(prog)
      /\ UNCHANGED <<board, running, was, phase, slip, eye, lock, aligned>> /\ cmd' = cmd
  BY DEF Unfold, own, linkvars, fcvars
<1>2. LinkShape'
  BY <1>1, LinkShapeSame DEF AlignedInv
<1>3. LinksDone(Links)' <=> LinksDone(Links)
  BY <1>1, DoneSame
<1>4. ASSUME cmd \notin Handled PROVE (prog \in Seq(Unhandled))'
  <2>1. prog \in Seq(Unhandled)
    BY <1>4 DEF AlignedInv
  <2>2. op \in Unhandled /\ Tail(prog) \in Seq(Unhandled)
    BY <1>1, <2>1
  <2>3. fc.delay \in Int /\ front.buf \in Int
    BY DEF AlignedInv, TypeInv, FcShape
  <2>4. Unfolded(op) \in Seq(Plain)
    BY <1>1, <2>2, <2>3, UnfoldedPlain DEF Unhandled
  <2>5. Unfolded(op) \in Seq(Unhandled)
    BY <2>4, PlainUnhandled
  <2>6. prog' \in Seq(Unhandled)
    BY <1>1, <2>2, <2>5
  <2>7. QED
    BY <1>1, <2>6, BoardSame
<1>5. ASSUME cmd = "AUTO", Mapped PROVE prog' = <<>> \/ Underway'
  <2>1. Asked \/ Underway
    BY <1>1, <1>5 DEF AlignedInv
  <2>2. QED
    BY <1>5, <2>1, UnderwayUnfold DEF AlignedInv
<1>6. aligned' => LinksDone(Links)' /\ running' = was' /\ cmd' \notin Handled
  BY <1>1, <1>3 DEF AlignedInv
<1>7. Mapped' = Mapped
  BY <1>1, BoardSame
<1>8. QED
  BY <1>1, <1>2, <1>4, <1>5, <1>6, <1>7 DEF AlignedInv

LEMMA UnderwayOver == (Underway /\ prog = <<>> => LinksDone(Links) /\ ModesDone(Rocs))'
<1>1. Underway /\ prog = <<>> => LinksDone(Links) /\ ModesDone(Rocs)
  BY UnderwayDone
<1>2. QED
  BY <1>1, PTL

\* The end of an alignment, as the state after the step has it.
LEMMA AlignedEnd ==
  ASSUME Underway', prog' = <<>>, LinkShape'
  PROVE  LinksDone(Links)' /\ running' = was'
<1>1. LinksDone(Links)' /\ ModesDone(Rocs)'
  BY UnderwayOver
<1>2. \A r \in Roc : running'[r] = was'[r]
  BY <1>1, SizesType DEF ModesDone
<1>3. running' = was'
  BY <1>2 DEF LinkShape
<1>4. QED
  BY <1>1, <1>3

LEMMA AlignedWork ==
  ASSUME AlignedInv, TypeInv', Work
  PROVE  AlignedInv'
<1> DEFINE op == Head(prog)
<1>1. /\ prog # <<>> /\ prog' = Tail(prog) /\ UNCHANGED <<board, cmd, ans>>
      /\ aligned' = (aligned \/ (prog' = <<>> /\ cmd = "AUTO" /\ Mapped /\ Yes(ans["proceed"])))
  <2>1. aligned' = (aligned \/ (prog' = <<>> /\ cmd = "AUTO" /\ Mapped /\ Yes(ans["proceed"])))
    BY DEF Work, Ended
  <2>2. QED
    BY <2>1, WorkEffect
<1>2. LinkShape'
  BY LinkShapeWork DEF AlignedInv
<1>3. Mapped' = Mapped /\ Unhandled' = Unhandled
  BY <1>1, BoardSame
<1>4. ASSUME cmd \notin Handled PROVE op \in Unhandled /\ prog' \in Seq(Unhandled)
  BY <1>1, <1>4 DEF AlignedInv
<1>5. ASSUME cmd = "AUTO", Mapped PROVE Underway'
  <2>1. Asked \/ Underway
    BY <1>1, <1>5 DEF AlignedInv
  <2>2. ~Asked
    <3>1. Asked => op = <<"ask", "proceed">> \/ op = <<"proceed">>
      BY DEF Asked
    <3>2. Asked => op[1] \in {"ask", "proceed"}
      BY <3>1
    <3>3. QED
      BY <3>2, WorkEffect
  <2>3. QED
    BY <2>1, <2>2, UnderwayWork DEF AlignedInv
<1>6. CASE aligned
  <2>1. cmd \notin Handled /\ LinksDone(Links) /\ running = was
    BY <1>1, <1>6 DEF AlignedInv
  <2>2. op[1] \notin Handling
    BY <1>4, <2>1 DEF Unhandled
  <2>3. UNCHANGED <<running, was, phase, slip, eye, lock>>
    BY <2>2, WorkEffect
  <2>4. LinksDone(Links)'
    BY <2>1, <2>3, DoneSame
  <2>5. (prog \in Seq(Unhandled))'
    BY <1>3, <1>4, <2>1
  <2>6. QED
    BY <1>1, <1>2, <2>1, <2>3, <2>4, <2>5 DEF AlignedInv, Handled
<1>7. CASE ~aligned
  <2>1. aligned' => LinksDone(Links)' /\ running' = was' /\ prog' = <<>>
    BY <1>1, <1>2, <1>5, <1>7, AlignedEnd
  <2>2. cmd' \notin Handled => (prog \in Seq(Unhandled))'
    BY <1>1, <1>3, <1>4
  <2>3. cmd' = "AUTO" /\ Mapped' => Underway'
    BY <1>1, <1>3, <1>5
  <2>4. QED
    BY <1>2, <2>1, <2>2, <2>3 DEF AlignedInv
<1>8. QED
  BY <1>6, <1>7

LEMMA AlignedThrow ==
  ASSUME AlignedInv, TypeInv', Throw
  PROVE  AlignedInv'
<1>1. /\ prog' = <<>> /\ cmd' = cmd /\ UNCHANGED <<board, running, was, phase, slip, eye, lock, aligned>>
  BY DEF Throw, Abandon, own, linkvars, fcvars
<1>2. LinkShape'
  BY <1>1, LinkShapeSame DEF AlignedInv
<1>3. LinksDone(Links)' <=> LinksDone(Links)
  BY <1>1, DoneSame
<1>4. (prog \in Seq(Unhandled))'
  BY <1>1
<1>5. aligned' => LinksDone(Links)' /\ running' = was'
  BY <1>1, <1>3 DEF AlignedInv
<1>6. QED
  BY <1>1, <1>2, <1>4, <1>5 DEF AlignedInv

\* What the hardware does, and a step of nothing, leave all of it as it is.
LEMMA AlignedSame ==
  ASSUME AlignedInv, TypeInv', UNCHANGED <<board, prog, cmd, running, was, phase, slip, eye, lock, aligned>>
  PROVE  AlignedInv'
<1>1. LinkShape'
  BY LinkShapeSame DEF AlignedInv
<1>2. LinksDone(Links)' <=> LinksDone(Links)
  BY DoneSame
<1>3. (Asked <=> Asked') /\ (Underway <=> Underway') /\ Mapped' = Mapped
  BY PlacesSame
<1>4. cmd \notin Handled => (prog \in Seq(Unhandled))'
  BY BoardSame DEF AlignedInv
<1>5. cmd = "AUTO" /\ Mapped => prog' = <<>> \/ Asked' \/ Underway'
  BY <1>3 DEF AlignedInv
<1>6. aligned' => LinksDone(Links)' /\ running' = was' /\ (prog' = <<>> \/ cmd' \notin Handled)
  BY <1>2 DEF AlignedInv
<1>7. QED
  BY <1>1, <1>3, <1>4, <1>5, <1>6 DEF AlignedInv

LEMMA AlignedStep == NumberedInv /\ AlignedInv /\ [Next]_svars => NumberedInv' /\ AlignedInv'
<1> SUFFICES ASSUME NumberedInv, AlignedInv, [Next]_svars PROVE NumberedInv' /\ AlignedInv'
  OBVIOUS
<1>1. NumberedInv' /\ TypeInv'
  <2>1. NumberedInv'
    BY NumberedStep
  <2>2. QED
    BY <2>1 DEF NumberedInv
<1>2. CASE UNCHANGED svars
  <2>1. UNCHANGED <<board, prog, cmd, running, was, phase, slip, eye, lock, aligned>>
    BY <1>2 DEF svars, fcvars, menuvars, linkvars
  <2>2. QED
    BY <1>1, <2>1, AlignedSame
<1>3. CASE Hardware /\ UNCHANGED <<menuvars, linkvars, own>>
  <2>1. board' = board
    BY <1>3 DEF Hardware, SendReset, SendCommand, Trigger
  <2>2. UNCHANGED <<prog, cmd, running, was, phase, slip, eye, lock, aligned>>
    BY <1>3 DEF menuvars, linkvars, own
  <2>3. QED
    BY <1>1, <2>1, <2>2, AlignedSame
<1>4. QED
  BY <1>1, <1>2, <1>3, AlignedStart, AlignedOperator, AlignedUnfold, AlignedWork, AlignedThrow DEF Next, Tool

\* When the links were aligned each is set inside a window without mismatch that
\* no other exceeds, and not at the edge of one of three points or more; its
\* bitslip shows the pattern if one does; and the chips are in run mode as before
\* the reset; for any number of links, chips and phases, any windows, any script
\* and operator, and until a command of the links or the standard setup handles
\* them again (expert.cxx:149, Elinks.cxx:27).
THEOREM AlignedCorrect == Spec => []Aligned
<1>1. NumberedInv /\ AlignedInv => Aligned
  <2>1. SUFFICES ASSUME AlignedInv, aligned PROVE Aligned
    BY DEF Aligned
  <2>2. running = was /\ LinksDone(Links)
    BY <2>1 DEF AlignedInv
  <2>3. \A l \in Link : LinkDone(l)
    BY <2>2, SizesType DEF LinksDone
  <2>4. QED
    BY <2>2, <2>3 DEF Aligned, LinkDone
<1>2. Init => NumberedInv /\ AlignedInv
  BY NumberedInit, AlignedInit
<1>3. QED
  BY <1>1, <1>2, AlignedStep, PTL DEF Spec

=============================================================================
