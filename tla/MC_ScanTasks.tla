---------------------------- MODULE MC_ScanTasks ----------------------------
(***************************************************************************)
(* One task of the menu, with every answer that changes its steps, on      *)
(* chips whose parameters hold distinct values that no task sets, on reset *)
(* chips and on chips that an interrupted task has left.                   *)
(***************************************************************************)
EXTENDS ScanTasks

\* Registers are written by page, here in the order CH, DIGITALHALF, MASTERTDC,
\* REFERENCEVOLTAGE, TOP.
PagePlace == [CH |-> 0, DIGITALHALF |-> 100, MASTERTDC |-> 200, REFERENCEVOLTAGE |-> 300, TOP |-> 400]
MC_Place == [p \in AllParam |-> PagePlace[p[1]] + p[2]]

\* What a tuned chip may hold.
Tuned ==
    [HIGHRANGE |-> 0, LOWRANGE |-> 0, SIGN_DAC |-> 0, DACB |-> 7, TRIM_INV |-> 20, TRIM_TOA |-> 9, TRIM_TOT |-> 30,
     ADC_PEDESTAL |-> 40, CALIB |-> 100, CALIB_2V5 |-> 30, INTCTEST |-> 0, CHOICE_CINJ |-> 0, TOA_VREF |-> 180,
     TOT_VREF |-> 350, INV_VREF |-> 330, NOINV_VREF |-> 270, IDLEFRAME |-> 50, ADC_TH |-> 12, L1OFFSET |-> 8,
     GLOBAL_LATENCY_TIME |-> 14, PHASE_STROBE |-> 6, PHASE_CK |-> 3]
Flags == {"HIGHRANGE", "LOWRANGE", "SIGN_DAC", "INTCTEST", "CHOICE_CINJ"}
TunedBoard == [p \in AllParam |-> Tuned[p[3]] + (IF p[3] \in Flags THEN 0 ELSE p[2])]

\* A tuned chip, one after its reset, and chips an interrupted task has left.
Leftovers ==
    {OnHalves(0..1, "IDLEFRAME", 10), OnHalves(0..3, "IDLEFRAME", 11),
     OnChannels(AllChannels, "SIGN_DAC", 1) @@ OnChannels(AllChannels, "DACB", 60), OnTop("PHASE_STROBE", 15)}
MC_Boards == {TunedBoard, [p \in AllParam |-> 0]} \cup {Write(TunedBoard, s) : s \in Leftovers}
MC_Delays == {[charge |-> 16, led |-> 22]}
MC_Standard == [charge |-> 20, led |-> 18]

Formats == {"SIMPLEROC", "ECOND_SW_HEADERS", "ECOND_NO_ZS"}
Both == {"SIMPLEROC", "ECOND_SW_HEADERS"}

Timed ==
    ({"charge_timescan"} \X {"SIMPLEROC"} \X {"led", "precc", "highrange", "lowrange"})
    \cup ({"parameter_timescan"} \X {"SIMPLEROC"} \X {"one", "all", "tot"})
    \cup ({"multi_channel_scan"} \X Both \X {"led", "precc", "highrange"})
    \cup ({"trigger_timein", "charge_timein"} \X {"SIMPLEROC"} \X {""})
    \cup ({"charge_timein"} \X {"ECOND_NO_ZS"} \X {""})

Swept ==
    ({"gen_scan"} \X {"SIMPLEROC"} \X {"none", "link"})
    \cup ({"inv_vref_scan", "noinv_vref_scan", "sampling_phase_scan", "trim_inv_dacb_scan", "vt50_scan"} \X {"SIMPLEROC"} \X {""})
    \cup ({"vref_2d_scan"} \X Both \X {""})

Calibrations ==
    ({"level_pedestals", "toa_vref_scan", "tot_vref_scan"} \X Formats \X {""})
    \cup ({"trim_toa_scan"} \X {"SIMPLEROC"} \X {""})
    \cup ({"align_phase_word"} \X {"SIMPLEROC"} \X {"ready", "not_ready"})

MC_Task == Timed \cup Swept \cup Calibrations
\* A task whose rows claim what is not set.
NoinvTask == {<<"noinv_vref_scan", "SIMPLEROC", "">>}

MC_Program == [t \in MC_Task |-> ProgramOf(t)]

MC_Movers == {"charge_timein"} \X Formats \X {""}

\* The programs of the menu put everything back, and their rows claim what is set,
\* but for those marked wrong.
ASSUME ReturnAssumption == Balanced /\ Centres /\ ReturnsHome
ASSUME RowAssumption == RowsNamed
=============================================================================
