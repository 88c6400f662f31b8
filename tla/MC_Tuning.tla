------------------------------ MODULE MC_Tuning ------------------------------
(***************************************************************************)
(* Tuning a ROC: the settings are found, a CALIB for a channel             *)
(* (CalibSearch) and the TOT thresholds of a chip (TotScan), and put on    *)
(* the chip (RocParameters).  A behaviour is about one of the three: a     *)
(* search that has ended, a chip given up, and a program that has          *)
(* terminated stand for the two that it leaves alone.                      *)
(***************************************************************************)
EXTENDS MC_RocParameters, MC_CalibSearch, MC_TotScan

VARIABLE part \* "calib", "tot" or "roc": the one under way

tuningVars == <<part, vars, searchVars, totVars>>

SearchOver ==
    /\ case = Chip("get_calibs", Start, Start + 1, {}, 2)
    /\ calib_list = <<0, Top>> /\ count = 2
    /\ value = Start /\ effs = 0 /\ last = "near" /\ outcome = "found"

TotOver ==
    /\ curve = [ch \in Chans |-> <<0, 0, 0>>]
    /\ loop = "thrown" /\ channel = 0
    /\ link_vref_list = [l \in Links |-> -1]
    /\ vref_list = <<0, 1>> /\ vref_value = 0 /\ vref_effs = 0 /\ vref_last = 0
    /\ trim_tot = 0 /\ target = 0 /\ tot_trims = [ch \in Chans |-> 0]

RocOver ==
    /\ chip \in Initial
    /\ handles = <<>> /\ pc = "terminated" /\ op = Idle
    /\ image = <<>> /\ todo = {} /\ tries = 0
    /\ intended = [p \in Param |-> Held(chip, p)] /\ suspect = {}

TuningInit ==
    \/ part = "calib" /\ SearchInit /\ TotOver /\ RocOver
    \/ part = "tot" /\ TotInit /\ SearchOver /\ RocOver
    \/ part = "roc" /\ Init /\ SearchOver /\ TotOver

TuningNext ==
    \/ part = "calib" /\ SearchNext /\ UNCHANGED <<part, vars, totVars>>
    \/ part = "tot" /\ TotNext /\ UNCHANGED <<part, vars, searchVars>>
    \/ part = "roc" /\ Next /\ UNCHANGED <<part, searchVars, totVars>>

\* What goes on by itself.
Progress ==
    \/ part = "calib" /\ Search /\ UNCHANGED <<part, vars, totVars>>
    \/ part = "tot" /\ Step /\ UNCHANGED <<part, vars, searchVars>>
    \/ part = "roc" /\ Run /\ UNCHANGED <<part, searchVars, totVars>>

TuningSpec == TuningInit /\ [][TuningNext]_tuningVars /\ WF_tuningVars(Progress)
=============================================================================
