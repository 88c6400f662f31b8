------------------------------- MODULE MC_Rows -------------------------------
(***************************************************************************)
(* From a task of the menu to the rows of its file: the columns a task     *)
(* puts in front of them (ScanTasks), and the events a decoder makes of    *)
(* what was read out (EventFraming).  A behaviour is about one of the two; *)
(* a menu nobody uses and a decoder that has ended stand for the other.    *)
(***************************************************************************)
EXTENDS MC_ScanTasks, MC_EventFraming

VARIABLE side \* "task" or "event": the one under way

rowsVars == <<side, vars, framingVars>>

TaskOver ==
    /\ roc = TunedBoard /\ kept = roc
    /\ delay \in Delays /\ settled = delay
    /\ task = None /\ program = <<>> /\ pc = 1 /\ handles = <<>>
    /\ central = 0 /\ throwing = FALSE /\ spoiled = {} /\ begun = MaxTasks

EventsOver ==
    /\ setup = S("econ", "ECOND", "memory", 1, 0, "zs", {}, Good, FALSE, 0, MC_Plain)
    /\ phase = "stop" /\ runs = 1 /\ event = 0
    /\ file = <<>> /\ stored = <<>> /\ pos = 0 /\ ep = Fresh /\ rows = <<>>

RowsInit ==
    \/ side = "task" /\ Init /\ EventsOver
    \/ side = "event" /\ FramingInit /\ TaskOver

RowsNext ==
    \/ side = "task" /\ Next /\ UNCHANGED <<side, framingVars>>
    \/ side = "event" /\ FramingNext /\ UNCHANGED <<side, vars>>

RowsSpec == RowsInit /\ [][RowsNext]_rowsVars
=============================================================================
