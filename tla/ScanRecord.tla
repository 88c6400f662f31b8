----------------------------- MODULE ScanRecord -----------------------------
(***************************************************************************)
(* What a user of pftool expects of the scans he takes, whatever the       *)
(* hardware in between: an output with one entry per trigger, in the order *)
(* of the triggers, in which the entry written for event e of point p of   *)
(* scan s holds as many samples as were asked for, all of them taken by    *)
(* that very trigger with the setting of that very point on the chip.      *)
(***************************************************************************)
EXTENDS Integers, Sequences

CONSTANTS NScans, NPoints, NEvents, SampleChoices

VARIABLE log

Total == NScans * NPoints * NEvents

\* The k-th trigger of the session: <<scan, point, event>>.
Trigger(k) == <<1 + (k \div (NPoints * NEvents)),
                1 + ((k \div NEvents) % NPoints),
                k % NEvents>>

\* A complete entry: n samples of the trigger, under the setting of its point.
Entry(trigger, n) ==
    [trigger |-> trigger,
     samples |-> [i \in 1..n |-> [ror |-> trigger, tag |-> trigger[2]]]]

Init == log = <<>>

Take ==
    /\ Len(log) < Total
    /\ \E n \in SampleChoices : log' = Append(log, Entry(Trigger(Len(log)), n))

\* The entries are the right ones; nothing is said of how many there will be.
Safe == Init /\ [][Take]_log

\* They are all written in the end.
Spec == Safe /\ WF_log(Take)
=============================================================================
