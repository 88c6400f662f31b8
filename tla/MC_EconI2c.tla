----------------------------- MODULE MC_EconI2c -----------------------------
(***************************************************************************)
(* Five parameters in four blocks.  Two share a register; with the next    *)
(* one it makes the longest run a master of four bytes can hold beside the *)
(* address, with the one after that the run is too long; the last block is *)
(* apart and has two registers.                                            *)
(***************************************************************************)
EXTENDS EconI2c

CONSTANTS left, right, next, after, apart

MC_Param == {left, right, next, after, apart}
MC_Layout ==
    [p \in MC_Param |-> CASE p = next -> {2} [] p = after -> {3} [] p = apart -> {5, 6}
                          [] OTHER -> {1}]

\* A shared register, a run that fits with a block apart, a run that does not fit.
MC_Settings ==
    {[p \in {left} |-> 1], [p \in {right, next, apart} |-> 1],
     [p \in {right, next} |-> 0], [p \in {left, next, after} |-> 1]}

\* A run that does not fit.
MC_LongRun == {[p \in {left, next, after} |-> 1]}
=============================================================================
