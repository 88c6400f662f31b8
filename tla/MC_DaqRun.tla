----------------------------- MODULE MC_DaqRun ------------------------------
(***************************************************************************)
(* Values of the constants of DaqRun for TLC.  The .cfg files choose the   *)
(* boards, the timing and the sizes.                                       *)
(***************************************************************************)
EXTENDS DaqRun

\* A negative value, values inside the event and a value past its end.
MC_Soi == {-1, 0, 1, 5}
\* Events without a sample on the board that is asked whether there is an event,
\* triggers of three L1As on the one whose register is narrow.
MC_LateSoiChoices ==
    [c \in Boards \X SampleChoices |->
        CASE c[1] = "fiberless" /\ c[2] \in {0, 2} -> MC_Soi
          [] c[1] = "bittware" /\ c[2] = 3 -> {1}
          [] OTHER -> {}]

\* Several samples per trigger only on the board that sends their L1As itself.
MC_TimelySoiChoices ==
    [c \in Boards \X SampleChoices |->
        IF c[1] = "bittware" \/ c[2] = 1 THEN MC_Soi ELSE {}]
=============================================================================
