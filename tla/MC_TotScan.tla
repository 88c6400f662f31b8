----------------------------- MODULE MC_TotScan -----------------------------
(***************************************************************************)
(* Responses for TotScan: the crossing below, inside and above the range   *)
(* of TOT_VREF, abrupt or over a value or two, for each of four channels,  *)
(* three of them on one link.                                              *)
(***************************************************************************)
EXTENDS TotScan

MC_Curves ==
    {<<a, a, a>> : a \in {0, 1, 4, 8}} \cup {<<a, a + 1, a + 2>> : a \in {-2, 0, 3, 5, 7}}
=============================================================================
