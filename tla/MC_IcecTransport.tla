-------------------------- MODULE MC_IcecTransport --------------------------
(***************************************************************************)
(* Calls for IcecTransport: reads of one register, of a frame and of more  *)
(* than a frame, and writes of one register and of a whole frame; frames   *)
(* of two registers.                                                       *)
(***************************************************************************)
EXTENDS IcecTransport

MC_Reads == {<<0, 1>>, <<1, 2>>, <<0, 3>>}
MC_Writes == {<<1, <<1>>>>, <<0, <<1, 0>>>>}

\* A write of more than a frame.
MC_LongWrite == {<<0, <<1, 0, 1>>>>}
MC_None == {}
=============================================================================
