---------------------------- MODULE MC_Transfers ----------------------------
(***************************************************************************)
(* The two ways over the registers of a lpGBT by which the tool reaches a  *)
(* chip: its IC/EC port (IcecTransport), and its I2C masters with an ECON  *)
(* behind them (EconI2c).  A behaviour is about one of them and leaves the *)
(* other alone.                                                            *)
(***************************************************************************)
EXTENDS MC_EconI2c, MC_IcecTransport

VARIABLE port \* "icec" or "i2c": the one used

transfersVars == <<port, econVars, vars>>

TransfersInit ==
    /\ port \in {"icec", "i2c"} /\ EconInit /\ Init
    /\ port = "icec" => status = "none"
    /\ port = "i2c" => mem = [a \in Address |-> 0]

TransfersNext ==
    \/ port = "i2c" /\ EconNext /\ UNCHANGED <<port, vars>>
    \/ port = "icec" /\ Next /\ UNCHANGED <<port, econVars>>

\* The program of either side runs on, and an I2C master ends what it has launched.
Programs ==
    \/ port = "i2c" /\ EconProgram /\ UNCHANGED <<port, vars>>
    \/ port = "icec" /\ Program /\ UNCHANGED <<port, econVars>>

TransfersSpec ==
    /\ TransfersInit /\ [][TransfersNext]_transfersVars
    /\ WF_transfersVars(Programs) /\ WF_econVars(Master)
=============================================================================
