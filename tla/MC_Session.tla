---------------------------- MODULE MC_Session ----------------------------
(* Scripts that go through every menu, each for the targets it matters to,    *)
(* and single lines an operator may add.  Where a word is blank its writer     *)
(* wants the default.                                                          *)
EXTENDS Session

Req(t) == [text |-> t, for |-> "request"]
Reqs(ts) == [i \in DOMAIN ts |-> Req(ts[i])]
To(p, t) == <<[text |-> t, for |-> p]>>

Comment == <<[text |-> "#", for |-> "nothing"]>>

Clearing == Reqs(<<"EXPERT", "FAST_CONTROL", "ORBIT_BLINKER">>) \o To("blinker", "Y") \o To("bx", "")
            \o Reqs(<<"SW_L1A", "RUN_CLEAR", "BUFFER_CLEAR">>)
Counting == Reqs(<<"EXPERT", "FAST_CONTROL", "COUNTER_RESET", "LINK_RESET", "STATUS", "CALIB">>)
            \o To("offset", "") \o Reqs(<<"EXIT", "EXIT", "DAQ", "DEBUG", "CHARGE_L1A", "CLEAR", "ADV", "EXIT">>)
Logging == Reqs(<<"LOG">>) \o To("level", "") \o To("log_channel", "") \o Reqs(<<"PWD", "NONE", "EXPERT", "FAST_CONTROL", "LED">>)
           \o To("offset", "text")
Aligning == Reqs(<<"EXPERT", "ELINKS", "AUTO">>) \o To("proceed", "Y")
Realigning == Aligning \o Reqs(<<"EXIT", "EXIT", "DAQ", "SETUP", "STANDARD", "EXIT", "EXIT", "EXIT">>)
Linking == Reqs(<<"EXPERT", "ELINKS", "DELAY">>) \o To("elink", "1") \o To("phase", "4")
           \o Reqs(<<"BITSLIP">>) \o To("elink", "-1") \o To("bitslip", "1") \o Reqs(<<"HARD_RESET", "SCAN">>) \o To("elink", "0")
Buses == Reqs(<<"EXPERT", "I2C", "READ", "BUS">>) \o To("bus", "B") \o Reqs(<<"WRITE">>) \o To("address", "1") \o To("value", "")
         \o Reqs(<<"MULTIWRITE">>) \o To("address", "1") \o To("addrlen", "1") \o To("value", "4") \o To("length", "2")
         \o To("value", "1") \o To("value", "") \o Reqs(<<"MULTIREAD">>) \o To("address", "1") \o To("addrlen", "0") \o To("length", "")
Running == Reqs(<<"DAQ", "SETUP", "STANDARD", "EXIT", "CHARGE">>) \o To("run", "") \o To("events", "1") \o To("rate", "")
           \o To("filename", "") \o To("decode", "N") \o Reqs(<<"LINK_ECON", "RESET">>)
Enabling == Reqs(<<"DAQ", "SETUP", "ENABLE">>) \o To("external", "Y") \o To("axis", "N") \o Reqs(<<"EXIT", "PEDESTAL">>)
            \o To("run", "") \o To("events", "1") \o To("rate", "") \o To("filename", "") \o To("decode", "")
            \o Reqs(<<"SETUP", "ENABLE">>)
Widths == Reqs(<<"DAQ", "SETUP", "L1APARAMS">>) \o To("link", "-1") \o Reqs(<<"L1APARAMS">>) \o To("link", "1")
          \o To("l1a_delay", "1") \o To("capture", "65") \o Reqs(<<"EXIT", "DEBUG", "ESPY">>) \o To("link", "0")
Formats == Reqs(<<"DAQ", "SETUP", "FORMAT">>)
Optics == Reqs(<<"OPTO", "POLARITY">>) \o To("olink", "DAQ") \o To("tx", "Y") \o To("rx", "Y") \o Reqs(<<"RESET", "CHOOSE">>) \o To("olink", "")
Biases == Reqs(<<"BIAS", "SET_SIPM">>) \o To("board_no", "0") \o To("channel_no", "-1") \o To("dac", "1")
          \o Reqs(<<"READ_SIPM">>) \o To("board_no", "1") \o To("channel_no", "")

ScriptsValue ==
    (Board \X {Clearing, Enabling, Running})
    \cup ((Board \ {"fiberless"}) \X {Aligning})
    \cup ({"fiberless", "bittware"} \X {Counting, Linking, Optics})
    \cup ({"fiberless", "smm"} \X {Logging, Buses, Widths, Biases})
    \cup {<<"fiberless", Formats \o To("format", "2") \o Reqs(<<"EXIT", "PEDESTAL">>) \o To("run", "")
            \o To("events", "") \o To("rate", "") \o To("filename", "") \o To("decode", "") \o Reqs(<<"EXIT">>)>>,
          <<"fiberless", Realigning>>, <<"fiberless", Comment \o Formats \o Comment \o To("format", "4") \o Reqs(<<"HELP">>)>>, <<"zcu", Formats>>}

NumbersValue == {-1, 0, 1, 2, 4, 16, 20, 65}
TypedValue == {Reqs(<<"EXIT", "EXIT">>), Reqs(<<"EXIT">>), Reqs(<<"">>), To("decode", "")}

\* What is found at the start varies where the script depends on it.
MCInit ==
    /\ Init
    /\ front.count = 1 /\ front.number = 0
    /\ fc.l1a \/ queue \in {Clearing, Enabling, Running, Realigning}
    /\ ~fc.l1a \/ queue # Realigning
    /\ ~fc.blinker \/ queue \in {Counting, Running}
    /\ ~st.on \/ queue = Enabling
    /\ running = [r \in Roc |-> r = 0] \/ queue \in {Aligning, Realigning}
    /\ width = [l \in Link |-> 1] \/ queue = Widths
MCSpec == MCInit /\ [][Next]_svars
=============================================================================
