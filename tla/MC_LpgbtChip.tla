---------------------------- MODULE MC_LpgbtChip ----------------------------
(* The services of a lpGBT on two pins, a low one and the one wired elsewhere, *)
(* and boards with every single fault of a line and some joined pairs.         *)
EXTENDS LpgbtBench

CfgValue == {{"output", "up"}, {"strong", "down"}}
LoadsValue == {<<<<5, {1}>>, <<6, {2}>>, <<7, {3}>>, <<9, {4}>>, <<5, {0}>>>>, <<<<9, {}>>, <<6, {7}>>>>}
TablesValue == {<<<<5, Byte, {2}>>, <<6, {2, 3}, {3}>>, <<6, {7}, {7}>>>>,
                <<<<9, {4}, {}>>, <<0, Byte, {}>>, <<5, Byte, Byte>>>>}
BoardsValue ==
    {Good}
    \cup [kind : {"low", "high"}, dirs : {{"out"}, {"in"}, {"out", "in"}}, pins : {{p} : p \in Pins12}]
    \cup [kind : {"and", "or"}, dirs : {{"out", "in"}}, pins : {{p, (p + d) % 12} : p \in Pins12, d \in 1..2}]
=============================================================================
