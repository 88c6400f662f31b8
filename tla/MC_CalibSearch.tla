--------------------------- MODULE MC_CalibSearch ---------------------------
(***************************************************************************)
(* The chips searched.  vt50_scan: the real range of CALIB, every crossing *)
(* for the binary search, many of them with a count that a threshold       *)
(* before has left, every crossing for the bisectional one, some of them   *)
(* with no value near, and noise on a chip whose readings mean nothing and *)
(* are never near.  get_calibs: responses that contain, jump over or never *)
(* reach the target, near and far from the value the search starts at.     *)
(***************************************************************************)
EXTENDS CalibSearch

Chip(s, a, b, noise, c) == [search |-> s, near |-> a, high |-> b, noise |-> noise, before |-> c]

Sampled == {v \in 0..(Top + 1) : v < 64 \/ v % 31 = 0}

\* On a chip that fires at no charge the second value of the binary search is past
\* the greatest one and the scan is abandoned, unless the count is not 2.
MC_Cases ==
    {Chip("binary", t, t, {}, 2) : t \in 0..(Top + 1)}
    \cup {Chip("binary", t, t, {}, c) : t \in Sampled, c \in {3, 27}}
    \cup {Chip("bisectional", t, IF t + 3 > Top THEN Top + 1 ELSE t + 3, {}, 2) : t \in 0..(Top + 1)}
    \cup {Chip("bisectional", t, t, {}, 2) : t \in Sampled}
    \cup {Chip(s, 0, 0, {"low", "high"}, 2) : s \in {"bisectional", "binary"}}
    \cup {Chip("get_calibs", t, t + w, {}, 2)
            : t \in {0, 1, 49, 50, 730, 951, 1000, 1001, 1200}, w \in {0, 1, 5}}
    \cup {Chip("get_calibs", Top + 1, Top + 1, {}, 2)}
=============================================================================
