-------------------------- MODULE MC_EventFraming --------------------------
(***************************************************************************)
(* The set-ups of EventFraming that TLC goes through.                      *)
(***************************************************************************)
EXTENDS EventFraming

W(tc, tp, tm1, main, toa) == [tc |-> tc, tp |-> tp, tm1 |-> tm1, main |-> main, toa |-> toa]

\* Every class of sample: all there, no TOA, TOT under way, strange flags, TOT,
\* no sample before, nothing at all.
MC_Words == {W(FALSE, FALSE, 1, 2, 3), W(FALSE, FALSE, 1, 2, 0), W(FALSE, TRUE, 1, 2, 3), W(TRUE, FALSE, 1, 2, 3),
             W(TRUE, TRUE, 1, 2, 3), W(FALSE, FALSE, 0, 2, 3), W(FALSE, FALSE, 0, 2, 0), W(FALSE, FALSE, 1, 0, 3)}
MC_Patterns == [Places -> MC_Words]
\* One link with channels of three, three, three and four bytes, one of each class in turn.
MC_Plain == [p \in Places |-> CASE p = 0 -> W(FALSE, FALSE, 1, 2, 0) [] p = 1 -> W(FALSE, TRUE, 1, 2, 3)
                                [] p = 2 -> W(FALSE, FALSE, 4, 5, 0) [] OTHER -> W(TRUE, TRUE, 1, 2, 3)]

S(source, format, path, samples, soi, mode, gaps, lead, kill, limit, ws) ==
    [source |-> source, format |-> format, path |-> path, samples |-> samples, soi |-> soi, mode |-> mode,
     gaps |-> gaps, lead |-> lead, kill |-> kill, limit |-> limit, ws |-> ws, unset |-> {}]
\* What the memory of a check holds that is never made.
Uninitialised(setups) == {[s EXCEPT !.unset = u] : s \in setups, u \in SUBSET {3}}
Good == [l \in 1..NLinks |-> "F"]
Leads == [1..NLinks -> {"F", "5", "bad"}]

\* Files of the fiberless board in the format of the ECON-D.
MC_BoardFiles ==
    {S("board", "ECOND", "file", 2, soi, "zs", {}, lead, TRUE, limit, MC_Plain) :
        soi \in 0..1, lead \in {Good, [l \in 1..NLinks |-> IF l = 1 THEN "bad" ELSE "F"]}, limit \in {0, 2}}

MC_Setups ==
    \* Packing: every pattern of four channels, decoded in memory.
    {S(src, "ECOND", "memory", 1, 0, "zs", {}, Good, FALSE, 0, ws) : src \in {"board", "econ"}, ws \in MC_Patterns}
    \* Links that are not aligned.
    \union {S("board", f, "memory", 2, 1, "zs", {}, lead, FALSE, 0, MC_Plain) : f \in {"ECOND", "SIMPLEROC"}, lead \in Leads}
    \* What the ECON-D and the capture blocks may do.
    \union {S("econ", "ECOND", path, 3, soi, mode, gaps, Good, FALSE, 0, MC_Plain) :
              path \in {"memory", "rogue", "file"}, soi \in 0..2, mode \in {"zs", "pass"}, gaps \in SUBSET (0..2)}
    \union Uninitialised({S("econ", "ECOND", path, 3, soi, "cut", gaps, Good, FALSE, 0, MC_Plain) :
              path \in {"memory", "rogue", "file"}, soi \in 0..2, gaps \in SUBSET (0..2)})
    \* Files: killed anywhere, appended to, decoded whole or up to a limit.
    \union {S("econ", "ECOND", "file", 2, soi, "zs", {}, Good, TRUE, limit, MC_Plain) : soi \in 0..1, limit \in {0, 2}}
    \union Uninitialised({S("econ", "ECOND", "file", 2, soi, "cut", {}, Good, TRUE, limit, MC_Plain) :
              soi \in 0..1, limit \in {0, 2}})
    \union MC_BoardFiles
    \union {S("board", "SIMPLEROC", "file", 1, 0, "zs", {}, lead, TRUE, limit, MC_Plain) :
              lead \in Leads, limit \in {0, 2}}
=============================================================================
