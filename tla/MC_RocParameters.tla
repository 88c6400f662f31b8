-------------------------- MODULE MC_RocParameters --------------------------
(***************************************************************************)
(* Two pages of two registers of three bits.  The threshold of page A, like *)
(* the ten-bit thresholds of the chip, is split: one bit beside the gain,  *)
(* one in the next register.  The test word of page B fills an int, as     *)
(* SC_TESTRAM does, and its default has the top bit set.                   *)
(***************************************************************************)
EXTENDS RocParameters

At(reg, min, n) == [reg |-> reg, min |-> min, n |-> n]
Spec1(registers, def) == [registers |-> registers, def |-> def]

MC_lut ==
    [p \in {<<"A", "GAIN">>, <<"A", "THR">>, <<"B", "GAIN">>, <<"B", "RAM">>} |->
        CASE p = <<"A", "GAIN">> -> Spec1(<<At(1, 0, 1)>>, 0)
          [] p = <<"A", "THR">> -> Spec1(<<At(1, 2, 1), At(2, 1, 1)>>, 1)
          [] p = <<"B", "GAIN">> -> Spec1(<<At(3, 0, 1)>>, 0)
          [] OTHER -> Spec1(<<At(3, 1, 2), At(4, 0, 2)>>, 12)]

One(page, name, v) == [p \in {<<page, name>>} |-> v]
Node(pages, name, v) == [pages |-> pages, settings |-> [n \in {name} |-> v]]

\* A narrow scope, a split one, and the scope of a scan without scan-wide
\* parameters.
MC_ScopeChoices == {One("A", "GAIN", 1), One("A", "THR", 2), <<>>}

\* A setting, a value too large by one, a name that is not on the page.
MC_PokeChoices == {One("B", "RAM", 3), One("A", "THR", 4), One("A", "RAM", 0)}

\* A glob, whose setting is replaced for one page by a later node; a glob for a name that only one
\* of its pages has; a page that there is not; an
\* empty file.
MC_FileChoices ==
    {<<Node({"A", "B"}, "GAIN", 1), Node({"A"}, "GAIN", 0), Node({"B"}, "RAM", 3)>>,
     <<Node({"A", "B"}, "THR", 1)>>, <<Node({}, "GAIN", 1)>>, <<>>}

\* A byte for the first register.
MC_CsvChoices == {[r \in {1} |-> 5]}

\* All the bits are set, those of no parameter too.
MC_Initial == {[r \in Reg |-> 2^ByteBits - 1]}

\* None is: the values that a dump keeps, until the chip is reset to its defaults.
MC_Cleared == {[r \in Reg |-> 0]}

\* The theorem CompilerCorrect on this table, for every content of the registers.
ASSUME ExactAssumption == CompilerExact
=============================================================================
