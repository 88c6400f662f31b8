------------------------------ MODULE Compiler -------------------------------
(***************************************************************************)
(* The compiler between parameters and registers (src/pflib/Compile.cxx).  *)
(* A parameter is a number whose bits lie, from the lowest up, in the      *)
(* locations its table lists: n bits of register reg from bit min on.      *)
(* Registers are bytes; a register map is a function from some addresses   *)
(* to bytes.  A parameter is a pair of a page and a name.                  *)
(***************************************************************************)
EXTENDS Integers, SequencesExt

CONSTANTS
    parameter_lut, \* parameter -> its registers, a sequence of locations, and its default
    ByteBits,      \* width of a register: 8 in the code
    IntBits,       \* width of int: 32 in the code
    LongBits       \* width of uint64_t: 64 in the code

Param == DOMAIN parameter_lut
Locations(p) == parameter_lut[p].registers
Regs(p) == {Locations(p)[i].reg : i \in DOMAIN Locations(p)}
Reg == UNION {Regs(p) : p \in Param}

Bits(l) == l.min .. (l.min + l.n - 1)

\* Locations are inside a register, and no bit belongs to two of them.
ASSUME LocationAssumption ==
    /\ \A p \in Param : \A i \in DOMAIN Locations(p) :
          Bits(Locations(p)[i]) \subseteq 0..(ByteBits - 1)
    /\ \A p, q \in Param : \A i \in DOMAIN Locations(p), j \in DOMAIN Locations(q) :
          (p # q \/ i # j) /\ Locations(p)[i].reg = Locations(q)[j].reg =>
              Bits(Locations(p)[i]) \cap Bits(Locations(q)[j]) = {}
ASSUME WidthAssumption ==
    /\ ByteBits \in Nat /\ IntBits \in Nat /\ LongBits \in Nat
    /\ ByteBits < IntBits /\ IntBits < LongBits

\* Every parameter has a location, and every location a bit (register_maps_types.h).
ASSUME TableAssumption ==
    /\ IsFiniteSet(Param)
    /\ \A p \in Param : /\ Locations(p) \in Seq([reg : Nat, min : Nat, n : Nat \ {0}])
                        /\ Locations(p) # <<>>

\* What the provers do not know of powers.
ASSUME PowerAssumption == \A n \in 0..LongBits : 2^(n + 1) = 2 * 2^n

\* value_curr_min_bit at each location of a parameter; behind the last, total_nbits.
MinBits ==
    [p \in Param |-> [i \in 1..(Len(Locations(p)) + 1) |->
        FoldLeft(LAMBDA sum, l : sum + l.n, 0, SubSeq(Locations(p), 1, i - 1))]]
MinBit(p, i) == MinBits[p][i]
Total(p) == MinBit(p, Len(Locations(p)) + 1)

\* msb(v) < total_nbits; a parameter without bits takes no value at all.
Fits(p, v) == Total(p) > 0 /\ v < 2^Total(p)

\* A parameter is a uint64_t, and its default fits its bits.
ASSUME DefaultAssumption ==
    \A p \in Param : /\ Total(p) <= LongBits
                    /\ parameter_lut[p].def \in Nat /\ Fits(p, parameter_lut[p].def)

\* The bits of a location in a byte.
Field(byte, l) == (byte \div 2^l.min) % 2^l.n

\* One turn of the loop of compile: the old bits are cleared, the new ones added; a
\* register that has not been touched before starts from zero.
Put(regs, l, sub_val) ==
    LET old == IF l.reg \in DOMAIN regs THEN regs[l.reg] ELSE 0
    IN  [r \in DOMAIN regs \cup {l.reg} |->
            IF r = l.reg THEN old - Field(old, l) * 2^l.min + sub_val * 2^l.min ELSE regs[r]]

\* compile(page, param, val, register_values)
Compile(regs, p, v) ==
    FoldLeftDomain(LAMBDA g, i :
                      LET l == Locations(p)[i] IN Put(g, l, (v \div 2^MinBit(p, i)) % 2^l.n),
                   regs, Locations(p))

\* compile(settings), or the loop of applyParameters on top of registers that were read.
CompileAll(regs, ps) == FoldSet(LAMBDA p, g : Compile(g, p, ps[p]), regs, DOMAIN ps)

\* No NotFound and no ValOver.
Accepted(ps) == \A p \in DOMAIN ps : p \in Param /\ Fits(p, ps[p])

\* What the bits of a parameter stand for.
Held(regs, p) ==
    FoldLeftDomain(LAMBDA sum, i :
                      LET l == Locations(p)[i] IN sum + Field(regs[l.reg], l) * 2^MinBit(p, i),
                   0, Locations(p))

\* The same, location by location.
Fields(regs, p) ==
    [i \in DOMAIN Locations(p) |-> Field(regs[Locations(p)[i].reg], Locations(p)[i])]

\* sub_val << value_curr_min_bit: a byte is promoted to int, which is widened with
\* its sign when it is added to pval. Both kinds of processor take the number of places
\* modulo the width of int.
Shifted(sub_val, places) ==
    LET int == (sub_val * 2^(places % IntBits)) % 2^IntBits
    IN  IF int < 2^(IntBits - 1) THEN int ELSE int + 2^LongBits - 2^IntBits

\* Mutated form: the place is moved before the bits are put there.
DecompileAhead(regs, p) ==
    FoldLeftDomain(LAMBDA pval, i :
                      LET l == Locations(p)[i]
                      IN  (pval + Shifted(Field(regs[l.reg], l), MinBit(p, i + 1))) % 2^LongBits,
                   0, Locations(p))

\* decompile of one parameter whose registers were all read.
Decompile(regs, p) ==
    FoldLeftDomain(LAMBDA pval, i :
                      LET l == Locations(p)[i]
                      IN  (pval + Shifted(Field(regs[l.reg], l), MinBit(p, i))) % 2^LongBits,
                   0, Locations(p))

\* decompile while being careful, and getParameters page by page.
DecompileAll(regs) == [p \in {q \in Param : Regs(q) \subseteq DOMAIN regs} |-> Decompile(regs, p)]

Defaults == [p \in Param |-> parameter_lut[p].def]

(***************************************************************************)
(* A file is a sequence of nodes.  A node has a page, or the pages that a  *)
(* glob matches, and the settings for each of these pages; what comes      *)
(* later replaces what came before.                                        *)
(***************************************************************************)
Found(file) == \A i \in DOMAIN file : file[i].pages # {}

Extract(settings, file) ==
    FoldLeft(LAMBDA ps, node :
                LET named == node.pages \X DOMAIN node.settings
                IN  [p \in DOMAIN ps \cup named |->
                        IF p \in named THEN node.settings[p[2]] ELSE ps[p]],
             settings, file)
=============================================================================
