------------------------------- MODULE ELinks -------------------------------
(***************************************************************************)
(* The electrical links of a target (Elinks.cxx, HGCROCBoardFiberless.cxx): *)
(* alignment by scanning, and the width of the capture of each, which the  *)
(* object also keeps to know how many words to read.                       *)
(***************************************************************************)
EXTENDS Integers, Sequences, FiniteSets, FiniteSetsExt

CONSTANTS
    Link,      \* links of the front-end
    Step,      \* distance of the phases tried: 5 in the code
    Top,       \* limit of the phases: 255
    MaxSlip,   \* last bitslip: 31
    WidthMax   \* widths the register can hold: 64

\* The widths the captures may be found at fit their registers, and so do the
\* phases; the phases tried have others between them.
ASSUME WidthAssumption == WidthMax \in Nat /\ WidthMax > 4
ASSUME SlipAssumption == MaxSlip \in Nat
ASSUME PhaseAssumption == Step \in Nat /\ Step > 1 /\ Top \in 1..511

VARIABLES
    phase,   \* phase of each link, as the register has it
    slip,    \* bitslip of each link
    eye,     \* what the last scan of each link met: the phases without mismatch
    lock,    \* ... and the first bitslip that shows the pattern, or -1
    width,   \* width of the capture of each link, as the register has it
    cache    \* l1a_capture_width_: empty until first needed

linkvars == <<phase, slip, eye, lock, width, cache>>

LinkInit ==
    /\ phase = [l \in Link |-> 0]
    /\ slip = [l \in Link |-> 0]
    /\ eye = [l \in Link |-> {}]
    /\ lock = [l \in Link |-> -1]
    /\ width \in [Link -> {1, 4}]
    /\ cache = <<>>
-----------------------------------------------------------------------------
(***************************************************************************)
(* scanAlign: the windows without mismatch, and the middle of the widest.  *)
(***************************************************************************)
\* The phases that are tried.
Phases == {i \in 0..(Top - 1) : i % Step = 0}

\* A window begins at a phase without mismatch after one with mismatches, or at
\* the first, and goes as far as the next mismatch, or to the limit.
Starts(good) == {a \in good : a - Step \notin good}
Edge(a, good) == Min({i - 1 : i \in {i \in Phases \ good : i > a}} \cup {Top})

\* Variant for a mutation: a window that is still open at the end is forgotten.
WindowsClosedOnly(good) == {<<a, Edge(a, good)>> : a \in {a \in Starts(good) : Edge(a, good) < Top}}

Windows(good) == {<<a, Edge(a, good)>> : a \in Starts(good)}

Size(w) == w[2] - w[1]

\* The first of the widest windows decides; -1 without a window.
Widest(good) == {w \in Windows(good) : \A v \in Windows(good) : Size(v) <= Size(w)}
Best(good) == CHOOSE w \in Widest(good) : \A v \in Widest(good) : w[1] <= v[1]
ScanAlign(good) == IF Windows(good) = {} THEN -1 ELSE (Best(good)[1] + Best(good)[2]) \div 2

\* The phase has nine bits in its register.
SetAlignPhase(l, p) == phase' = [phase EXCEPT ![l] = p % 512]
SetBitslip(l, s) == slip' = [slip EXCEPT ![l] = s % (MaxSlip + 1)]

\* scanAlign and setAlignPhase of one link, whatever it meets.
AlignPhase(l) == \E good \in SUBSET Phases :
    /\ eye' = [eye EXCEPT ![l] = good]
    /\ SetAlignPhase(l, ScanAlign(good))
    /\ UNCHANGED <<slip, lock, width, cache>>

\* scanAlign alone stays at the last phase it tried.
ScanPhase(l) ==
    /\ SetAlignPhase(l, Max(Phases))
    /\ UNCHANGED <<slip, eye, lock, width, cache>>

\* scanBitslip tries one bitslip after the other, and stays at the last if none
\* shows the pattern.
AlignSlip(l) == \E s \in -1..MaxSlip :
    /\ lock' = [lock EXCEPT ![l] = s]
    /\ SetBitslip(l, IF s < 0 THEN MaxSlip ELSE s)
    /\ UNCHANGED <<phase, eye, width, cache>>
-----------------------------------------------------------------------------
(***************************************************************************)
(* The capture of the fiberless target.                                    *)
(***************************************************************************)
\* The widths are read from the registers when first needed.
Filled == IF cache = <<>> THEN width ELSE cache

\* Variant for a mutation: only the register is set once the widths are known.
SetupLinkRegister(l, w) ==
    /\ cache' = Filled
    /\ width' = [width EXCEPT ![l] = w % WidthMax]
    /\ UNCHANGED <<phase, slip, eye, lock>>

SetupLink(l, w) ==
    /\ cache' = [Filled EXCEPT ![l] = w]
    /\ width' = [width EXCEPT ![l] = w % WidthMax]
    /\ UNCHANGED <<phase, slip, eye, lock>>

GetLinkData ==
    /\ cache' = Filled
    /\ UNCHANGED <<phase, slip, eye, lock, width>>
=============================================================================
