--------------------------- MODULE RocParameters ----------------------------
(***************************************************************************)
(* The parameters of a HGCROC and the RAII scopes that change them for a   *)
(* while (src/pflib/ROC.cxx).  A parameter occupies bits of one or more    *)
(* registers and a register holds bits of several parameters, but only     *)
(* whole registers travel over I2C: applyParameters reads the registers it *)
(* touches, overlays the parameters and writes them back one by one, and a *)
(* TestParameters handle saves and restores whole registers too.           *)
(*                                                                         *)
(* A transaction may fail, before or after the chip took the byte; each    *)
(* register is tried max_tries times before I2CFail is thrown.  The        *)
(* exception unwinds the open scopes, whose destructors write to the same  *)
(* chip, up to the menu that catches it; an exception that leaves a        *)
(* destructor terminates the program.                                      *)
(***************************************************************************)
EXTENDS Compiler, FiniteSets

CONSTANTS
    ScopeChoices, \* parameter maps the tasks open scopes with
    PokeChoices,  \* settings a user or a task makes for good, one parameter each
    FileChoices,  \* files of settings
    CsvChoices,   \* files of register values
    Initial,      \* what the chip may hold when the session begins
    max_tries,    \* attempts per register
    MaxDepth      \* bound on the scopes open at a time

Byte == 0..(2^ByteBits - 1)

\* What all the registers, and what some of them may hold.
Chips == [Reg -> Byte]
Images == UNION {[S -> Byte] : S \in SUBSET Reg}

ASSUME InitialAssumption == Initial \subseteq Chips
ASSUME CsvAssumption == CsvChoices \subseteq Images
ASSUME ValueAssumption ==
    /\ \A ps \in ScopeChoices \cup PokeChoices : \A p \in DOMAIN ps : ps[p] \in Nat
    /\ \A file \in FileChoices :
          /\ Len(file) \in Nat /\ DOMAIN file = 1..Len(file)
          /\ \A i \in DOMAIN file : \A name \in DOMAIN file[i].settings : file[i].settings[name] \in Nat
ASSUME SizeAssumption ==
    max_tries \in Nat \ {0} /\ MaxDepth \in Nat

VARIABLES
    chip,     \* the registers of the chip
    handles,  \* the TestParameters objects alive, the innermost last
    pc,       \* "client", "write", "unwind" or "terminated"
    op,       \* the call setRegisters works for
    image,    \* the registers it writes
    todo,     \* the registers it has still to write
    tries,    \* i_try of setValue
    intended, \* history: the settings made outside or besides the scopes
    suspect   \* history: parameters a failed call may have left at any value

vars == <<chip, handles, pc, op, image, todo, tries, intended, suspect>>

Idle == [kind |-> "none", params |-> <<>>, saved |-> <<>>, suspect |-> {}]

TypeOK ==
    /\ chip \in Images /\ DOMAIN chip = Reg
    /\ \A i \in DOMAIN handles : /\ DOMAIN handles[i].params \subseteq Param
                                 /\ handles[i].saved \in Images
                                 /\ handles[i].suspect \subseteq Param
    /\ pc \in {"client", "write", "unwind", "terminated"}
    /\ op.kind \in {"none", "open", "apply", "load", "csv", "close", "unwind"}
    /\ image \in Images /\ todo \subseteq DOMAIN image
    /\ tries \in 0..(max_tries - 1)
    /\ DOMAIN intended = Param /\ \A p \in Param : Fits(p, intended[p])
    /\ suspect \subseteq Param

Init ==
    /\ chip \in Initial
    /\ handles = <<>>
    /\ pc = "client" /\ op = Idle
    /\ image = <<>> /\ todo = {} /\ tries = 0
    /\ intended = [p \in Param |-> Held(chip, p)]
    /\ suspect = {}
-----------------------------------------------------------------------------
\* getRegisters for the registers that compile(parameters) touches, all of them for
\* no parameter: an empty selection means "read the whole chip".
Selected(ps) == IF DOMAIN ps = {} THEN Reg ELSE UNION {Regs(p) : p \in DOMAIN ps}
GetRegisters(ps) == [r \in Selected(ps) |-> chip[r]]

\* Mutated form: the parameters are compiled onto nothing, not onto the chip.
OverlayOnZeros(ps) == CompileAll([r \in Selected(ps) |-> 0], ps)

\* applyParameters, step 3.
Overlay(ps) == CompileAll(GetRegisters(ps), ps)
-----------------------------------------------------------------------------
(***************************************************************************)
(* The calls of the tasks and of the menu.                                 *)
(***************************************************************************)

\* setRegisters(g) starts, for the call o.
StartWrite(o, g) ==
    /\ op' = o
    /\ image' = g
    /\ todo' = DOMAIN g
    /\ tries' = 0
    /\ pc' = "write"
    /\ UNCHANGED <<chip, handles, intended, suspect>>

\* An exception on its way from client code, which has changed nothing.
Throws ==
    /\ pc' = "unwind"
    /\ UNCHANGED <<chip, handles, op, image, todo, tries, intended, suspect>>

\* applyParameters up to its call of setRegisters. A page, a name or a value that the
\* compiler refuses is found out before the chip is read.
ApplyParameters(kind, ps) ==
    \/ /\ ~Accepted(ps)
       /\ Throws
    \/ /\ Accepted(ps)
       /\ StartWrite([kind |-> kind, params |-> ps, saved |-> GetRegisters(ps),
                      suspect |-> suspect],
                     Overlay(ps))

\* testParameters().add(...).apply()
OpenScope ==
    /\ pc = "client" /\ Len(handles) < MaxDepth
    /\ \E ps \in ScopeChoices : ApplyParameters("open", ps)

\* The tasks of the menus never set for good what an open scope has saved (set_toa does,
\* which no menu has).
Unsaved(ps) == \A i \in DOMAIN handles : Selected(ps) \cap DOMAIN handles[i].saved = {}

\* applyParameter(page, param, val), from a task or by ROC.POKE.
ApplyParameter ==
    /\ pc = "client"
    /\ \E ps \in PokeChoices :
          /\ Accepted(ps) => Unsaved(ps)
          /\ ApplyParameters("apply", ps)

\* loadParameters(file, false): the settings of the file on top of the chip.
LoadOverlay ==
    /\ pc = "client" /\ handles = <<>>
    /\ \E file \in FileChoices :
          IF Found(file) THEN ApplyParameters("apply", Extract(<<>>, file)) ELSE Throws

\* loadParameters(file, true): all the parameters, without a look at the chip.
LoadWithDefaults ==
    /\ pc = "client" /\ handles = <<>>
    /\ \E file \in FileChoices :
          LET ps == Extract(Defaults, file)
          IN  IF Found(file) /\ Accepted(ps)
              THEN StartWrite([Idle EXCEPT !.kind = "load", !.params = ps], CompileAll(<<>>, ps))
              ELSE Throws

\* loadRegisters: lines of a page, an offset and a value, in the order of the addresses.
LoadRegisters ==
    /\ pc = "client" /\ handles = <<>>
    /\ \E g \in CsvChoices : StartWrite([Idle EXCEPT !.kind = "csv", !.saved = g], g)

\* hardResetROCs: every parameter has its default.
HardReset ==
    /\ pc = "client" /\ handles = <<>>
    /\ chip' = CompileAll([r \in Reg |-> 0], Defaults)
    /\ intended' = Defaults
    /\ suspect' = {}
    /\ UNCHANGED <<handles, pc, op, image, todo, tries>>

\* The innermost handle is destroyed: its registers are written back.
Restore(kind) ==
    LET h == handles[Len(handles)]
    IN  StartWrite([h EXCEPT !.kind = kind], h.saved)

CloseScope == pc = "client" /\ handles # <<>> /\ Restore("close")

\* A read fails max_tries times, or the client throws for a reason of its own.
Throw == pc = "client" /\ Throws

UnwindScope == pc = "unwind" /\ handles # <<>> /\ Restore("unwind")

\* The menu line reports the exception and the session goes on.
Catch ==
    /\ pc = "unwind" /\ handles = <<>>
    /\ pc' = "client"
    /\ UNCHANGED <<chip, handles, op, image, todo, tries, intended, suspect>>
-----------------------------------------------------------------------------
(***************************************************************************)
(* setRegisters and setValue.                                              *)
(***************************************************************************)
NextReg == CHOOSE r \in todo : \A q \in todo : r <= q

\* An attempt in which all three bytes are acknowledged.
SetValue ==
    /\ pc = "write" /\ todo # {}
    /\ chip' = [chip EXCEPT ![NextReg] = image[NextReg]]
    /\ todo' = todo \ {NextReg}
    /\ tries' = 0
    /\ UNCHANGED <<handles, pc, op, image, intended, suspect>>

\* The failed attempt may have reached the register all the same.
MayTake == \E took \in BOOLEAN :
    chip' = IF took THEN [chip EXCEPT ![NextReg] = image[NextReg]] ELSE chip

\* A failed attempt that is not the last.
Retry ==
    /\ pc = "write" /\ todo # {} /\ tries + 1 < max_tries
    /\ MayTake
    /\ tries' = tries + 1
    /\ UNCHANGED <<handles, pc, op, image, todo, intended, suspect>>

\* The parameters with bits in some registers.
Within(g) == {p \in Param : Regs(p) \cap DOMAIN g # {}}

InDestructor == op.kind \in {"close", "unwind"}

\* The call ends with an exception, which must not leave a destructor.
Abandon ==
    /\ pc' = IF InDestructor THEN "terminated" ELSE "unwind"
    /\ suspect' = suspect \cup
          (CASE InDestructor -> UNION {DOMAIN handles[i].params : i \in DOMAIN handles}
             [] op.kind = "load" -> Param
             [] op.kind = "csv" -> Within(op.saved)
             [] OTHER -> DOMAIN op.params)
    /\ op' = Idle /\ image' = <<>> /\ todo' = {} /\ tries' = 0
    /\ UNCHANGED <<handles, intended>>

\* Mutated form: after the last attempt the count starts again.
GiveUpNever ==
    /\ pc = "write" /\ todo # {} /\ tries + 1 = max_tries
    /\ MayTake
    /\ tries' = 0
    /\ UNCHANGED <<handles, pc, op, image, todo, intended, suspect>>

\* The last attempt fails: I2CFail.
GiveUp ==
    /\ pc = "write" /\ todo # {} /\ tries + 1 = max_tries
    /\ MayTake
    /\ Abandon

\* A line of a file of registers that is not a number throws; the lines before it
\* have been written.
BadLine ==
    /\ pc = "write" /\ op.kind = "csv" /\ todo # {}
    /\ Abandon
    /\ UNCHANGED chip

\* setRegisters returns to the call it worked for.
Written(kinds) ==
    /\ pc = "write" /\ todo = {} /\ op.kind \in kinds
    /\ pc' = IF op.kind = "unwind" THEN "unwind" ELSE "client"
    /\ op' = Idle /\ image' = <<>> /\ tries' = 0
    /\ UNCHANGED <<chip, todo>>

ScopeOpened ==
    /\ Written({"open"})
    /\ handles' = Append(handles, op)
    /\ UNCHANGED <<intended, suspect>>

ParameterApplied ==
    /\ Written({"apply"})
    /\ intended' = [p \in Param |-> IF p \in DOMAIN op.params THEN op.params[p] ELSE intended[p]]
    /\ suspect' = suspect \ DOMAIN op.params
    /\ UNCHANGED handles

ParametersLoaded ==
    /\ Written({"load"})
    /\ intended' = op.params
    /\ suspect' = {}
    /\ UNCHANGED handles

RegistersLoaded ==
    /\ Written({"csv"})
    /\ intended' = [p \in Param |-> IF p \in Within(op.saved) THEN Held(chip, p) ELSE intended[p]]
    /\ suspect' = {p \in suspect : ~(Regs(p) \subseteq DOMAIN op.saved)}
    /\ UNCHANGED handles

\* What the handle saved whole is again what it was when the scope was opened.
ScopeClosed ==
    /\ Written({"close", "unwind"})
    /\ handles' = SubSeq(handles, 1, Len(handles) - 1)
    /\ suspect' = {p \in suspect : Regs(p) \subseteq DOMAIN op.saved => p \in op.suspect}
    /\ UNCHANGED intended

\* A new session finds the chip as the terminated one left it.
Restart ==
    /\ pc = "terminated"
    /\ pc' = "client" /\ handles' = <<>>
    /\ UNCHANGED <<chip, op, image, todo, tries, intended, suspect>>
-----------------------------------------------------------------------------
Client == \/ OpenScope \/ ApplyParameter \/ LoadOverlay \/ LoadWithDefaults
          \/ LoadRegisters \/ HardReset \/ CloseScope \/ Throw

\* What goes on by itself once a call is made or an exception thrown.
Run == \/ SetValue \/ Retry \/ GiveUp \/ BadLine
       \/ ScopeOpened \/ ParameterApplied \/ ParametersLoaded
       \/ RegistersLoaded \/ ScopeClosed
       \/ UnwindScope \/ Catch

Next == Client \/ Run \/ Restart

Spec == Init /\ [][Next]_vars
FairSpec == Spec /\ WF_vars(Run)
-----------------------------------------------------------------------------
(***************************************************************************)
(* What the calls rely on in the compiler: it is exact on its table and on *)
(* the settings it is given.  A fact about the constants.                  *)
(***************************************************************************)

\* What a parameter holds is the bits of its locations, and the other way round.
HeldByFields ==
    \A p \in Param :
        LET both == {<<Fields(g, p), Held(g, p)>> : g \in Chips}
        IN  Regs(p) # {} /\ \A x, y \in both : x[1] = y[1] <=> x[2] = y[2]

\* The settings applyParameters is given.
Settings == ScopeChoices \cup PokeChoices \cup {Extract(<<>>, file) : file \in FileChoices}

\* The registers g with those of an image put over them.
Over(g, new) == [r \in Reg |-> IF r \in DOMAIN new THEN new[r] ELSE g[r]]

\* Settings that are compiled onto the registers they touch have their value then, and
\* the bits of the other parameters are what they were.
OverlayExact ==
    \A g \in Chips, ps \in Settings :
        LET new == CompileAll([r \in Selected(ps) |-> g[r]], ps)
        IN  Accepted(ps) =>
                /\ new \in [Selected(ps) -> Byte]
                /\ \A p \in DOMAIN ps : Held(Over(g, new), p) = ps[p]
                /\ \A p \in Param \ DOMAIN ps : Fields(Over(g, new), p) = Fields(g, p)

\* So are all the parameters that are compiled onto nothing, or onto zeros.
Compiled(g, ps) == g \in Chips /\ DOMAIN ps = Param /\ \A p \in Param : Held(g, p) = ps[p]
LoadExact ==
    /\ \A file \in FileChoices :
          LET ps == Extract(Defaults, file)
          IN  Found(file) /\ Accepted(ps) => Compiled(CompileAll(<<>>, ps), ps)
    /\ Compiled(CompileAll([r \in Reg |-> 0], Defaults), Defaults)

CompilerExact == HeldByFields /\ OverlayExact /\ LoadExact
-----------------------------------------------------------------------------
(***************************************************************************)
(* Properties.                                                             *)
(***************************************************************************)

\* What a parameter should be now: what the innermost scope that names it says,
\* and the last permanent setting where no scope does.
Naming(p) == {i \in DOMAIN handles : p \in DOMAIN handles[i].params}
Effective(p) ==
    IF Naming(p) = {} THEN intended[p]
    ELSE handles[CHOOSE i \in Naming(p) : \A j \in Naming(p) : j <= i].params[p]

\* View: whenever client code runs, the bits of every parameter, in all the
\* registers it is spread over, hold the effective setting: opening and closing
\* scopes, settings for good, loads, refused values and names, retries, exceptions,
\* unwinding and termination change nothing but what they name, and leave at any other
\* value only the parameters of the call that failed (or, when a destructor
\* failed, those of the scopes that were open).
View ==
    pc \in {"client", "unwind", "terminated"} =>
        \A p \in Param \ suspect : Held(chip, p) = Effective(p)

\* A value with the bit of 2^31 is not kept by a dump: it is gathered as an int and
\* widened with its sign.
SmallValues == {p \in Param : Held(chip, p) < 2^(IntBits - 1)}

\* Reloads: ROC.DUMP writes every value below 2^31 as the chip holds it, whatever the
\* other parameters hold, and what it writes of a chip that has only such values is
\* accepted by ROC.LOAD later and gives every parameter back, whatever the chip holds then.
Reloads ==
    pc = "client" /\ handles = <<>> =>
        LET file == DecompileAll(chip)
        IN  /\ \A p \in SmallValues : file[p] = Held(chip, p)
            /\ SmallValues = Param =>
                  /\ Accepted(file)
                  /\ \A before \in {Defaults, intended} : \A p \in Param :
                        Held(CompileAll(CompileAll(<<>>, before), file), p) = Held(chip, p)

\* DumpsLoad: what expert.cxx:154 tells the user before it resets the chips, that
\* ROC.DUMP writes the settings they have now to a file for later loading: whatever the
\* settings are, ROC.LOAD accepts what ROC.DUMP writes. The code does not keep it.
DumpsLoad == pc = "client" /\ handles = <<>> => Accepted(DecompileAll(chip))

\* CallEnds: a call comes back, an exception reaches the menu, or the program
\* terminates, whichever transactions fail.
CallEnds == []<>(pc \in {"client", "terminated"})
=============================================================================
