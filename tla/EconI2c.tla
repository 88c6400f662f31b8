------------------------------ MODULE EconI2c -------------------------------
(***************************************************************************)
(* The parameters of an ECON (src/pflib/ECON.cxx), read and written over   *)
(* an I2C master of a lpGBT (lpgbt/I2C.cxx, lpGBT.cxx).  Parameters share  *)
(* blocks of adjacent addresses; applyParameters reads the blocks it       *)
(* touches, overlays the parameters and writes the result back, all        *)
(* adjacent addresses in one transfer.                                     *)
(*                                                                         *)
(* general_write_read is two transfers, each launched and then awaited by  *)
(* polling the status of the master.  The status has no tag: it stays as   *)
(* the transfer before left it until the next one is launched, and a       *)
(* transfer of more bytes than the master holds is never launched.         *)
(***************************************************************************)
EXTENDS Integers, Sequences, FiniteSets

CONSTANTS
    Param,      \* parameters
    Layout,     \* the addresses of the block each parameter is in
    Value,      \* what a parameter may hold
    Default,    \* the default setting of every parameter
    Settings,   \* parameter maps the callers apply, load or read
    Limit,      \* bytes of a transfer: 16 in the code
    AddrBytes   \* bytes of the address in front of the values: 2 in the code

Reg == UNION {Layout[p] : p \in Param}
Blocks == {Layout[p] : p \in Param}
Count(s) == Cardinality(s)
First(s) == CHOOSE r \in s : \A q \in s : r <= q

ASSUME LayoutAssumption ==
    /\ \A b \in Blocks : b \subseteq Nat /\ \E m, n \in b : b = m..n
    /\ \A b, c \in Blocks : b = c \/ b \cap c = {}
ASSUME ValueAssumption == Default \in Value
ASSUME SettingAssumption ==
    \A ps \in Settings : DOMAIN ps \in (SUBSET Param) \ {{}} /\ ps \in [DOMAIN ps -> Value]
\* The lookup table of the ECONs has blocks of eight bytes at most.
ASSUME EconAssumption ==
    /\ Limit \in Nat /\ AddrBytes \in 0..Limit
    /\ \A b \in Blocks : Count(b) + AddrBytes <= Limit

VARIABLES
    chip,     \* the registers of the ECON: one field for each parameter of the block
    ptr,      \* the address the ECON reads from next
    status,   \* the status register of the master
    bus,      \* the transfer the master works on
    data,     \* the bytes the master has read last
    function, \* the function of ECON that runs
    stage,    \* where general_write_read is
    op,       \* the call it works for, or the last one
    image,    \* chip_reg: the registers read so far, or those to write
    todo,     \* the addresses still to read or to write
    wanted, \* history: the settings the calls that returned have made
    suspect   \* history: the parameters a call that threw may have left anywhere

master == <<status, bus, data>>
program == <<function, stage, op, image, todo>>
econHist == <<wanted, suspect>>
econVars == <<chip, ptr, master, program, econHist>>

\* A register holds a field of each parameter of its block.
Sharing(r) == {p \in Param : r \in Layout[p]}
Content(f) == [r \in Reg |-> [p \in Sharing(r) |-> f[p]]]

NoBus == [kind |-> "none", regs |-> {}]

EconTypeOK ==
    /\ DOMAIN chip = Reg /\ \A r \in Reg : chip[r] \in [Sharing(r) -> Value]
    /\ status \in {"none", "busy", "success", "error"}
    /\ bus.kind \in {"none", "address", "values", "read"} /\ bus.regs \subseteq Reg
    /\ function \in {"client", "get", "set"}
    /\ stage \in {"write", "check_write", "read", "check_read"}
    /\ op.kind \in {"none", "read", "apply", "load"}
    /\ DOMAIN image \subseteq Reg
    /\ \A r \in DOMAIN image : image[r] \in [Sharing(r) -> Value]
    /\ todo \subseteq Reg
    /\ wanted \in [Param -> Value] /\ suspect \subseteq Param

EconInit ==
    /\ wanted = [p \in Param |-> Default] /\ suspect = {}
    /\ chip = Content(wanted)
    /\ ptr = 0 /\ data = <<>> /\ bus = NoBus
    /\ status \in {"none", "success", "error"}
    /\ function = "client" /\ stage = "write"
    /\ op = [kind |-> "none"]
    /\ image = <<>> /\ todo = {}
-----------------------------------------------------------------------------
(***************************************************************************)
(* The master and the ECON (external hardware).                            *)
(***************************************************************************)

\* The values of a transfer, or a part of them, reach the registers.
Written(regs) == [r \in Reg |-> IF r \in regs THEN image[r] ELSE chip[r]]

\* The transfer ends well.
Done ==
    /\ bus # NoBus
    /\ status' = "success" /\ bus' = NoBus
    /\ CASE bus.kind = "address" -> ptr' = First(bus.regs) /\ UNCHANGED <<chip, data>>
         [] bus.kind = "values" ->
              ptr' = First(bus.regs) /\ chip' = Written(bus.regs) /\ UNCHANGED data
         [] bus.kind = "read" ->
              /\ data' = [i \in 1..Count(bus.regs) |->
                             IF ptr + i - 1 \in Reg THEN chip[ptr + i - 1] ELSE <<>>]
              /\ UNCHANGED <<chip, ptr>>
    /\ UNCHANGED <<program, econHist>>

\* No acknowledge, no clock or a line held low, after any number of the values.
Error ==
    /\ bus # NoBus
    /\ status' = "error" /\ bus' = NoBus
    /\ \/ UNCHANGED chip
       \/ /\ bus.kind = "values"
          /\ \E r \in bus.regs : chip' = Written({q \in bus.regs : q <= r})
    /\ UNCHANGED <<ptr, data, program, econHist>>
-----------------------------------------------------------------------------
(***************************************************************************)
(* The calls.                                                              *)
(***************************************************************************)
Touched(ps) == UNION {Layout[p] : p \in DOMAIN ps}

\* Mutated form: the parameters are laid over zeros.
OverlayOnDefaults(regs, ps) ==
    [r \in DOMAIN regs |->
        [p \in Sharing(r) |-> IF p \in DOMAIN ps THEN ps[p] ELSE Default]]

\* Compiler::compile of the parameters on top of register values.
Overlay(regs, ps) ==
    [r \in DOMAIN regs |->
        [p \in Sharing(r) |-> IF p \in DOMAIN ps THEN ps[p] ELSE regs[r][p]]]

\* applyParameters and readParameters: the blocks with a parameter are read first.
CallWithRead ==
    /\ function = "client"
    /\ \E ps \in Settings, kind \in {"apply", "read"} :
          /\ op' = [kind |-> kind, params |-> ps]
          /\ todo' = Touched(ps)
    /\ image' = <<>>
    /\ function' = "get" /\ stage' = "write"
    /\ UNCHANGED <<chip, ptr, master, econHist>>

\* loadParameters with the defaults: everything is written, nothing is read.
LoadParameters ==
    /\ function = "client"
    /\ \E ps \in Settings :
          LET all == [p \in Param |-> IF p \in DOMAIN ps THEN ps[p] ELSE Default]
          IN  op' = [kind |-> "load", params |-> all] /\ image' = Content(all)
    /\ todo' = Reg
    /\ function' = "set" /\ stage' = "write"
    /\ UNCHANGED <<chip, ptr, master, econHist>>

\* The block with the first address that is still to be read.
Block == CHOOSE b \in Blocks : First(todo) \in b

\* The longest run of adjacent addresses from the first one on.
Group == {r \in todo : First(todo)..r \subseteq todo}

Target == IF function = "get" THEN Block ELSE Group
-----------------------------------------------------------------------------
(***************************************************************************)
(* general_write_read: getValues and setValues.                            *)
(***************************************************************************)

\* Mutated form: the limit of the master is off by one.
LaunchShort(kind, size) ==
    /\ IF size < Limit THEN status' = "busy" /\ bus' = [kind |-> kind, regs |-> Target]
                       ELSE UNCHANGED <<status, bus>>
    /\ UNCHANGED data

\* i2c_write and start_i2c_read: what is too long returns at once.
Launch(kind, size) ==
    /\ IF size <= Limit THEN status' = "busy" /\ bus' = [kind |-> kind, regs |-> Target]
                        ELSE UNCHANGED <<status, bus>>
    /\ UNCHANGED data

\* A block or a group is still to be transferred.
Busy == function \in {"get", "set"} /\ todo # {}

StartWrite ==
    /\ Busy /\ stage = "write"
    /\ IF function = "get" THEN Launch("address", AddrBytes)
                           ELSE Launch("values", AddrBytes + Count(Target))
    /\ stage' = "check_write"
    /\ UNCHANGED <<chip, ptr, function, op, image, todo, econHist>>

\* i2c_transaction_check, which tries again as long as no bit is set.
Poll ==
    /\ Busy /\ stage \in {"check_write", "check_read"}
    /\ status \in {"none", "busy"}
    /\ UNCHANGED econVars

EndWrite ==
    /\ Busy /\ stage = "check_write" /\ status = "success"
    /\ stage' = "read"
    /\ UNCHANGED <<chip, ptr, master, function, op, image, todo, econHist>>

\* As many bytes are read back as were asked for or written.
BeginRead ==
    /\ Busy /\ stage = "read"
    /\ Launch("read", Count(Target))
    /\ stage' = "check_read"
    /\ UNCHANGED <<chip, ptr, function, op, image, todo, econHist>>

\* Mutated form: an error bit is polled like a missing success bit.
ThrowNever ==
    /\ Busy /\ stage \in {"check_write", "check_read"} /\ status = "error"
    /\ UNCHANGED econVars

\* I2CErrorNoACK and its like leave the call; the menu catches them.
Throw ==
    /\ Busy /\ stage \in {"check_write", "check_read"} /\ status = "error"
    /\ function' = "client" /\ stage' = "write"
    /\ op' = [kind |-> "none"] /\ image' = <<>> /\ todo' = {}
    /\ suspect' = IF op.kind = "read" THEN suspect ELSE suspect \cup DOMAIN op.params
    /\ UNCHANGED <<chip, ptr, master, wanted>>

\* getValues returns: the bytes are filed under the addresses of the block.
EndGet ==
    /\ function = "get" /\ stage = "check_read" /\ status = "success"
    /\ image' = [r \in DOMAIN image \cup Block |->
                    IF r \in Block THEN data[r - First(Block) + 1] ELSE image[r]]
    /\ todo' = todo \ Block
    /\ stage' = "write"
    /\ UNCHANGED <<chip, ptr, master, function, op, econHist>>

\* setValues returns; what was read back is dropped.
EndSet ==
    /\ function = "set" /\ stage = "check_read" /\ status = "success"
    /\ todo' = todo \ Group
    /\ stage' = "write"
    /\ UNCHANGED <<chip, ptr, master, function, op, image, econHist>>
-----------------------------------------------------------------------------
\* getRegisters is through: readParameters returns, applyParameters goes on.
ReadThrough ==
    /\ function = "get" /\ todo = {}
    /\ IF op.kind = "read"
       THEN function' = "client" /\ UNCHANGED <<image, todo>>
       ELSE /\ function' = "set"
            /\ image' = Overlay(image, op.params)
            /\ todo' = DOMAIN image
    /\ UNCHANGED <<chip, ptr, master, stage, op, econHist>>

\* The runs of adjacent addresses that the master can hold.
Fitting(regs) ==
    LET Run(r) == {q \in regs : q..r \subseteq regs /\ r..q \subseteq regs}
    IN  {r \in regs : AddrBytes + Count(Run(r)) <= Limit}

\* setRegisters is through and the call returns.
WriteThrough ==
    /\ function = "set" /\ todo = {}
    /\ function' = "client"
    /\ LET set == {p \in DOMAIN op.params : Layout[p] \subseteq Fitting(DOMAIN image)}
       IN  /\ wanted' = [p \in Param |-> IF p \in set THEN op.params[p] ELSE wanted[p]]
           /\ suspect' = suspect \ set
    /\ image' = <<>>
    /\ UNCHANGED <<chip, ptr, master, stage, op, todo>>
-----------------------------------------------------------------------------
EconCall == CallWithRead \/ LoadParameters

EconProgram ==
    \/ StartWrite \/ EndWrite \/ BeginRead \/ EndGet \/ EndSet \/ Throw
    \/ ReadThrough \/ WriteThrough

Master == Done \/ Error

EconNext == EconCall \/ EconProgram \/ Master \/ Poll

EconSpec == EconInit /\ [][EconNext]_econVars

\* The program runs on, and a transfer that was launched ends, well or not.
EconFairSpec == EconSpec /\ WF_econVars(EconProgram) /\ WF_econVars(Master)
-----------------------------------------------------------------------------
\* View: between the calls every parameter holds what the last call that returned
\* made of it, in all the registers of its block: a call changes no other parameter
\* of the blocks it reads and writes back, one that throws spoils none but its own,
\* and of one that returns everything has landed but the runs of adjacent addresses
\* that the master cannot hold, and those are untouched.
View ==
    function = "client" => \A p \in Param \ suspect : \A r \in Layout[p] : chip[r][p] = wanted[p]

\* ReadsTrue: a read that returns has the setting of every parameter it names,
\* though neither the status it polled nor the bytes it took say which transfer
\* they belong to.
ReadsTrue ==
    function = "client" /\ op.kind = "read" =>
              \A p \in DOMAIN op.params \ suspect : \A r \in Layout[p] :
                  image[r][p] = wanted[p]

\* EconCallEnds: once the master has done a transfer, a call returns or throws.  (Before,
\* a transfer that is too long to be launched is awaited for ever.)
EconCallEnds == []<>(status # "none" => function = "client")

\* AllSet: a call that returns has set its parameters; adjacent addresses are
\* combined "into one write" (ECON.cxx:199).
AllSet ==
    function = "client" /\ op.kind \in {"apply", "load"} =>
              \A p \in DOMAIN op.params : \A r \in Layout[p] : chip[r][p] = op.params[p]
=============================================================================
