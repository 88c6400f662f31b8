----------------------------- MODULE TaskRunner -----------------------------
(***************************************************************************)
(* One session of pftool: the user starts tasks from the menu, one after   *)
(* the other, and every task is a program over what the tasks share, the   *)
(* parameters of the chips (roc) and the pulse-to-L1A delays of the fast   *)
(* control (delay).                                                        *)
(*                                                                         *)
(* A step of a program is one call of the code:                            *)
(*   open     apply a set of parameters and keep what was there, in a test *)
(*            scope (restores) or in a variable of the task (~restores)    *)
(*   close    the destructor of the innermost test scope, or the task's    *)
(*            own setRegisters with what it kept                           *)
(*   run      daq_run: rows that claim `columns' and `time', of which those *)
(*            in `wrong' and `untimed' are not what the code has set       *)
(*   call     any other call that may throw: a prompt, a file, setup_run   *)
(*   read     take the delay of a pulse as the centre of a time scan       *)
(*   shift    set the delay of a pulse relative to that centre             *)
(*   move     set the delay of a pulse                                     *)
(*   apply    a permanent setting, one of `choices'                        *)
(*   standard standard_setup of the fast control                           *)
(*   throw    a call that always throws                                    *)
(* The programs are in ScanTasks. The grain of the chip is the parameter;  *)
(* RocParameters has its registers, its attempts and its transactions.     *)
(***************************************************************************)
EXTENDS Integers, Sequences, FiniteSets

CONSTANTS
    Param,       \* the parameters of the chips
    Value,       \* their values
    Place,       \* the place of a parameter in the order registers are written
    Task,        \* the tasks of the menu, with what the user answers to them
    Program,     \* the steps of a task
    Boards,      \* what the chips may hold when the session begins
    Delays,      \* what the fast control may hold when the session begins
    Standard,    \* the delays standard_setup sets
    Movers,      \* tasks that leave a delay where they moved it
    None,        \* no task
    MaxTasks     \* bound: tasks in a session

Pulse == {"charge", "led"}

StepOp == {"open", "close", "run", "call", "read", "shift", "move", "apply", "standard", "throw"}

\* A set of parameters with their values, as a builder collects it.
IsSettings(s) == DOMAIN s \subseteq Param /\ \A p \in DOMAIN s : s[p] \in Value

StepOK(step) ==
    /\ step.op \in StepOp
    /\ step.op = "open" => IsSettings(step.set) /\ step.restores \in BOOLEAN
    /\ step.op = "apply" => \A s \in step.choices : IsSettings(s)
    /\ step.op = "run" => step.wrong \subseteq DOMAIN step.columns /\ step.untimed \subseteq step.time
    /\ step.op \in {"read", "shift", "move"} => step.pulse \in Pulse
    /\ step.op = "shift" => step.by \in Int
    /\ step.op = "move" => step.to \in Int

ASSUME ProgramAssumption ==
    \A t \in Task :
        LET steps == Program[t] IN Len(steps) \in Nat /\ \A i \in 1..Len(steps) : StepOK(steps[i])

ASSUME BoardAssumption ==
    /\ Boards \subseteq [Param -> Value]
    /\ Delays \subseteq [Pulse -> Int]
    /\ Standard \in [Pulse -> Int]
    /\ Place \in [Param -> Nat]
    /\ MaxTasks \in Nat
    /\ None \notin Task

VARIABLES
    roc,      \* the parameters on the chips
    delay,    \* the delays in the fast control
    task,     \* the task under way, or None
    program,  \* its steps
    pc,       \* the next of them
    handles,  \* what is kept, outermost first: parameters and what they held
    central,  \* the centre of the time scan
    throwing, \* an exception is on its way to the menu
    kept,     \* history: what the chips hold outside the scopes
    settled,  \* history: the delays outside the time scans
    spoiled,  \* history: parameters left by a write that failed half way
    begun     \* bound: tasks begun

vars == <<roc, delay, task, program, pc, handles, central, throwing, kept, settled, spoiled, begun>>
-----------------------------------------------------------------------------
\* The chips after settings s have been written.
Write(chip, s) == [p \in Param |-> IF p \in DOMAIN s THEN s[p] ELSE chip[p]]

Part(s, S) == [p \in S |-> s[p]]

\* How far a write of the parameters of S may come before it fails.
Cuts(S) == {S} \cup {{p \in S : Place[p] < Place[q]} : q \in S}

\* The parameters whose former values applyParameters returns: getRegisters
\* with an empty selection reads the whole chip.
Touched(s) == IF DOMAIN s = {} THEN Param ELSE DOMAIN s

Innermost == handles[Len(handles)]
Popped == SubSeq(handles, 1, Len(handles) - 1)
Named == UNION {DOMAIN handles[i].saved : i \in DOMAIN handles}

Here == program[pc]
Running == task # None /\ ~throwing /\ pc <= Len(program)
At(op) == Running /\ Here.op = op
Advance == pc' = pc + 1 /\ UNCHANGED <<task, program, throwing, begun>>
Raise == throwing' = TRUE /\ UNCHANGED <<task, program, pc, begun>>
ToMenu ==
    /\ task' = None /\ throwing' = FALSE
    /\ program' = <<>> /\ pc' = 1 /\ central' = 0
    /\ UNCHANGED <<delay, kept, settled, begun>>

Init ==
    /\ roc \in Boards
    /\ delay \in Delays
    /\ task = None
    /\ program = <<>>
    /\ pc = 1
    /\ handles = <<>>
    /\ central = 0
    /\ throwing = FALSE
    /\ kept = roc
    /\ settled = delay
    /\ spoiled = {}
    /\ begun = 0

\* The user picks a line of the menu. What the task finds is what it is to leave.
Begin ==
    /\ task = None
    /\ begun < MaxTasks
    /\ \E t \in Task : task' = t /\ program' = Program[t]
    /\ pc' = 1
    /\ kept' = roc
    /\ settled' = delay
    /\ spoiled' = {}
    /\ begun' = begun + 1
    /\ UNCHANGED <<roc, delay, handles, central, throwing>>

\* Variant for a mutation: the registers are read after they have been written.
OpenSavesLate ==
    /\ At("open")
    /\ roc' = Write(roc, Here.set)
    /\ handles' = Append(handles, [saved |-> Part(roc', Touched(Here.set)), restores |-> Here.restores])
    /\ Advance
    /\ UNCHANGED <<delay, central, kept, settled, spoiled>>

\* TestParameters, or applyParameters with its result kept.
Open ==
    /\ At("open")
    /\ roc' = Write(roc, Here.set)
    /\ handles' = Append(handles, [saved |-> Part(roc, Touched(Here.set)), restores |-> Here.restores])
    /\ Advance
    /\ UNCHANGED <<delay, central, kept, settled, spoiled>>

\* It throws half way: nothing will put back what it has written.
OpenFails ==
    /\ At("open")
    /\ \E cut \in Cuts(DOMAIN Here.set) :
        /\ roc' = Write(roc, Part(Here.set, cut))
        /\ spoiled' = spoiled \cup cut
    /\ Raise
    /\ UNCHANGED <<delay, handles, central, kept, settled>>

\* Variant for a mutation: the scope opened first is closed first.
CloseOutermost ==
    /\ At("close")
    /\ handles # <<>>
    /\ roc' = Write(roc, handles[1].saved)
    /\ handles' = Tail(handles)
    /\ Advance
    /\ UNCHANGED <<delay, central, kept, settled, spoiled>>

Close ==
    /\ At("close")
    /\ handles # <<>>
    /\ roc' = Write(roc, Innermost.saved)
    /\ handles' = Popped
    /\ Advance
    /\ UNCHANGED <<delay, central, kept, settled, spoiled>>

\* The task's own setRegisters throws half way.
PutBackFails ==
    /\ At("close")
    /\ handles # <<>>
    /\ ~Innermost.restores
    /\ \E cut \in Cuts(DOMAIN Innermost.saved) : roc' = Write(roc, Part(Innermost.saved, cut))
    /\ Raise
    /\ UNCHANGED <<delay, handles, central, kept, settled, spoiled>>

\* daq_run, or another call that returns.
Return ==
    /\ At("run") \/ At("call")
    /\ Advance
    /\ UNCHANGED <<roc, delay, handles, central, kept, settled, spoiled>>

Throw ==
    /\ At("run") \/ At("call") \/ At("throw")
    /\ Raise
    /\ UNCHANGED <<roc, delay, handles, central, kept, settled, spoiled>>

\* fc_get_setup_calib and fc_get_setup_led.
ReadCentral ==
    /\ At("read")
    /\ central' = delay[Here.pulse]
    /\ Advance
    /\ UNCHANGED <<roc, delay, handles, kept, settled, spoiled>>

\* Variant for a mutation: a shift is from where the last point left the delay.
SetDelayFromCurrent ==
    /\ \/ At("shift") /\ delay' = [delay EXCEPT ![Here.pulse] = @ + Here.by]
       \/ At("move") /\ delay' = [delay EXCEPT ![Here.pulse] = Here.to]
    /\ Advance
    /\ UNCHANGED <<roc, handles, central, kept, settled, spoiled>>

\* fc_setup_calib and fc_setup_led.
SetDelay ==
    /\ \/ At("shift") /\ delay' = [delay EXCEPT ![Here.pulse] = central + Here.by]
       \/ At("move") /\ delay' = [delay EXCEPT ![Here.pulse] = Here.to]
    /\ Advance
    /\ UNCHANGED <<roc, handles, central, kept, settled, spoiled>>

StandardSetup ==
    /\ At("standard")
    /\ delay' = Standard
    /\ settled' = Standard
    /\ Advance
    /\ UNCHANGED <<roc, handles, central, kept, spoiled>>

\* A setting that is to stay, unless something kept will be put over it.
Apply ==
    /\ At("apply")
    /\ \E s \in Here.choices :
        /\ roc' = Write(roc, s)
        /\ kept' = Write(kept, Part(s, DOMAIN s \ Named))
    /\ Advance
    /\ UNCHANGED <<delay, handles, central, settled, spoiled>>

ApplyFails ==
    /\ At("apply")
    /\ \E s \in Here.choices : \E cut \in Cuts(DOMAIN s) :
        /\ roc' = Write(roc, Part(s, cut))
        /\ spoiled' = spoiled \cup cut
    /\ Raise
    /\ UNCHANGED <<delay, handles, central, kept, settled>>

\* On the way to the menu a scope restores, a variable of the task is forgotten.
Unwind ==
    /\ throwing
    /\ handles # <<>>
    /\ \/ /\ Innermost.restores
          /\ roc' = Write(roc, Innermost.saved)
          /\ spoiled' = spoiled \ DOMAIN Innermost.saved
       \/ /\ ~Innermost.restores
          /\ roc' = roc
          /\ spoiled' = spoiled \cup DOMAIN Innermost.saved
    /\ handles' = Popped
    /\ UNCHANGED <<delay, task, program, pc, central, throwing, kept, settled, begun>>

\* A destructor throws: the program terminates and the user starts it again.
Terminate ==
    /\ throwing \/ At("close")
    /\ handles # <<>>
    /\ Innermost.restores
    /\ \E cut \in Cuts(DOMAIN Innermost.saved) : roc' = Write(roc, Part(Innermost.saved, cut))
    /\ spoiled' = spoiled \cup Named
    /\ handles' = <<>>
    /\ ToMenu

\* Variant for a mutation: what the task keeps outlives the exception.
CatchAtOnce ==
    /\ throwing
    /\ ToMenu
    /\ UNCHANGED <<roc, handles, spoiled>>

\* The menu catches what a task throws and waits for the next command.
Catch ==
    /\ throwing
    /\ handles = <<>>
    /\ ToMenu
    /\ UNCHANGED <<roc, handles, spoiled>>

AtEnd == task # None /\ ~throwing /\ pc > Len(program)

\* What a task has not put back by now is forgotten.
Leave ==
    /\ AtEnd
    /\ handles' = <<>>
    /\ spoiled' = spoiled \cup Named
    /\ ToMenu
    /\ UNCHANGED roc

Next ==
    \/ Begin \/ Open \/ OpenFails \/ Close \/ PutBackFails \/ Return \/ Throw
    \/ ReadCentral \/ SetDelay \/ StandardSetup \/ Apply \/ ApplyFails
    \/ Unwind \/ Terminate \/ Catch \/ Leave

Spec == Init /\ [][Next]_vars
-----------------------------------------------------------------------------
(***************************************************************************)
(* What the properties ask of the programs: facts about the constant       *)
(* Program. n is the number of a step to come.                             *)
(***************************************************************************)
Opens(steps, n) == {i \in 1..(n - 1) : steps[i].op = "open"}
Closes(steps, n) == {i \in 1..(n - 1) : steps[i].op = "close"}
Depth(steps, n) == Cardinality(Opens(steps, n)) - Cardinality(Closes(steps, n))

\* What is opened is closed, in this block or further out.
Balanced == \A t \in Task : LET steps == Program[t] IN Depth(steps, Len(steps) + 1) = 0

\* Step o sets p in a scope that is still open.
StillSets(steps, o, n, p) ==
    /\ steps[o].op = "open" /\ p \in DOMAIN steps[o].set
    /\ LET d == Depth(steps, o) IN \A m \in (o + 1)..n : Depth(steps, m) > d

\* p has the value v: of what is open, the last that sets p sets it to v, and no
\* permanent setting has come after it.
HasSet(steps, n, p, v) ==
    \E o \in 1..(n - 1) :
        /\ StillSets(steps, o, n, p) /\ v = steps[o].set[p]
        /\ \A i \in (o + 1)..(n - 1) :
              /\ steps[i].op = "apply" => \A s \in steps[i].choices : p \notin DOMAIN s
              /\ ~StillSets(steps, i, n, p)

\* The last step that sets the delay of a pulse.
Sets(step, pulse) == step.op = "standard" \/ (step.op \in {"shift", "move"} /\ step.pulse = pulse)
LastSets(steps, i, n, pulse) ==
    Sets(steps[i], pulse) /\ \A j \in (i + 1)..(n - 1) : ~Sets(steps[j], pulse)

\* It sets the delay off its centre by so much.
ShiftedBy(steps, n, pulse, by) ==
    \E i \in 1..(n - 1) :
        LastSets(steps, i, n, pulse) /\ steps[i].op = "shift" /\ steps[i].by = by

\* It sets the delay to the centre or to the standard.
Home(steps, n, pulse) ==
    \A i \in 1..(n - 1) :
        LastSets(steps, i, n, pulse) =>
            steps[i].op = "standard" \/ (steps[i].op = "shift" /\ steps[i].by = 0)

\* The centre is that of the pulse, and was read when its delay was home.
Centred(steps, n, pulse) ==
    \E r \in 1..(n - 1) :
        /\ steps[r].op = "read" /\ steps[r].pulse = pulse
        /\ Home(steps, r, pulse)
        /\ \A i \in (r + 1)..(n - 1) : steps[i].op \notin {"read", "standard"}

Centres ==
    \A t \in Task :
        LET steps == Program[t]
        IN  \A i \in 1..Len(steps) : steps[i].op = "shift" => Centred(steps, i, steps[i].pulse)

ReturnsHome ==
    \A t \in Task \ Movers :
        LET steps == Program[t] IN \A pulse \in Pulse : Home(steps, Len(steps) + 1, pulse)

\* A row claims what the scopes around it set, but for what is marked wrong.
RowsNamed ==
    \A t \in Task :
        LET steps == Program[t]
        IN  \A i \in {j \in 1..Len(steps) : steps[j].op = "run"} :
                /\ \A p \in DOMAIN steps[i].columns \ steps[i].wrong :
                      p \in Param /\ HasSet(steps, i, p, steps[i].columns[p])
                /\ \A x \in steps[i].time \ steps[i].untimed :
                      x.pulse \in Pulse /\ ShiftedBy(steps, i, x.pulse, x.by)
-----------------------------------------------------------------------------
\* Every variable has its type, and between tasks nothing is kept and no
\* exception is under way.
TypeOK ==
    /\ roc \in [Param -> Value] /\ kept \in [Param -> Value]
    /\ delay \in [Pulse -> Int] /\ settled \in [Pulse -> Int]
    /\ task \in Task \cup {None}
    /\ pc \in Nat /\ begun \in Nat /\ central \in Int
    /\ throwing \in BOOLEAN
    /\ spoiled \subseteq Param
    /\ \A i \in 1..Len(handles) : IsSettings(handles[i].saved) /\ handles[i].restores \in BOOLEAN
    /\ task = None => handles = <<>> /\ ~throwing

\* Whatever a task opens, sets, fails at or throws from, a parameter that no
\* open scope holds and no failed write has touched has the value it had when
\* the task began, or the one the task was told to set for good.
Isolation ==
    \A p \in Param \ (spoiled \cup Named) : roc[p] = kept[p]

\* RowsTrue: when daq_run takes a row, the chips hold the values in the row's columns and
\* the delay is as far from its setting outside the scan as the time in the row
\* says, also in the second and later points of a scan. What a step marks as wrong is
\* left out, column by column; RowsClaimed is about that.
RowsTrue ==
    At("run") =>
        /\ \A p \in DOMAIN Here.columns \ Here.wrong : roc[p] = Here.columns[p]
        /\ \A t \in Here.time \ Here.untimed : delay[t.pulse] = settled[t.pulse] + t.by

\* RowsClaimed: the same of every column and time of a row, as the headers of the files and
\* of the tasks have it. The code of three tasks does not keep it: the scan of NOINV_VREF
\* sets another parameter, the scan of DACB is not done with TRIM_INV = 0, and the scan
\* of more and more channels shows a point and a time before it has set any.
RowsClaimed ==
    At("run") =>
        /\ \A p \in DOMAIN Here.columns : roc[p] = Here.columns[p]
        /\ \A t \in Here.time : delay[t.pulse] = settled[t.pulse] + t.by

\* A task that comes to its end has put back everything it did not set for
\* good: nothing is kept any more, and every parameter and delay is as it was.
CleanReturn ==
    AtEnd => /\ handles = <<>>
             /\ roc = kept
             /\ task \notin Movers => delay = settled
=============================================================================
