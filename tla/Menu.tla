-------------------------------- MODULE Menu --------------------------------
(***************************************************************************)
(* The menu of the command-line tools (Menu.h).  All input passes through  *)
(* one queue of words: a script fills it at the start, a line typed at the *)
(* terminal is split into it, and both requests and answers are taken from *)
(* it.  A word records besides its text what its writer meant it for; who  *)
(* types reads the question, and the word typed is an answer to it.        *)
(***************************************************************************)
EXTENDS Integers, Sequences, SequencesExt

CONSTANTS
    Typed,      \* lines the operator may type: sequences of words
    MaxTyped    \* bound: lines typed in a behaviour

VARIABLES
    queue,    \* cmdTextQueue_
    path,     \* menus entered, innermost last; <<>> when the program has ended
    prog,     \* operations the running command has still to do
    cmd,      \* its name
    ans,      \* answers it was given: a function from prompts
    lines     \* lines the operator may still type

menuvars == <<queue, path, prog, cmd, ans, lines>>

MenuInit ==
    /\ path = <<"ROOT">>
    /\ prog = <<>>
    /\ cmd = "none"
    /\ ans = <<>>
    /\ lines = MaxTyped

Idle == prog = <<>>
Waiting(p) == IF p = "request" THEN Idle ELSE ~Idle /\ Head(prog) = <<"ask", p>>

Read(p) ==
    /\ path # <<>> /\ queue # <<>> /\ Waiting(p)
    /\ queue' = Tail(queue)

\* A command that throws is abandoned; the words meant for it stay queued.
Abandon == prog' = <<>>
-----------------------------------------------------------------------------
(***************************************************************************)
(* Menu::steer.  Menus maps a menu to its submenus, Commands to its other  *)
(* lines.  Every menu also has the lines EXIT, HELP and PWD.               *)
(***************************************************************************)
EnterMenu(Menus) ==
    /\ Read("request")
    /\ Head(queue).text \in Menus[Last(path)]
    /\ path' = Append(path, Head(queue).text)
    /\ UNCHANGED <<prog, cmd, ans, lines>>

LeaveMenu ==
    /\ Read("request")
    /\ Head(queue).text = "EXIT"
    /\ path' = Front(path)
    /\ UNCHANGED <<prog, cmd, ans, lines>>

\* HELP and PWD print; a word that names no line is "not understood".
StayInMenu(Menus, Commands) ==
    /\ Read("request")
    /\ Head(queue).text \notin {"EXIT"} \cup Menus[Last(path)] \cup Commands[Last(path)]
    /\ UNCHANGED <<path, prog, cmd, ans, lines>>

StartCommand(Commands, Program) ==
    /\ Read("request")
    /\ Head(queue).text \in Commands[Last(path)]
    /\ cmd' = Head(queue).text
    /\ prog' = Program[Last(path)][cmd']
    /\ ans' = <<>>
    /\ UNCHANGED <<path, lines>>

\* An answer; a blank word stands for the default.  A number that is none throws.
Answer(p, Default, IsNumber) ==
    /\ Read(p)
    /\ LET given == IF Head(queue).text = "" THEN Default ELSE Head(queue).text
       IN IF IsNumber /\ given = "text"
          THEN Abandon /\ UNCHANGED ans
          ELSE /\ ans' = [q \in DOMAIN ans \cup {p} |-> IF q = p THEN given ELSE ans[q]]
               /\ prog' = Tail(prog)
    /\ UNCHANGED <<path, cmd, lines>>

\* At an empty queue the terminal is asked.
TypeLine(prompts) == \E p \in prompts, line \in Typed :
    /\ path # <<>> /\ queue = <<>> /\ lines > 0
    /\ Waiting(p) /\ line[1].for = p
    /\ queue' = line
    /\ lines' = lines - 1
    /\ UNCHANGED <<path, prog, cmd, ans>>

\* End of input throws: inside a command that is caught, in the menu it ends the tool.
EndOfInput(prompts) ==
    /\ path # <<>> /\ queue = <<>> /\ lines = 0
    /\ \E p \in prompts : Waiting(p)
    /\ path' = IF Idle THEN <<>> ELSE path
    /\ Abandon
    /\ UNCHANGED <<queue, cmd, ans, lines>>
=============================================================================
