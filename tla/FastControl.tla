---------------------------- MODULE FastControl ----------------------------
(***************************************************************************)
(* The fast-control block and the counting of triggers.  The program writes *)
(* registers one access at a time; the hardware sends what was requested   *)
(* when its place in the orbit comes, and triggers on its own meanwhile.   *)
(*                                                                         *)
(* A call of the FastControl class is a program: a sequence of operations, *)
(* each a tuple <<kind, argument ...>>.  FcOperation is what each does.    *)
(***************************************************************************)
EXTENDS Integers, Sequences, SequencesExt

CONSTANTS
    MaxL1A,         \* bound: triggers of a behaviour
    StandardDelay   \* pulse to L1A in the standard setup: 20 in the code

VARIABLES
    board,   \* the target: all but "bittware" have the mapped block
    fc,      \* its registers: enables, periodic commands, requests not yet sent
    front,   \* counts of triggers: in the block, in the chips, in the buffer
    saved,   \* copies of the L1A enable in calls not yet returned, innermost last
    word     \* the request register as an access in progress has read it

fcvars == <<board, fc, front, saved, word>>

Board == {"fiberless", "zcu", "smm", "bittware"}
Mapped == board # "bittware"
Resets == {"count_rst", "ocr", "ebr", "ecr", "roct", "rocd", "econt", "econd"}

FcInit ==
    /\ fc \in [l1a : BOOLEAN, ext : {FALSE}, blinker : BOOLEAN, follow : {FALSE},
               delay : {0}, req : {{}}, fire : {{}}]
    /\ front \in [count : {0, 1}, number : {0, 1}, buf : {0}, left : {MaxL1A}]
    /\ saved = <<>>
    /\ word = {}
-----------------------------------------------------------------------------
(***************************************************************************)
(* The calls.                                                              *)
(***************************************************************************)
\* uio_.rmw(ADDR_REQUEST, r, r): a read, a pause, a write.
Request(r) == <<<<"read">>, <<"write", r>>>>
Pulse(r) == <<<<"pulse", r>>>>
Sleep == <<<<"sleep">>>>

\* Variant for a mutation: the enable is switched on again, not restored.
QuietlyThenOn(body) == <<<<"mask">>>> \o body \o <<<<"enables", TRUE>>>>

\* "Turn off L1A for the moment"; restore what was there before.
Quietly(body) == <<<<"save">>, <<"mask">>>> \o body \o <<<<"restore">>>>

ResetCounters == IF Mapped THEN Request("count_rst") ELSE Pulse("count_rst")
Bufferclear == IF Mapped THEN Quietly(Request("ebr")) ELSE Pulse("ebr")
OrbitCountReset == IF Mapped THEN Quietly(Request("ocr")) ELSE Pulse("ocr")

LinkresetRocs ==
    Quietly(IF Mapped THEN Request("roct") \o Request("rocd")
                      ELSE Pulse("rocd") \o Pulse("roct"))
LinkresetEcons ==
    Quietly(IF Mapped THEN Request("econd") \o Sleep \o Request("econt")
                      ELSE Pulse("econd") \o Pulse("econt"))

\* The calls inside save and restore for themselves; the pauses are longer than
\* an orbit.  The other block does not stop its triggers for it.
ClearRun ==
    IF Mapped
    THEN Quietly(ResetCounters \o Sleep \o Bufferclear \o Sleep
                 \o OrbitCountReset \o Sleep \o Request("ecr") \o Sleep)
    ELSE ResetCounters \o Bufferclear \o OrbitCountReset \o Pulse("ecr")

\* One L1A, or one pulse that an L1A follows: a periodic command is asked for
\* once, or a bit is pulsed.
SendL1A == IF Mapped THEN <<<<"fire", "pedestal">>>> ELSE <<<<"trigger">>>>
Chargepulse == IF Mapped THEN <<<<"fire", "charge">>>> ELSE <<<<"trigger">>>>

\* The periodic commands are packed one after the other, the pulses disabled
\* and their L1As made to follow them; then L1As are enabled in general.
StandardSetup ==
    IF Mapped THEN <<<<"blink", FALSE>>, <<"delay", StandardDelay>>, <<"follow">>, <<"enables", TRUE>>>>
              ELSE <<>>

\* Enabling for a run does nothing on the mapped block.
FcEnables(on) == IF Mapped THEN <<>> ELSE <<<<"enables", on>>>>

-----------------------------------------------------------------------------
(***************************************************************************)
(* What the operations do.                                                 *)
(***************************************************************************)
Sent(r) == CASE r = "count_rst" -> [front EXCEPT !.count = 0]
             [] r = "ecr" -> [front EXCEPT !.number = 0]
             [] OTHER -> front

\* A trigger that is let through is counted, numbered by the chips and buffered.
Triggered == IF fc.l1a THEN [front EXCEPT !.count = @ + 1, !.number = @ + 1,
                                          !.buf = @ + 1, !.left = @ - 1]
                       ELSE front

FcOperation(op) ==
    \/ /\ op[1] = "read"
       /\ word' = fc.req
       /\ UNCHANGED <<fc, front, saved>>
    \/ /\ op[1] = "write"
       /\ fc' = [fc EXCEPT !.req = word \cup {op[2]}]
       /\ UNCHANGED <<front, saved, word>>
    \/ /\ op[1] = "pulse"
       /\ front' = Sent(op[2])
       /\ UNCHANGED <<fc, saved, word>>
    \/ /\ op[1] = "sleep"                  \* longer than a request can wait
       /\ fc.req = {}
       /\ UNCHANGED <<fc, front, saved, word>>
    \/ /\ op[1] = "save"
       /\ saved' = Append(saved, fc.l1a)
       /\ UNCHANGED <<fc, front, word>>
    \/ /\ op[1] = "mask"
       /\ fc' = [fc EXCEPT !.l1a = FALSE]
       /\ UNCHANGED <<front, saved, word>>
    \/ /\ op[1] = "restore"
       /\ fc' = [fc EXCEPT !.l1a = Last(saved)]
       /\ saved' = Front(saved)
       /\ UNCHANGED <<front, word>>
    \/ /\ op[1] = "fire"
       /\ fc' = [fc EXCEPT !.fire = @ \cup {op[2]}]
       /\ UNCHANGED <<front, saved, word>>
    \/ /\ op[1] = "blink"
       /\ fc' = [fc EXCEPT !.blinker = op[2]]
       /\ UNCHANGED <<front, saved, word>>
    \/ /\ op[1] = "delay"
       /\ fc' = [fc EXCEPT !.delay = op[2]]
       /\ UNCHANGED <<front, saved, word>>
    \/ /\ op[1] = "follow"
       /\ fc' = [fc EXCEPT !.follow = TRUE]
       /\ UNCHANGED <<front, saved, word>>
    \/ /\ op[1] = "trigger"
       /\ front.left > 0
       /\ front' = Triggered
       /\ UNCHANGED <<fc, saved, word>>
    \/ /\ op[1] = "enables"
       /\ fc' = [fc EXCEPT !.l1a = op[2]]
       /\ UNCHANGED <<front, saved, word>>

-----------------------------------------------------------------------------
(***************************************************************************)
(* The hardware.                                                           *)
(***************************************************************************)
\* A reset goes out when its bunch crossing comes, and its bit clears itself.
SendReset == \E r \in fc.req :
    /\ front' = Sent(r)
    /\ fc' = [fc EXCEPT !.req = @ \ {r}]
    /\ UNCHANGED <<board, saved, word>>

\* A command asked for goes out; an L1A follows a pulse if one was set up to.
SendCommand == \E p \in fc.fire :
    /\ front.left > 0
    /\ front' = IF p = "pedestal" \/ fc.follow THEN Triggered ELSE front
    /\ fc' = [fc EXCEPT !.fire = @ \ {p}]
    /\ UNCHANGED <<board, saved, word>>

\* The blinker on every orbit, or the central trigger.
Trigger ==
    /\ front.left > 0 /\ fc.l1a
    /\ IF Mapped THEN fc.blinker ELSE fc.ext
    /\ front' = Triggered
    /\ UNCHANGED <<board, fc, saved, word>>

Hardware == SendReset \/ SendCommand \/ Trigger
=============================================================================
