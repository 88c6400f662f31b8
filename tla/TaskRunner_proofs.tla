------------------------- MODULE TaskRunner_proofs --------------------------
(***************************************************************************)
(* Proofs about TaskRunner, for every program a task may be, any number of *)
(* tasks and any nesting of scopes: the types, that nothing a task does to *)
(* the chips outlives it unseen (Isolation), that a task whose scopes are  *)
(* balanced gives the chips back (CleanReturn), and that data is taken     *)
(* under what the scopes around it have set (RowsTrue).                    *)
(***************************************************************************)
EXTENDS TaskRunner, SequenceTheorems, FiniteSetTheorems, TLAPS

Settings == UNION {[S -> Value] : S \in SUBSET Param}
Handle == [saved : Settings, restores : BOOLEAN]

TypeInv ==
    /\ roc \in [Param -> Value] /\ kept \in [Param -> Value]
    /\ delay \in [Pulse -> Int] /\ settled \in [Pulse -> Int]
    /\ task \in Task \cup {None}
    /\ Len(program) \in Nat /\ \A i \in 1..Len(program) : StepOK(program[i])
    /\ pc \in Nat \ {0} /\ begun \in Nat /\ central \in Int
    /\ throwing \in BOOLEAN
    /\ spoiled \subseteq Param
    /\ handles \in Seq(Handle)
    /\ task = None => handles = <<>> /\ ~throwing

\* Parameters are spoiled only while an exception is under way, or after it.
SpoiledInv == spoiled # {} => throwing \/ task = None

\* The outermost handle that names a parameter keeps what it is to have outside.
Outermost(i, p) == p \in DOMAIN handles[i].saved /\ \A j \in 1..(i - 1) : p \notin DOMAIN handles[j].saved
OutermostInv == \A i \in 1..Len(handles), p \in Param : Outermost(i, p) => handles[i].saved[p] = kept[p]

Inv == TypeInv /\ SpoiledInv /\ OutermostInv /\ Isolation
-----------------------------------------------------------------------------
(***************************************************************************)
(* The operators on settings.                                              *)
(***************************************************************************)
LEMMA SettingsType == ASSUME NEW s \in Settings PROVE IsSettings(s)
  BY DEF Settings, IsSettings

LEMMA WriteType ==
  ASSUME NEW chip \in [Param -> Value], NEW s, IsSettings(s)
  PROVE  Write(chip, s) \in [Param -> Value]
  BY DEF Write, IsSettings

LEMMA WriteValue ==
  ASSUME NEW chip, NEW s, NEW p \in Param
  PROVE  /\ p \in DOMAIN s => Write(chip, s)[p] = s[p]
         /\ p \notin DOMAIN s => Write(chip, s)[p] = chip[p]
  BY DEF Write

LEMMA PartType ==
  ASSUME NEW s, IsSettings(s), NEW S \in SUBSET DOMAIN s
  PROVE  Part(s, S) \in Settings /\ DOMAIN Part(s, S) = S /\ IsSettings(Part(s, S))
<1>1. Part(s, S) \in [S -> Value] /\ S \subseteq Param
  BY DEF Part, IsSettings
<1>2. DOMAIN Part(s, S) = S /\ \A p \in S : Part(s, S)[p] = s[p]
  BY DEF Part
<1>3. IsSettings(Part(s, S))
  BY <1>2 DEF IsSettings
<1>4. QED
  BY <1>1, <1>2, <1>3 DEF Settings

LEMMA CutsType == ASSUME NEW S, NEW cut \in Cuts(S) PROVE cut \subseteq S
  BY DEF Cuts

\* A write that fails half way leaves a typed chip and touches only the cut.
LEMMA CutWrite ==
  ASSUME NEW chip \in [Param -> Value], NEW s, IsSettings(s), NEW cut \in Cuts(DOMAIN s)
  PROVE  /\ Write(chip, Part(s, cut)) \in [Param -> Value]
         /\ cut \subseteq Param
         /\ \A p \in Param \ cut : Write(chip, Part(s, cut))[p] = chip[p]
<1>1. cut \subseteq DOMAIN s
  BY CutsType
<1>2. DOMAIN Part(s, cut) = cut /\ IsSettings(Part(s, cut))
  BY <1>1, PartType
<1>3. Write(chip, Part(s, cut)) \in [Param -> Value]
  BY <1>2, WriteType
<1>4. QED
  BY <1>1, <1>2, <1>3, WriteValue DEF IsSettings

\* The step under way is one the program may have.
LEMMA HereOK == ASSUME TypeInv, Running PROVE StepOK(Here)
<1>1. pc \in 1..Len(program)
  BY DEF TypeInv, Running
<1>2. QED
  BY <1>1 DEF TypeInv, Here

\* The innermost handle is a handle, and the rest are those before it.
LEMMA Pop ==
  ASSUME TypeInv, handles # <<>>
  PROVE  /\ Len(handles) \in Nat \ {0}
         /\ Innermost \in Handle /\ IsSettings(Innermost.saved)
         /\ Popped \in Seq(Handle) /\ Len(Popped) = Len(handles) - 1
         /\ \A i \in 1..(Len(handles) - 1) : Popped[i] = handles[i]
<1> DEFINE n == Len(handles)
<1>1. n \in Nat \ {0} /\ \A i \in 1..n : handles[i] \in Handle
  BY DEF TypeInv
<1>2. Innermost \in Handle /\ IsSettings(Innermost.saved)
  BY <1>1, SettingsType DEF Innermost, Handle
<1> HIDE DEF n
<1>3. /\ SubSeq(handles, 1, n - 1) \in Seq(Handle)
      /\ Len(SubSeq(handles, 1, n - 1)) = n - 1
      /\ \A i \in 1..(n - 1) : SubSeq(handles, 1, n - 1)[i] = handles[i]
  <2>1. 1 \in Int /\ n - 1 \in Int /\ \A i \in 1..(n - 1) : handles[i] \in Handle
    BY <1>1
  <2>2. /\ SubSeq(handles, 1, n - 1) \in Seq(Handle)
        /\ Len(SubSeq(handles, 1, n - 1)) = IF 1 <= n - 1 THEN n - 1 - 1 + 1 ELSE 0
        /\ \A i \in 1..(n - 1 - 1 + 1) : SubSeq(handles, 1, n - 1)[i] = handles[1 + i - 1]
    BY <2>1, SubSeqProperties
  <2>3. QED
    BY <1>1, <2>2
<1>4. QED
  BY <1>1, <1>2, <1>3 DEF n, Popped

\* The parameters that are kept somewhere.
LEMMA NamedBy ==
  ASSUME TypeInv
  PROVE  /\ \A p : p \in Named <=> \E i \in 1..Len(handles) : p \in DOMAIN handles[i].saved
         /\ Named \subseteq Param
<1>1. DOMAIN handles = 1..Len(handles) /\ \A i \in 1..Len(handles) : handles[i] \in Handle
  BY DEF TypeInv
<1>2. \A i \in 1..Len(handles) : DOMAIN handles[i].saved \subseteq Param
  BY <1>1, SettingsType DEF Handle, IsSettings
<1>3. QED
  BY <1>1, <1>2 DEF Named
-----------------------------------------------------------------------------
(***************************************************************************)
(* Types.                                                                  *)
(***************************************************************************)
LEMMA OpenType ==
  ASSUME TypeInv, At("open")
  PROVE  /\ IsSettings(Here.set) /\ Touched(Here.set) \subseteq Param
         /\ [saved |-> Part(roc, Touched(Here.set)), restores |-> Here.restores] \in Handle
         /\ DOMAIN Part(roc, Touched(Here.set)) = Touched(Here.set)
         /\ \A p \in Touched(Here.set) : Part(roc, Touched(Here.set))[p] = roc[p]
<1>1. IsSettings(Here.set) /\ Here.restores \in BOOLEAN
  BY HereOK DEF At, StepOK
<1>2. Touched(Here.set) \subseteq Param
  BY <1>1 DEF Touched, IsSettings
<1>3. DOMAIN roc = Param /\ IsSettings(roc)
  BY DEF TypeInv, IsSettings
<1>4. Part(roc, Touched(Here.set)) \in Settings /\ DOMAIN Part(roc, Touched(Here.set)) = Touched(Here.set)
  BY <1>2, <1>3, PartType
<1>5. QED
  BY <1>1, <1>2, <1>4 DEF Handle, Part

LEMMA MenuType ==
  ASSUME TypeInv, ToMenu, roc' \in [Param -> Value], spoiled' \subseteq Param, handles' = <<>>
  PROVE  TypeInv'
<1>1. Len(program') = 0 /\ \A i \in 1..Len(program') : StepOK(program'[i])
  BY DEF ToMenu
<1>2. handles' \in Seq(Handle)
  OBVIOUS
<1>3. throwing' \in BOOLEAN /\ (task' = None => handles' = <<>> /\ ~throwing')
  BY DEF ToMenu
<1>4. QED
  BY <1>1, <1>2, <1>3 DEF ToMenu, TypeInv

LEMMA TypeStep == TypeInv /\ [Next]_vars => TypeInv'
<1> SUFFICES ASSUME TypeInv, [Next]_vars PROVE TypeInv'
  OBVIOUS
<1>1. CASE Begin
  <2>1. PICK t \in Task : task' = t /\ program' = Program[t]
    BY <1>1 DEF Begin
  <2>2. Len(program') \in Nat /\ \A i \in 1..Len(program') : StepOK(program'[i])
    BY <2>1, ProgramAssumption
  <2>3. task' # None
    BY <2>1, BoardAssumption
  <2>4. QED
    BY <1>1, <2>1, <2>2, <2>3 DEF Begin, TypeInv
<1>2. CASE Open
  <2>1. roc' \in [Param -> Value]
    BY <1>2, OpenType, WriteType DEF Open, TypeInv
  <2>2. handles' \in Seq(Handle)
    BY <1>2, OpenType, AppendProperties DEF Open, TypeInv
  <2>3. QED
    BY <1>2, <2>1, <2>2 DEF Open, At, Running, Advance, TypeInv
<1>3. CASE OpenFails
  <2>1. PICK cut \in Cuts(DOMAIN Here.set) :
            roc' = Write(roc, Part(Here.set, cut)) /\ spoiled' = spoiled \cup cut
    BY <1>3 DEF OpenFails
  <2>2. roc' \in [Param -> Value] /\ spoiled' \subseteq Param
    BY <1>3, <2>1, OpenType, CutWrite DEF OpenFails, TypeInv
  <2>3. QED
    BY <1>3, <2>2 DEF OpenFails, At, Running, Raise, TypeInv
<1>4. CASE Close
  <2>1. roc' \in [Param -> Value] /\ handles' \in Seq(Handle)
    <3>1. handles # << >> /\ roc' = Write(roc, Innermost.saved) /\ handles' = Popped
      BY <1>4 DEF Close
    <3>2. IsSettings(Innermost.saved) /\ Popped \in Seq(Handle)
      BY <3>1, Pop
    <3>3. roc \in [Param -> Value]
      BY DEF TypeInv
    <3>4. Write(roc, Innermost.saved) \in [Param -> Value]
      BY <3>2, <3>3, WriteType
    <3>5. QED
      BY <3>1, <3>2, <3>4
  <2>2. QED
    BY <1>4, <2>1 DEF Close, At, Running, Advance, TypeInv
<1>5. CASE PutBackFails
  <2>1. roc' \in [Param -> Value]
    <3>1. handles # << >>
          /\ \E cut \in Cuts(DOMAIN Innermost.saved) :
                roc' = Write(roc, Part(Innermost.saved, cut))
      BY <1>5 DEF PutBackFails
    <3>2. IsSettings(Innermost.saved) /\ roc \in [Param -> Value]
      BY <3>1, Pop DEF TypeInv
    <3>3. QED
      BY <3>1, <3>2, CutWrite
  <2>2. QED
    BY <1>5, <2>1 DEF PutBackFails, At, Running, Raise, TypeInv
<1>6. CASE Return
  BY <1>6 DEF Return, At, Running, Advance, TypeInv
<1>7. CASE Throw
  BY <1>7 DEF Throw, At, Running, Raise, TypeInv
<1>8. CASE ReadCentral
  <2>1. Here.pulse \in Pulse
    BY <1>8, HereOK DEF ReadCentral, At, StepOK
  <2>2. QED
    BY <1>8, <2>1 DEF ReadCentral, At, Running, Advance, TypeInv
<1>9. CASE SetDelay
  <2>1. Here.pulse \in Pulse /\ (Here.op = "shift" => Here.by \in Int) /\ (Here.op = "move" => Here.to \in Int)
    BY <1>9, HereOK DEF SetDelay, At, StepOK
  <2>2. delay' \in [Pulse -> Int]
    BY <1>9, <2>1 DEF SetDelay, At, TypeInv
  <2>3. QED
    BY <1>9, <2>2 DEF SetDelay, At, Running, Advance, TypeInv
<1>10. CASE StandardSetup
  BY <1>10, BoardAssumption DEF StandardSetup, At, Running, Advance, TypeInv
<1>11. CASE Apply
  <2>1. PICK s \in Here.choices : roc' = Write(roc, s) /\ kept' = Write(kept, Part(s, DOMAIN s \ Named))
    BY <1>11 DEF Apply
  <2>2. IsSettings(s)
    BY <1>11, HereOK DEF Apply, At, StepOK
  <2>3. IsSettings(Part(s, DOMAIN s \ Named))
    BY <2>2, PartType
  <2>4. roc' \in [Param -> Value] /\ kept' \in [Param -> Value]
    BY <2>1, <2>2, <2>3, WriteType DEF TypeInv
  <2>5. Running /\ Advance /\ UNCHANGED <<delay, handles, central, settled, spoiled>>
    BY <1>11 DEF Apply, At
  <2>6. QED
    BY <2>4, <2>5 DEF Running, Advance, TypeInv
<1>12. CASE ApplyFails
  <2>1. PICK s \in Here.choices : \E cut \in Cuts(DOMAIN s) :
            roc' = Write(roc, Part(s, cut)) /\ spoiled' = spoiled \cup cut
    BY <1>12 DEF ApplyFails
  <2>2. PICK cut \in Cuts(DOMAIN s) : roc' = Write(roc, Part(s, cut)) /\ spoiled' = spoiled \cup cut
    BY <2>1
  <2>3. IsSettings(s)
    BY <1>12, HereOK DEF ApplyFails, At, StepOK
  <2>4. roc' \in [Param -> Value] /\ spoiled' \subseteq Param
    BY <2>2, <2>3, CutWrite DEF TypeInv
  <2>5. QED
    BY <1>12, <2>4 DEF ApplyFails, At, Running, Raise, TypeInv
<1>13. CASE Unwind
  <2>1. DOMAIN Innermost.saved \subseteq Param
    BY <1>13, Pop DEF Unwind, IsSettings
  <2>2. roc' \in [Param -> Value] /\ handles' \in Seq(Handle)
    BY <1>13, Pop, WriteType DEF Unwind, TypeInv
  <2>3. spoiled' \subseteq Param
    BY <1>13, <2>1 DEF Unwind, TypeInv
  <2>4. QED
    BY <1>13, <2>2, <2>3 DEF Unwind, TypeInv
<1>14. CASE Terminate
  <2>1. PICK cut \in Cuts(DOMAIN Innermost.saved) : roc' = Write(roc, Part(Innermost.saved, cut))
    BY <1>14 DEF Terminate
  <2>2. handles # <<>> /\ roc \in [Param -> Value]
    BY <1>14 DEF Terminate, TypeInv
  <2>3. roc' \in [Param -> Value]
    BY <2>1, <2>2, Pop, CutWrite
  <2>4. spoiled' \subseteq Param
    BY <1>14, NamedBy DEF Terminate, TypeInv
  <2>5. QED
    BY <1>14, <2>3, <2>4, MenuType DEF Terminate
<1>15. CASE Catch
  BY <1>15, MenuType DEF Catch, TypeInv
<1>16. CASE Leave
  <2>1. spoiled' \subseteq Param
    BY <1>16, NamedBy DEF Leave, TypeInv
  <2>2. QED
    BY <1>16, <2>1, MenuType DEF Leave, TypeInv
<1>17. CASE UNCHANGED vars
  BY <1>17 DEF vars, TypeInv
<1>18. QED
  BY <1>1, <1>2, <1>3, <1>4, <1>5, <1>6, <1>7, <1>8, <1>9, <1>10, <1>11, <1>12, <1>13,
     <1>14, <1>15, <1>16, <1>17 DEF Next

LEMMA TypeInit == Init => TypeInv
<1> SUFFICES ASSUME Init PROVE TypeInv
  OBVIOUS
<1>1. /\ handles \in Seq(Handle)
      /\ throwing \in BOOLEAN /\ ~throwing
  <2>1. handles = <<>> /\ throwing = FALSE
    BY DEF Init
  <2>2. handles \in Seq(Handle)
    BY <2>1, EmptySeq
  <2>3. QED
    BY <2>1, <2>2
<1>2. Len(program) = 0 /\ \A i \in 1..Len(program) : StepOK(program[i])
  BY DEF Init
<1>3. roc \in [Param -> Value] /\ delay \in [Pulse -> Int]
  BY BoardAssumption DEF Init
<1>4. /\ kept = roc /\ settled = delay /\ task = None
      /\ pc = 1 /\ begun = 0 /\ central = 0 /\ spoiled = {} /\ handles = <<>>
  BY DEF Init
<1>5. QED
  BY <1>1, <1>2, <1>3, <1>4 DEF TypeInv

\* The type invariant, for every program a task may be.
THEOREM TypeCorrect == Spec => []TypeOK
<1>1. TypeInv => TypeOK
  <2> SUFFICES ASSUME TypeInv PROVE TypeOK
    OBVIOUS
  <2>1. \A i \in 1..Len(handles) : handles[i] \in Handle
    BY DEF TypeInv
  <2>2. \A i \in 1..Len(handles) : IsSettings(handles[i].saved) /\ handles[i].restores \in BOOLEAN
    BY <2>1, SettingsType DEF Handle
  <2>3. QED
    BY <2>2 DEF TypeInv, TypeOK
<1>2. QED
  BY <1>1, TypeInit, TypeStep, PTL DEF Spec
-----------------------------------------------------------------------------
(***************************************************************************)
(* Isolation. A parameter that no handle names has its value of outside,   *)
(* and the outermost handle that names one has kept that value; so every   *)
(* order in which the handles are put back or lost leaves it so, or adds   *)
(* it to the spoiled ones.                                                 *)
(***************************************************************************)
\* What is kept is kept at one of the handles before the innermost, or there.
LEMMA PopNamed ==
  ASSUME TypeInv, TypeInv', handles # <<>>, handles' = Popped
  PROVE  Named = Named' \cup DOMAIN Innermost.saved
<1>1. /\ Len(handles) \in Nat \ {0} /\ Len(handles') = Len(handles) - 1
      /\ \A i \in 1..(Len(handles) - 1) : handles'[i] = handles[i]
  BY Pop
<1>2. \A p : p \in Named <=> \E i \in 1..Len(handles) : p \in DOMAIN handles[i].saved
  BY NamedBy
<1>3. \A p : p \in Named' <=> \E i \in 1..Len(handles') : p \in DOMAIN handles'[i].saved
  <2>1. /\ DOMAIN handles' = 1..Len(handles')
    BY DEF TypeInv
  <2>2. QED
    BY <2>1 DEF Named
<1>4. QED
  BY <1>1, <1>2, <1>3 DEF Innermost

\* What the innermost handle alone keeps is the value of outside.
LEMMA PopKept ==
  ASSUME TypeInv, TypeInv', OutermostInv, handles # <<>>, handles' = Popped,
         NEW p \in DOMAIN Innermost.saved, p \notin Named'
  PROVE  p \in Param /\ Innermost.saved[p] = kept[p]
<1>1. /\ Len(handles) \in Nat \ {0} /\ Len(handles') = Len(handles) - 1
      /\ \A i \in 1..(Len(handles) - 1) : handles'[i] = handles[i]
  BY Pop
<1>2. p \in Param
  BY Pop DEF IsSettings
<1>3. \A j \in 1..(Len(handles) - 1) : p \notin DOMAIN handles[j].saved
  <2>1. DOMAIN handles' = 1..Len(handles')
    BY DEF TypeInv
  <2>2. QED
    BY <1>1, <2>1 DEF Named
<1>4. Outermost(Len(handles), p)
  BY <1>1, <1>3 DEF Outermost, Innermost
<1>5. QED
  BY <1>1, <1>2, <1>4 DEF OutermostInv, Innermost

\* The handles that are left are as outermost as they were.
LEMMA PopOutermost ==
  ASSUME TypeInv, OutermostInv, handles # <<>>, handles' = Popped, kept' = kept
  PROVE  OutermostInv'
<1>1. /\ Len(handles) \in Nat \ {0} /\ Len(handles') = Len(handles) - 1
      /\ \A i \in 1..(Len(handles) - 1) : handles'[i] = handles[i]
  BY Pop
<1>2. QED
  BY <1>1 DEF OutermostInv, Outermost

LEMMA IsolationInit == Init => Inv
<1> SUFFICES ASSUME Init PROVE Inv
  OBVIOUS
<1>1. TypeInv
  BY TypeInit
<1>2. handles = <<>> /\ roc = kept /\ spoiled = {}
  BY DEF Init
<1>3. SpoiledInv /\ Isolation
  BY <1>2 DEF SpoiledInv, Isolation
<1>4. OutermostInv
  BY <1>2 DEF OutermostInv
<1>5. QED
  BY <1>1, <1>3, <1>4 DEF Inv

\* A step that leaves the handles and what is to be outside them alone keeps
\* the outermost handles.
LEMMA SameOutermost ==
  ASSUME OutermostInv, handles' = handles, kept' = kept
  PROVE  OutermostInv' /\ Named' = Named
  BY DEF OutermostInv, Outermost, Named

LEMMA SpoiledStep == ASSUME SpoiledInv, [Next]_vars PROVE SpoiledInv'
<1>1. CASE Open \/ Close \/ Return \/ ReadCentral \/ SetDelay \/ StandardSetup \/ Apply
  BY <1>1 DEF SpoiledInv, Open, Close, Return, ReadCentral, SetDelay, StandardSetup, Apply, Advance
<1>2. CASE OpenFails \/ PutBackFails \/ Throw \/ ApplyFails
  BY <1>2 DEF SpoiledInv, OpenFails, PutBackFails, Throw, ApplyFails, Raise
<1>3. CASE Begin
  BY <1>3 DEF SpoiledInv, Begin
<1>4. CASE Unwind
  BY <1>4 DEF SpoiledInv, Unwind
<1>5. CASE Terminate \/ Catch \/ Leave
  BY <1>5 DEF SpoiledInv, Terminate, Catch, Leave, ToMenu
<1>6. CASE UNCHANGED vars
  BY <1>6 DEF SpoiledInv, vars
<1>7. QED
  BY <1>1, <1>2, <1>3, <1>4, <1>5, <1>6 DEF Next

\* Opening: the new handle is the outermost one only for what no other names.
LEMMA OpenStep == ASSUME Inv, TypeInv', Open PROVE OutermostInv' /\ Isolation'
<1> DEFINE h == [saved |-> Part(roc, Touched(Here.set)), restores |-> Here.restores]
           n == Len(handles)
<1>1. TypeInv /\ OutermostInv /\ Isolation
  BY DEF Inv
<1>2. spoiled = {} /\ spoiled' = {} /\ kept' = kept /\ roc' = Write(roc, Here.set) /\ At("open")
  BY DEF Inv, SpoiledInv, Open, At, Running
<1>3. /\ IsSettings(Here.set) /\ Touched(Here.set) \subseteq Param /\ h \in Handle
      /\ DOMAIN h.saved = Touched(Here.set)
      /\ \A p \in Touched(Here.set) : h.saved[p] = roc[p]
  BY <1>1, <1>2, OpenType
<1>4. DOMAIN Here.set \subseteq Touched(Here.set)
  BY <1>3 DEF Touched, IsSettings
<1>5. /\ n \in Nat /\ Len(handles') = n + 1 /\ handles'[n + 1] = h
      /\ \A i \in 1..n : handles'[i] = handles[i]
  <2>1. handles' = Append(handles, h) /\ handles \in Seq(Handle)
    BY <1>1 DEF Open, TypeInv
  <2> HIDE DEF h
  <2>2. QED
    BY <1>3, <2>1, AppendProperties
<1> HIDE DEF h, n
<1>6. \A p : p \in Named <=> \E i \in 1..n : p \in DOMAIN handles[i].saved
  BY <1>1, NamedBy DEF n
<1>7. \A p : p \in Named' <=> p \in Named \/ p \in DOMAIN h.saved
  <2>1. DOMAIN handles' = 1..Len(handles')
    BY DEF TypeInv
  <2>2. \A p : p \in Named' <=> \E i \in 1..(n + 1) : p \in DOMAIN handles'[i].saved
    BY <1>5, <2>1 DEF Named
  <2>3. QED
    BY <1>5, <1>6, <2>2
<1>8. OutermostInv'
  <2> SUFFICES ASSUME NEW i \in 1..(n + 1), NEW p \in Param, Outermost(i, p)'
               PROVE  handles'[i].saved[p] = kept[p]
    BY <1>2, <1>5 DEF OutermostInv
  <2>1. CASE i \in 1..n
    <3>1. Outermost(i, p)
      BY <1>5, <2>1 DEF Outermost
    <3>2. QED
      BY <1>1, <1>5, <2>1, <3>1 DEF OutermostInv, n
  <2>2. CASE i = n + 1
    <3>1. p \in DOMAIN h.saved /\ \A j \in 1..n : p \notin DOMAIN handles[j].saved
      BY <1>5, <2>2 DEF Outermost
    <3>2. roc[p] = kept[p]
      BY <1>1, <1>2, <1>6, <3>1 DEF Isolation
    <3>3. QED
      BY <1>3, <1>5, <2>2, <3>1, <3>2
  <2>3. QED
    BY <1>5, <2>1, <2>2
<1>9. Isolation'
  <2> SUFFICES ASSUME NEW p \in Param, p \notin Named' PROVE roc'[p] = kept'[p]
    BY DEF Isolation
  <2>1. p \notin Named /\ p \notin DOMAIN Here.set
    BY <1>3, <1>4, <1>7
  <2>2. roc'[p] = roc[p]
    BY <1>2, <2>1, WriteValue
  <2>3. QED
    BY <1>1, <1>2, <2>1, <2>2 DEF Isolation
<1>10. QED
  BY <1>8, <1>9

\* Putting back: what no handle names any more gets the value of outside.
LEMMA PutBackStep ==
  ASSUME Inv, TypeInv', handles # <<>>, handles' = Popped, kept' = kept,
         roc' = Write(roc, Innermost.saved), spoiled \subseteq spoiled' \cup DOMAIN Innermost.saved
  PROVE  OutermostInv' /\ Isolation'
<1>1. TypeInv /\ OutermostInv /\ Isolation
  BY DEF Inv
<1>2. OutermostInv'
  BY <1>1, PopOutermost
<1>3. ASSUME NEW p \in Param, p \notin spoiled', p \notin Named' PROVE roc'[p] = kept'[p]
  <2>1. CASE p \in DOMAIN Innermost.saved
    BY <1>1, <1>3, <2>1, PopKept, WriteValue
  <2>2. CASE p \notin DOMAIN Innermost.saved
    <3>1. p \notin spoiled /\ p \notin Named
      BY <1>1, <1>3, <2>2, PopNamed
    <3>2. roc'[p] = roc[p]
      BY <2>2, WriteValue
    <3>3. QED
      BY <1>1, <3>1, <3>2 DEF Isolation
  <2>3. QED
    BY <2>1, <2>2
<1>4. QED
  BY <1>2, <1>3 DEF Isolation

\* Forgetting: what the handle named is spoiled.
LEMMA ForgetStep ==
  ASSUME Inv, TypeInv', handles # <<>>, handles' = Popped, kept' = kept, roc' = roc,
         spoiled' = spoiled \cup DOMAIN Innermost.saved
  PROVE  OutermostInv' /\ Isolation'
<1>1. TypeInv /\ OutermostInv /\ Isolation
  BY DEF Inv
<1>2. OutermostInv'
  BY <1>1, PopOutermost
<1>3. Named = Named' \cup DOMAIN Innermost.saved
  BY <1>1, PopNamed
<1>4. QED
  BY <1>1, <1>2, <1>3 DEF Isolation

\* A write that fails half way: what it reached is spoiled, or kept somewhere.
LEMMA FailedStep ==
  ASSUME Inv, NEW s, IsSettings(s), NEW cut \in Cuts(DOMAIN s), roc' = Write(roc, Part(s, cut)),
         kept' = kept, spoiled \subseteq spoiled', Named \subseteq spoiled' \cup Named',
         cut \subseteq spoiled' \cup Named'
  PROVE  Isolation'
<1>1. roc \in [Param -> Value] /\ Isolation
  BY DEF Inv, TypeInv
<1>2. \A p \in Param \ cut : roc'[p] = roc[p]
  BY <1>1, CutWrite
<1>3. QED
  BY <1>1, <1>2 DEF Isolation

\* A setting for good changes what is to be outside only where nothing is kept.
LEMMA ApplyStep == ASSUME Inv, Apply PROVE OutermostInv' /\ Isolation'
<1>1. TypeInv /\ OutermostInv /\ Isolation
  BY DEF Inv
<1>2. PICK s \in Here.choices : roc' = Write(roc, s) /\ kept' = Write(kept, Part(s, DOMAIN s \ Named))
  BY DEF Apply
<1>3. handles' = handles /\ Named' = Named /\ spoiled' = spoiled
  BY DEF Apply, Named
<1>4. DOMAIN Part(s, DOMAIN s \ Named) = DOMAIN s \ Named
  BY DEF Part
<1>5. \A p \in Param : p \in Named => kept'[p] = kept[p]
  BY <1>2, <1>4, WriteValue
<1>6. OutermostInv'
  <2> SUFFICES ASSUME NEW i \in 1..Len(handles), NEW p \in Param, Outermost(i, p)'
               PROVE  handles[i].saved[p] = kept'[p]
    BY <1>3 DEF OutermostInv
  <2>1. Outermost(i, p) /\ p \in DOMAIN handles[i].saved
    BY <1>3 DEF Outermost
  <2>2. p \in Named
    BY <1>1, <2>1, NamedBy
  <2>3. QED
    BY <1>1, <1>5, <2>1, <2>2 DEF OutermostInv
<1>7. Isolation'
  <2> SUFFICES ASSUME NEW p \in Param, p \notin spoiled, p \notin Named PROVE roc'[p] = kept'[p]
    BY <1>3 DEF Isolation
  <2>1. CASE p \in DOMAIN s
    <3>1. Part(s, DOMAIN s \ Named)[p] = s[p]
      BY <2>1 DEF Part
    <3>2. QED
      BY <1>2, <1>4, <2>1, <3>1, WriteValue
  <2>2. CASE p \notin DOMAIN s
    BY <1>1, <1>2, <1>4, <2>2, WriteValue DEF Isolation
  <2>3. QED
    BY <2>1, <2>2
<1>8. QED
  BY <1>6, <1>7

LEMMA IsolationStep == ASSUME Inv, [Next]_vars PROVE Inv'
<1>1. TypeInv /\ SpoiledInv /\ OutermostInv /\ Isolation
  BY DEF Inv
<1>2. TypeInv' /\ SpoiledInv'
  BY <1>1, TypeStep, SpoiledStep
<1>3. CASE Begin
  <2>1. handles = <<>> /\ handles' = <<>> /\ roc' = kept'
    BY <1>1, <1>3 DEF Begin, TypeInv
  <2>2. QED
    BY <1>2, <2>1 DEF Inv, OutermostInv, Isolation
<1>4. CASE Open
  BY <1>2, <1>4, OpenStep DEF Inv
<1>5. CASE OpenFails
  <2>1. PICK cut \in Cuts(DOMAIN Here.set) :
            roc' = Write(roc, Part(Here.set, cut)) /\ spoiled' = spoiled \cup cut
    BY <1>5 DEF OpenFails
  <2>2. handles' = handles /\ kept' = kept /\ At("open")
    BY <1>5 DEF OpenFails
  <2>3. OutermostInv' /\ Named' = Named
    BY <1>1, <2>2, SameOutermost
  <2>4. Isolation'
    BY <1>1, <2>1, <2>2, <2>3, OpenType, FailedStep
  <2>5. QED
    BY <1>2, <2>3, <2>4 DEF Inv
<1>6. CASE Close
  <2>1. OutermostInv' /\ Isolation'
    BY <1>2, <1>6, PutBackStep DEF Close
  <2>2. QED
    BY <1>2, <2>1 DEF Inv
<1>7. CASE PutBackFails
  <2>1. PICK cut \in Cuts(DOMAIN Innermost.saved) : roc' = Write(roc, Part(Innermost.saved, cut))
    BY <1>7 DEF PutBackFails
  <2>2. handles # <<>> /\ handles' = handles /\ kept' = kept /\ spoiled' = spoiled
    BY <1>7 DEF PutBackFails
  <2>3. OutermostInv' /\ Named' = Named
    BY <1>1, <2>2, SameOutermost
  <2>4. cut \subseteq Named
    BY <1>1, <2>1, <2>2, CutsType, Pop, NamedBy DEF Innermost
  <2>5. IsSettings(Innermost.saved)
    BY <1>1, <2>2, Pop
  <2>6. Isolation'
    BY <2>1, <2>2, <2>3, <2>4, <2>5, FailedStep
  <2>7. QED
    BY <1>2, <2>3, <2>6 DEF Inv
<1>8. CASE Return \/ Throw \/ ReadCentral \/ SetDelay
  <2>1. UNCHANGED <<roc, handles, kept, spoiled>>
    BY <1>8 DEF Return, Throw, ReadCentral, SetDelay
  <2>2. OutermostInv' /\ Named' = Named
    BY <1>1, <2>1, SameOutermost
  <2>3. QED
    BY <1>1, <1>2, <2>1, <2>2 DEF Inv, Isolation
<1>9. CASE StandardSetup
  <2>1. UNCHANGED <<roc, handles, kept, spoiled>>
    BY <1>9 DEF StandardSetup
  <2>2. OutermostInv' /\ Named' = Named
    BY <1>1, <2>1, SameOutermost
  <2>3. QED
    BY <1>1, <1>2, <2>1, <2>2 DEF Inv, Isolation
<1>10. CASE Apply
  BY <1>2, <1>10, ApplyStep DEF Inv
<1>11. CASE ApplyFails
  <2>1. PICK s \in Here.choices : \E cut \in Cuts(DOMAIN s) :
            roc' = Write(roc, Part(s, cut)) /\ spoiled' = spoiled \cup cut
    BY <1>11 DEF ApplyFails
  <2>2. PICK cut \in Cuts(DOMAIN s) : roc' = Write(roc, Part(s, cut)) /\ spoiled' = spoiled \cup cut
    BY <2>1
  <2>3. IsSettings(s)
    BY <1>1, <1>11, HereOK DEF ApplyFails, At, StepOK
  <2>4. handles' = handles /\ kept' = kept
    BY <1>11 DEF ApplyFails
  <2>5. OutermostInv' /\ Named' = Named
    BY <1>1, <2>4, SameOutermost
  <2>6. Isolation'
    BY <2>2, <2>3, <2>4, <2>5, FailedStep
  <2>7. QED
    BY <1>2, <2>5, <2>6 DEF Inv
<1>12. CASE Unwind
  <2>1. handles # <<>> /\ handles' = Popped /\ kept' = kept
    BY <1>12 DEF Unwind
  <2>2. CASE Innermost.restores
    <3>1. roc' = Write(roc, Innermost.saved) /\ spoiled' = spoiled \ DOMAIN Innermost.saved
      BY <1>12, <2>2 DEF Unwind
    <3>2. QED
      BY <1>2, <2>1, <3>1, PutBackStep DEF Inv
  <2>3. CASE ~Innermost.restores
    <3>1. roc' = roc /\ spoiled' = spoiled \cup DOMAIN Innermost.saved
      BY <1>12, <2>3 DEF Unwind
    <3>2. QED
      BY <1>2, <2>1, <3>1, ForgetStep DEF Inv
  <2>4. QED
    BY <2>2, <2>3
<1>13. CASE Terminate
  <2>1. PICK cut \in Cuts(DOMAIN Innermost.saved) : roc' = Write(roc, Part(Innermost.saved, cut))
    BY <1>13 DEF Terminate
  <2>2. handles # <<>> /\ handles' = <<>> /\ kept' = kept /\ spoiled' = spoiled \cup Named
    BY <1>13 DEF Terminate, ToMenu
  <2>3. cut \subseteq Named
    BY <1>1, <2>1, <2>2, CutsType, Pop, NamedBy DEF Innermost
  <2>4. IsSettings(Innermost.saved)
    BY <1>1, <2>2, Pop
  <2>5. Isolation'
    BY <2>1, <2>2, <2>3, <2>4, FailedStep
  <2>6. OutermostInv'
    BY <2>2 DEF OutermostInv
  <2>7. QED
    BY <1>2, <2>5, <2>6 DEF Inv
<1>14. CASE Catch
  <2>1. UNCHANGED <<roc, handles, kept, spoiled>>
    BY <1>14 DEF Catch, ToMenu
  <2>2. OutermostInv' /\ Named' = Named
    BY <1>1, <2>1, SameOutermost
  <2>3. QED
    BY <1>1, <1>2, <2>1, <2>2 DEF Inv, Isolation
<1>15. CASE Leave
  <2>1. handles' = <<>> /\ kept' = kept /\ roc' = roc /\ spoiled' = spoiled \cup Named
    BY <1>15 DEF Leave, ToMenu
  <2>2. OutermostInv'
    BY <2>1 DEF OutermostInv
  <2>3. QED
    BY <1>1, <1>2, <2>1, <2>2 DEF Inv, Isolation
<1>16. CASE UNCHANGED vars
  <2>1. UNCHANGED <<roc, handles, kept, spoiled>>
    BY <1>16 DEF vars
  <2>2. OutermostInv' /\ Named' = Named
    BY <1>1, <2>1, SameOutermost
  <2>3. QED
    BY <1>1, <1>2, <2>1, <2>2 DEF Inv, Isolation
<1>17. QED
  BY <1>3, <1>4, <1>5, <1>6, <1>7, <1>8, <1>9, <1>10, <1>11, <1>12, <1>13, <1>14, <1>15, <1>16
     DEF Next

\* Whatever a task does to the chips is put back, told to stay, or known as
\* spoiled, for every program of a task and any number of tasks.
THEOREM IsolationCorrect == Spec => []Isolation
<1>1. Inv => Isolation
  BY DEF Inv
<1>2. Inv /\ [Next]_vars => Inv'
  BY IsolationStep
<1>3. QED
  BY <1>1, <1>2, IsolationInit, PTL DEF Spec
-----------------------------------------------------------------------------
(***************************************************************************)
(* What the steps of a program so far say about the handles, the delays    *)
(* and the centre.                                                         *)
(***************************************************************************)
SoFarInv ==
    task # None /\ ~throwing =>
        /\ program = Program[task] /\ pc \in 1..(Len(program) + 1)
        /\ Len(handles) = Depth(program, pc)
        /\ \A pulse \in Pulse :
              /\ Home(program, pc, pulse) => delay[pulse] = settled[pulse]
              /\ \A by : ShiftedBy(program, pc, pulse, by) => delay[pulse] = settled[pulse] + by
              /\ Centred(program, pc, pulse) => central = settled[pulse]

\* What a step adds to what is open.
Gain(step) == IF step.op = "open" THEN 1 ELSE IF step.op = "close" THEN -1 ELSE 0

LEMMA DepthNext ==
  ASSUME NEW steps, NEW n \in Nat \ {0}
  PROVE  Depth(steps, n) \in Int /\ Depth(steps, n + 1) = Depth(steps, n) + Gain(steps[n])
<1> DEFINE Count(op, m) == {i \in 1..(m - 1) : steps[i].op = op}
<1>1. ASSUME NEW op
      PROVE  /\ Cardinality(Count(op, n)) \in Nat
             /\ Cardinality(Count(op, n + 1)) =
                   Cardinality(Count(op, n)) + (IF steps[n].op = op THEN 1 ELSE 0)
  <2>1. IsFiniteSet(Count(op, n))
    <3>1. IsFiniteSet(1..(n - 1))
      BY FS_Interval
    <3>2. QED
      BY <3>1, FS_Subset
  <2>2. n \notin Count(op, n)
    OBVIOUS
  <2>3. Count(op, n + 1) = IF steps[n].op = op THEN Count(op, n) \cup {n} ELSE Count(op, n)
    <3>1. \A i : i \in 1..(n + 1 - 1) <=> i \in 1..(n - 1) \/ i = n
      OBVIOUS
    <3>2. QED
      BY <3>1
  <2> HIDE DEF Count
  <2>4. Cardinality(Count(op, n)) \in Nat
    BY <2>1, FS_CardinalityType
  <2>5. Cardinality(Count(op, n) \cup {n}) = Cardinality(Count(op, n)) + 1
    BY <2>1, <2>2, FS_AddElement
  <2>6. QED
    BY <2>3, <2>4, <2>5
<1>2. \A m : Opens(steps, m) = Count("open", m) /\ Closes(steps, m) = Count("close", m)
  BY DEF Opens, Closes
<1> HIDE DEF Count
<1> DEFINE o == Cardinality(Count("open", n))
           o2 == Cardinality(Count("open", n + 1))
           c == Cardinality(Count("close", n))
           c2 == Cardinality(Count("close", n + 1))
<1>3. /\ o \in Nat /\ c \in Nat
      /\ o2 = o + (IF steps[n].op = "open" THEN 1 ELSE 0)
      /\ c2 = c + (IF steps[n].op = "close" THEN 1 ELSE 0)
  BY <1>1
<1>4. Depth(steps, n) = o - c /\ Depth(steps, n + 1) = o2 - c2
  BY <1>2 DEF Depth
<1> HIDE DEF o, o2, c, c2
<1>5. CASE steps[n].op = "open"
  BY <1>3, <1>4, <1>5 DEF Gain
<1>6. CASE steps[n].op = "close"
  BY <1>3, <1>4, <1>6 DEF Gain
<1>7. CASE steps[n].op # "open" /\ steps[n].op # "close"
  BY <1>3, <1>4, <1>7 DEF Gain
<1>8. QED
  BY <1>5, <1>6, <1>7

LEMMA DepthNone == ASSUME NEW steps PROVE Depth(steps, 1) = 0
<1>1. Opens(steps, 1) = {} /\ Closes(steps, 1) = {}
  BY DEF Opens, Closes
<1>2. QED
  BY <1>1, FS_EmptySet DEF Depth

\* The last step that sets a delay is the newest one, or the last before it.
LEMMA LastNext ==
  ASSUME NEW steps, NEW n \in Nat \ {0}, NEW pulse, NEW i \in 1..(n + 1 - 1)
  PROVE  LastSets(steps, i, n + 1, pulse) <=>
            IF Sets(steps[n], pulse) THEN i = n ELSE i \in 1..(n - 1) /\ LastSets(steps, i, n, pulse)
<1>1. CASE i = n
  <2>1. \A j \in (i + 1)..(n + 1 - 1) : FALSE
    BY <1>1
  <2>2. LastSets(steps, i, n + 1, pulse) <=> Sets(steps[n], pulse)
    BY <1>1, <2>1 DEF LastSets
  <2>3. QED
    BY <1>1, <2>2
<1>2. CASE i # n
  <2>1. i \in 1..(n - 1) /\ n \in (i + 1)..(n + 1 - 1)
    BY <1>2
  <2>2. \A j : j \in (i + 1)..(n + 1 - 1) <=> j \in (i + 1)..(n - 1) \/ j = n
    BY <2>1
  <2>3. QED
    BY <1>2, <2>1, <2>2 DEF LastSets
<1>3. QED
  BY <1>1, <1>2

\* A delay that is home after a step was home before, or the step set it.
LEMMA HomeNext ==
  ASSUME NEW steps, NEW n \in Nat \ {0}, NEW pulse, Home(steps, n + 1, pulse)
  PROVE  IF Sets(steps[n], pulse)
         THEN steps[n].op = "standard" \/ (steps[n].op = "shift" /\ steps[n].by = 0)
         ELSE Home(steps, n, pulse)
<1>1. n \in 1..(n + 1 - 1) /\ \A i \in 1..(n - 1) : i \in 1..(n + 1 - 1)
  OBVIOUS
<1>2. CASE Sets(steps[n], pulse)
  <2>1. LastSets(steps, n, n + 1, pulse)
    BY <1>1, <1>2, LastNext
  <2>2. QED
    BY <1>1, <1>2, <2>1 DEF Home
<1>3. CASE ~Sets(steps[n], pulse)
  BY <1>1, <1>3, LastNext DEF Home
<1>4. QED
  BY <1>2, <1>3

\* So is a delay that is off its centre by so much.
LEMMA ShiftedNext ==
  ASSUME NEW steps, NEW n \in Nat \ {0}, NEW pulse, NEW by, ShiftedBy(steps, n + 1, pulse, by)
  PROVE  IF Sets(steps[n], pulse)
         THEN steps[n].op = "shift" /\ steps[n].by = by
         ELSE ShiftedBy(steps, n, pulse, by)
<1>1. PICK i \in 1..(n + 1 - 1) :
        LastSets(steps, i, n + 1, pulse) /\ steps[i].op = "shift" /\ steps[i].by = by
  BY DEF ShiftedBy
<1>2. IF Sets(steps[n], pulse) THEN i = n ELSE i \in 1..(n - 1) /\ LastSets(steps, i, n, pulse)
  BY <1>1, LastNext
<1>3. QED
  BY <1>1, <1>2 DEF ShiftedBy

\* A centre that is known after a step was known before, or the step read it.
LEMMA CentredNext ==
  ASSUME NEW steps, NEW n \in Nat \ {0}, NEW pulse, Centred(steps, n + 1, pulse)
  PROVE  \/ steps[n].op = "read" /\ steps[n].pulse = pulse /\ Home(steps, n, pulse)
         \/ steps[n].op \notin {"read", "standard"} /\ Centred(steps, n, pulse)
<1>1. PICK r \in 1..(n + 1 - 1) :
        /\ steps[r].op = "read" /\ steps[r].pulse = pulse
        /\ Home(steps, r, pulse)
        /\ \A i \in (r + 1)..(n + 1 - 1) : steps[i].op \notin {"read", "standard"}
  BY DEF Centred
<1>2. CASE r = n
  BY <1>1, <1>2
<1>3. CASE r # n
  <2>1. r \in 1..(n - 1) /\ n \in (r + 1)..(n + 1 - 1)
    BY <1>3
  <2>2. \A i \in (r + 1)..(n - 1) : i \in (r + 1)..(n + 1 - 1)
    OBVIOUS
  <2>3. steps[n].op \notin {"read", "standard"}
    BY <1>1, <2>1
  <2>4. Centred(steps, n, pulse)
    BY <1>1, <2>1, <2>2 DEF Centred
  <2>5. QED
    BY <2>3, <2>4
<1>4. QED
  BY <1>2, <1>3

LEMMA SoFarInit == ASSUME Init PROVE SoFarInv
  BY DEF Init, SoFarInv

\* What a task has done so far is known step by step.
LEMMA SoFarAdvance ==
  ASSUME TypeInv, SoFarInv, Running, Advance, Len(handles') = Len(handles) + Gain(Here),
         \A pulse \in Pulse :
            /\ Home(program, pc + 1, pulse) => delay'[pulse] = settled'[pulse]
            /\ \A by : ShiftedBy(program, pc + 1, pulse, by) => delay'[pulse] = settled'[pulse] + by
            /\ Centred(program, pc + 1, pulse) => central' = settled'[pulse]
  PROVE  SoFarInv'
<1>1. /\ pc' = pc + 1 /\ program' = program /\ task' = task
      /\ pc \in Nat \ {0} /\ pc <= Len(program) /\ Len(program) \in Nat
  BY DEF TypeInv, Running, Advance
<1>2. program = Program[task] /\ Len(handles) = Depth(program, pc)
  BY DEF SoFarInv, Running
<1>3. pc + 1 \in 1..(Len(program) + 1)
  BY <1>1
<1>4. Len(handles') = Depth(program, pc + 1)
  BY <1>1, <1>2, DepthNext DEF Here
<1>5. QED
  BY <1>1, <1>2, <1>3, <1>4 DEF SoFarInv

\* A step that leaves the delays and the centre alone.
LEMMA SoFarQuiet ==
  ASSUME TypeInv, SoFarInv, Running, Here.op \notin {"read", "shift", "move", "standard"},
         UNCHANGED <<delay, central, settled>>, NEW pulse \in Pulse
  PROVE  /\ Home(program, pc + 1, pulse) => delay'[pulse] = settled'[pulse]
         /\ \A by : ShiftedBy(program, pc + 1, pulse, by) => delay'[pulse] = settled'[pulse] + by
         /\ Centred(program, pc + 1, pulse) => central' = settled'[pulse]
<1>1. pc \in Nat \ {0} /\ Here = program[pc]
  BY DEF TypeInv, Here
<1>2. ~Sets(program[pc], pulse)
  BY <1>1 DEF Sets
<1>3. /\ Home(program, pc + 1, pulse) => Home(program, pc, pulse)
      /\ \A by : ShiftedBy(program, pc + 1, pulse, by) => ShiftedBy(program, pc, pulse, by)
      /\ Centred(program, pc + 1, pulse) => Centred(program, pc, pulse)
  BY <1>1, <1>2, HomeNext, ShiftedNext, CentredNext
<1>4. QED
  BY <1>3 DEF SoFarInv, Running

LEMMA SoFarStep ==
  ASSUME Centres, TypeInv, SoFarInv, [Next]_vars
  PROVE  SoFarInv'
<1>1. CASE Begin
  <2>1. PICK t \in Task : task' = t /\ program' = Program[t]
    BY <1>1 DEF Begin
  <2>2. pc' = 1 /\ handles' = <<>> /\ settled' = delay /\ delay' = delay /\ Len(program') \in Nat
    BY <1>1, <2>1, ProgramAssumption DEF Begin, TypeInv
  <2>3. pc' \in 1..(Len(program') + 1)
    BY <2>2
  <2>4. Len(handles') = Depth(program', pc')
    BY <2>2, DepthNone
  <2>5. /\ \A pulse \in Pulse : ~Centred(program', pc', pulse)
        /\ \A pulse \in Pulse : \A by : ~ShiftedBy(program', pc', pulse, by)
    BY <2>2 DEF Centred, ShiftedBy
  <2>6. QED
    BY <2>1, <2>2, <2>3, <2>4, <2>5 DEF SoFarInv
<1>2. CASE Open
  <2>1. Len(handles') = Len(handles) + 1 /\ Len(handles) \in Nat
    BY <1>2 DEF Open, TypeInv
  <2>2. Running /\ Advance /\ Here.op = "open" /\ UNCHANGED <<delay, central, settled>>
    BY <1>2 DEF Open, At
  <2>3. QED
    BY <2>1, <2>2, SoFarQuiet, SoFarAdvance DEF Gain
<1>3. CASE Close
  <2>1. handles # <<>> /\ handles' = Popped
    BY <1>3 DEF Close
  <2>2. Len(handles') = Len(handles) - 1 /\ Len(handles) \in Nat
    BY <2>1, Pop
  <2>3. Running /\ Advance /\ Here.op = "close" /\ UNCHANGED <<delay, central, settled>>
    BY <1>3 DEF Close, At
  <2>4. QED
    BY <2>2, <2>3, SoFarQuiet, SoFarAdvance DEF Gain
<1>4. CASE Return
  <2>1. Running /\ Advance /\ Here.op \in {"run", "call"} /\ UNCHANGED <<delay, central, settled, handles>>
    BY <1>4 DEF Return, At
  <2>2. Len(handles) \in Nat
    BY DEF TypeInv
  <2>3. QED
    BY <2>1, <2>2, SoFarQuiet, SoFarAdvance DEF Gain
<1>5. CASE ReadCentral
  <2>1. /\ Running /\ Advance /\ Here.op = "read" /\ central' = delay[Here.pulse]
        /\ UNCHANGED <<delay, settled, handles>>
    BY <1>5 DEF ReadCentral, At
  <2>2. pc \in Nat \ {0} /\ Here = program[pc] /\ Len(handles) \in Nat
    BY DEF TypeInv, Here
  <2>3. ASSUME NEW pulse \in Pulse
        PROVE  /\ Home(program, pc + 1, pulse) => delay'[pulse] = settled'[pulse]
               /\ \A by : ShiftedBy(program, pc + 1, pulse, by) => delay'[pulse] = settled'[pulse] + by
               /\ Centred(program, pc + 1, pulse) => central' = settled'[pulse]
    <3>1. ~Sets(program[pc], pulse)
      BY <2>1, <2>2 DEF Sets
    <3>2. /\ Home(program, pc + 1, pulse) => Home(program, pc, pulse)
          /\ \A by : ShiftedBy(program, pc + 1, pulse, by) => ShiftedBy(program, pc, pulse, by)
          /\ Centred(program, pc + 1, pulse) => Here.pulse = pulse /\ Home(program, pc, pulse)
      BY <2>1, <2>2, <3>1, HomeNext, ShiftedNext, CentredNext
    <3>3. /\ Home(program, pc, pulse) => delay[pulse] = settled[pulse]
          /\ \A by : ShiftedBy(program, pc, pulse, by) => delay[pulse] = settled[pulse] + by
      BY <2>1 DEF SoFarInv, Running
    <3>4. QED
      BY <2>1, <3>2, <3>3
  <2>4. QED
    BY <2>1, <2>2, <2>3, SoFarAdvance DEF Gain
<1>6. CASE SetDelay
  <2>1. /\ Running /\ Advance /\ Here.op \in {"shift", "move"}
        /\ Here.op = "shift" => delay' = [delay EXCEPT ![Here.pulse] = central + Here.by]
        /\ Here.op = "move" => delay' = [delay EXCEPT ![Here.pulse] = Here.to]
        /\ UNCHANGED <<central, settled, handles>>
    BY <1>6 DEF SetDelay, At
  <2>2. pc \in Nat \ {0} /\ Here = program[pc] /\ Len(handles) \in Nat /\ pc \in 1..Len(program)
    BY <2>1 DEF TypeInv, Here, Running
  <2>3. Here.pulse \in Pulse /\ delay \in [Pulse -> Int] /\ settled \in [Pulse -> Int]
    BY <2>1, HereOK DEF StepOK, TypeInv
  <2>4. ASSUME NEW pulse \in Pulse
        PROVE  /\ Home(program, pc + 1, pulse) => delay'[pulse] = settled'[pulse]
               /\ \A by : ShiftedBy(program, pc + 1, pulse, by) => delay'[pulse] = settled'[pulse] + by
               /\ Centred(program, pc + 1, pulse) => central' = settled'[pulse]
    <3>1. Centred(program, pc + 1, pulse) => Centred(program, pc, pulse)
      BY <2>1, <2>2, CentredNext
    <3>2. /\ Home(program, pc, pulse) => delay[pulse] = settled[pulse]
          /\ \A by : ShiftedBy(program, pc, pulse, by) => delay[pulse] = settled[pulse] + by
          /\ Centred(program, pc, pulse) => central = settled[pulse]
          /\ program = Program[task]
      BY <2>1 DEF SoFarInv, Running
    <3>3. CASE Here.pulse # pulse
      <4>1. ~Sets(program[pc], pulse)
        BY <2>1, <2>2, <3>3 DEF Sets
      <4>2. /\ Home(program, pc + 1, pulse) => Home(program, pc, pulse)
            /\ \A by : ShiftedBy(program, pc + 1, pulse, by) => ShiftedBy(program, pc, pulse, by)
        BY <2>2, <4>1, HomeNext, ShiftedNext
      <4>3. delay'[pulse] = delay[pulse]
        BY <2>1, <2>3, <3>3
      <4>4. QED
        BY <2>1, <3>1, <3>2, <4>2, <4>3
    <3>4. CASE Here.pulse = pulse
      <4>1. Sets(program[pc], pulse)
        BY <2>1, <2>2, <3>4 DEF Sets
      <4>2. /\ Home(program, pc + 1, pulse) => Here.op = "shift" /\ Here.by = 0
            /\ \A by : ShiftedBy(program, pc + 1, pulse, by) => Here.op = "shift" /\ Here.by = by
        BY <2>1, <2>2, <4>1, HomeNext, ShiftedNext
      <4>3. ASSUME Here.op = "shift" PROVE delay'[pulse] = settled[pulse] + Here.by
        <5>1. task \in Task
          BY <2>1 DEF TypeInv, Running
        <5>2. Centred(program, pc, pulse)
          BY <2>2, <3>2, <3>4, <4>3, <5>1 DEF Centres
        <5>3. QED
          BY <2>1, <2>3, <3>2, <3>4, <4>3, <5>2
      <4>4. ASSUME Here.op = "shift", Here.by = 0 PROVE delay'[pulse] = settled[pulse]
        <5>1. delay'[pulse] = settled[pulse] + 0
          BY <4>3, <4>4
        <5>2. QED
          BY <2>3, <5>1
      <4>5. QED
        BY <2>1, <3>1, <3>2, <4>2, <4>3, <4>4
    <3>5. QED
      BY <3>3, <3>4
  <2>5. QED
    BY <2>1, <2>2, <2>4, SoFarAdvance DEF Gain
<1>7. CASE StandardSetup
  <2>1. Running /\ Advance /\ Here.op = "standard" /\ delay' = settled' /\ UNCHANGED handles
    BY <1>7 DEF StandardSetup, At
  <2>2. pc \in Nat \ {0} /\ Here = program[pc] /\ Len(handles) \in Nat
    BY DEF TypeInv, Here
  <2>3. \A pulse : ~Centred(program, pc + 1, pulse)
    BY <2>1, <2>2, CentredNext
  <2>4. \A pulse : \A by : ~ShiftedBy(program, pc + 1, pulse, by)
    BY <2>1, <2>2, ShiftedNext DEF Sets
  <2>5. QED
    BY <2>1, <2>2, <2>3, <2>4, SoFarAdvance DEF Gain
<1>8. CASE Apply
  <2>1. Running /\ Advance /\ Here.op = "apply" /\ UNCHANGED <<delay, central, settled, handles>>
    BY <1>8 DEF Apply, At
  <2>2. Len(handles) \in Nat
    BY DEF TypeInv
  <2>3. QED
    BY <2>1, <2>2, SoFarQuiet, SoFarAdvance DEF Gain
<1>9. CASE OpenFails \/ PutBackFails \/ Throw \/ ApplyFails
  <2>1. throwing'
    BY <1>9 DEF OpenFails, PutBackFails, Throw, ApplyFails, Raise
  <2>2. QED
    BY <2>1 DEF SoFarInv
<1>10. CASE Unwind
  <2>1. throwing'
    BY <1>10 DEF Unwind
  <2>2. QED
    BY <2>1 DEF SoFarInv
<1>11. CASE Terminate \/ Catch \/ Leave
  <2>1. task' = None
    BY <1>11 DEF Terminate, Catch, Leave, ToMenu
  <2>2. QED
    BY <2>1 DEF SoFarInv
<1>12. CASE UNCHANGED vars
  BY <1>12 DEF vars, SoFarInv
<1>13. QED
  BY <1>1, <1>2, <1>3, <1>4, <1>5, <1>6, <1>7, <1>8, <1>9, <1>10, <1>11, <1>12 DEF Next

\* A task whose program closes what it opens and brings the delays home leaves, when it
\* comes to its end, nothing open, the chips as told and the delays as they were, for
\* every such program and any number of tasks before it.
THEOREM CleanCorrect == Balanced /\ Centres /\ ReturnsHome => (Spec => []CleanReturn)
<1> SUFFICES ASSUME Balanced, Centres, ReturnsHome PROVE Spec => []CleanReturn
  OBVIOUS
<1>1. Init => Inv /\ SoFarInv
  BY IsolationInit, SoFarInit
<1>2. Inv /\ SoFarInv /\ [Next]_vars => Inv' /\ SoFarInv'
  BY IsolationStep, SoFarStep DEF Inv
<1>3. ASSUME Inv, SoFarInv PROVE CleanReturn
  <2> SUFFICES ASSUME AtEnd PROVE /\ handles = <<>> /\ roc = kept
                                  /\ task \notin Movers => delay = settled
    BY DEF CleanReturn
  <2>1. TypeInv /\ SpoiledInv /\ Isolation /\ task # None /\ ~throwing /\ task \in Task
    <3>1. TypeInv /\ SpoiledInv /\ Isolation
      BY <1>3 DEF Inv
    <3>2. task # None /\ ~throwing
      BY DEF AtEnd
    <3>3. QED
      BY <3>1, <3>2 DEF TypeInv
  <2>2. /\ program = Program[task] /\ pc = Len(program) + 1
        /\ Len(handles) = Depth(program, pc)
        /\ \A pulse \in Pulse : Home(program, pc, pulse) => delay[pulse] = settled[pulse]
    <3>1. /\ program = Program[task] /\ pc \in 1..(Len(program) + 1)
          /\ Len(handles) = Depth(program, pc)
          /\ \A pulse \in Pulse : Home(program, pc, pulse) => delay[pulse] = settled[pulse]
      BY <1>3, <2>1 DEF SoFarInv
    <3>2. pc > Len(program) /\ Len(program) \in Nat
      BY <2>1 DEF AtEnd, TypeInv
    <3>3. pc = Len(program) + 1
      BY <3>1, <3>2
    <3>4. QED
      BY <3>1, <3>3
  <2>3. handles = <<>>
    <3>1. Len(handles) = 0
      BY <2>1, <2>2 DEF Balanced
    <3>2. QED
      BY <2>1, <3>1, EmptySeq DEF TypeInv
  <2>4. roc = kept
    <3>1. spoiled = {} /\ Named = {}
      BY <2>1, <2>3 DEF SpoiledInv, Named
    <3>2. \A p \in Param : roc[p] = kept[p]
      BY <2>1, <3>1 DEF Isolation
    <3>3. QED
      BY <2>1, <3>2 DEF TypeInv
  <2>5. ASSUME task \notin Movers PROVE delay = settled
    <3>1. \A pulse \in Pulse : Home(program, pc, pulse)
      BY <2>1, <2>2, <2>5 DEF ReturnsHome
    <3>2. \A pulse \in Pulse : delay[pulse] = settled[pulse]
      BY <2>2, <2>5, <3>1
    <3>3. QED
      BY <2>1, <3>2 DEF TypeInv
  <2>6. QED
    BY <2>3, <2>4, <2>5
<1>4. QED
  BY <1>1, <1>2, <1>3, PTL DEF Spec
-----------------------------------------------------------------------------
(***************************************************************************)
(* Rows. A parameter that the scopes around a step set has the value of    *)
(* the innermost of them, and the handle of each scope has kept, of what   *)
(* the scopes further out set, the value they set: so it is there again    *)
(* when the scope is closed.                                               *)
(***************************************************************************)
\* Everything from step o to before step n is deeper than o.
Within(steps, o, n) == \A m \in (o + 1)..n : Depth(steps, m) > Depth(steps, o)

\* The k-th handle is that of step o.
Keeps(steps, h, k, o, n) ==
    /\ steps[o].op = "open" /\ Depth(steps, o) = k - 1 /\ Within(steps, o, n)
    /\ DOMAIN h.saved = Touched(steps[o].set)
    /\ \A p \in DOMAIN h.saved : \A v : HasSet(steps, o, p, v) => h.saved[p] = v

KeptInv ==
    task # None /\ ~throwing =>
        \A k \in 1..Len(handles) : \E o \in 1..(pc - 1) : Keeps(program, handles[k], k, o, pc)

SetInv ==
    task # None /\ ~throwing =>
        \A p \in Param : \A v : HasSet(program, pc, p, v) => roc[p] = v

LEMMA StillWithin ==
  ASSUME NEW steps, NEW o, NEW n, NEW p
  PROVE  StillSets(steps, o, n, p) <=>
            steps[o].op = "open" /\ p \in DOMAIN steps[o].set /\ Within(steps, o, n)
  BY DEF StillSets, Within

LEMMA WithinNext ==
  ASSUME NEW steps, NEW n \in Nat \ {0}, NEW o \in 1..n
  PROVE  Within(steps, o, n + 1) <=> Within(steps, o, n) /\ Depth(steps, n + 1) > Depth(steps, o)
<1>1. \A m : m \in (o + 1)..(n + 1) <=> m \in (o + 1)..n \/ m = n + 1
  OBVIOUS
<1>2. QED
  BY <1>1 DEF Within

\* What an open step sets is set by it.
LEMMA SetByOpen ==
  ASSUME NEW steps, NEW n \in Nat \ {0}, NEW p, NEW v, HasSet(steps, n + 1, p, v),
         steps[n].op = "open", p \in DOMAIN steps[n].set
  PROVE  v = steps[n].set[p]
<1>1. PICK o \in 1..(n + 1 - 1) :
        /\ v = steps[o].set[p]
        /\ \A i \in (o + 1)..(n + 1 - 1) : ~StillSets(steps, i, n + 1, p)
  BY DEF HasSet
<1>2. StillSets(steps, n, n + 1, p)
  <2>1. Depth(steps, n) \in Int /\ Depth(steps, n + 1) = Depth(steps, n) + 1
    BY DepthNext DEF Gain
  <2>2. Within(steps, n, n + 1)
    <3>1. \A m \in (n + 1)..(n + 1) : m = n + 1
      OBVIOUS
    <3>2. Depth(steps, n + 1) > Depth(steps, n)
      BY <2>1
    <3>3. QED
      BY <3>1, <3>2 DEF Within
  <2>3. QED
    BY <2>2, StillWithin
<1>3. o = n
  <2>1. o # n => n \in (o + 1)..(n + 1 - 1)
    OBVIOUS
  <2>2. QED
    BY <1>1, <1>2, <2>1
<1>4. QED
  BY <1>1, <1>3

\* What another step that closes nothing finds set was set before, and not by it.
LEMMA SetBefore ==
  ASSUME NEW steps, NEW n \in Nat \ {0}, NEW p, NEW v, HasSet(steps, n + 1, p, v),
         steps[n].op # "close", ~(steps[n].op = "open" /\ p \in DOMAIN steps[n].set)
  PROVE  /\ HasSet(steps, n, p, v)
         /\ steps[n].op = "apply" => \A s \in steps[n].choices : p \notin DOMAIN s
<1>1. PICK o \in 1..(n + 1 - 1) :
        /\ StillSets(steps, o, n + 1, p) /\ v = steps[o].set[p]
        /\ \A i \in (o + 1)..(n + 1 - 1) :
              /\ steps[i].op = "apply" => \A s \in steps[i].choices : p \notin DOMAIN s
              /\ ~StillSets(steps, i, n + 1, p)
  BY DEF HasSet
<1>2. o \in 1..(n - 1) /\ n \in (o + 1)..(n + 1 - 1)
  <2>1. o # n
    BY <1>1, StillWithin
  <2>2. QED
    BY <2>1
<1>3. StillSets(steps, o, n, p)
  BY <1>1, <1>2, StillWithin, WithinNext
<1>4. ASSUME NEW i \in (o + 1)..(n - 1) PROVE i \in (o + 1)..(n + 1 - 1) /\ ~StillSets(steps, i, n, p)
  <2>1. i \in (o + 1)..(n + 1 - 1) /\ i \in 1..n /\ i \in Nat \ {0} /\ n \in (i + 1)..n
    BY <1>2
  <2>2. Depth(steps, i) \in Int /\ Depth(steps, n) \in Int /\ Depth(steps, n + 1) \in Int
        /\ Depth(steps, n + 1) >= Depth(steps, n)
    <3>1. /\ Depth(steps, i) \in Int /\ Depth(steps, n) \in Int
          /\ Depth(steps, n + 1) = Depth(steps, n) + Gain(steps[n]) /\ Gain(steps[n]) \in {0, 1}
      BY <2>1, DepthNext DEF Gain
    <3>2. QED
      BY <3>1
  <2>3. ASSUME StillSets(steps, i, n, p) PROVE FALSE
    <3>1. Depth(steps, n) > Depth(steps, i)
      BY <2>1, <2>3, StillWithin DEF Within
    <3>2. StillSets(steps, i, n + 1, p)
      BY <2>1, <2>2, <2>3, <3>1, StillWithin, WithinNext
    <3>3. QED
      BY <1>1, <2>1, <3>2
  <2>4. QED
    BY <2>1, <2>3
<1>5. HasSet(steps, n, p, v)
  BY <1>1, <1>2, <1>3, <1>4 DEF HasSet
<1>6. QED
  BY <1>1, <1>2, <1>5

\* What the close of scope t finds set was set before the scope; and it is set in
\* the scope too, unless the scope set it.
LEMMA SetAround ==
  ASSUME NEW steps, NEW n \in Nat \ {0}, NEW t \in 1..(n - 1), NEW p, NEW v,
         HasSet(steps, n + 1, p, v), steps[n].op = "close",
         Within(steps, t, n), Depth(steps, n) = Depth(steps, t) + 1
  PROVE  /\ HasSet(steps, t, p, v)
         /\ p \notin DOMAIN steps[t].set => HasSet(steps, n, p, v)
<1> DEFINE d == Depth(steps, t)
<1>1. /\ \A m \in 1..(n + 1) : Depth(steps, m) \in Int
      /\ d \in Int /\ Depth(steps, n) = d + 1 /\ Depth(steps, n + 1) = d
      /\ \A m \in (t + 1)..n : Depth(steps, m) > d
  <2>1. \A m \in 1..(n + 1) : Depth(steps, m) \in Int
    BY DepthNext
  <2>2. Depth(steps, n + 1) = Depth(steps, n) + -1
    BY DepthNext DEF Gain
  <2>3. d \in Int
    BY <2>1
  <2>4. Depth(steps, n + 1) = d
    BY <2>2, <2>3
  <2>5. QED
    BY <2>1, <2>3, <2>4 DEF Within
<1>2. PICK o \in 1..(n + 1 - 1) :
        /\ StillSets(steps, o, n + 1, p) /\ v = steps[o].set[p]
        /\ \A i \in (o + 1)..(n + 1 - 1) :
              /\ steps[i].op = "apply" => \A s \in steps[i].choices : p \notin DOMAIN s
              /\ ~StillSets(steps, i, n + 1, p)
  BY DEF HasSet
<1>3. o \in 1..(t - 1) /\ d > Depth(steps, o)
  <2>1. Depth(steps, n + 1) > Depth(steps, o)
    <3>1. n + 1 \in (o + 1)..(n + 1)
      OBVIOUS
    <3>2. QED
      BY <1>2, <3>1, StillWithin DEF Within
  <2>2. d > Depth(steps, o)
    BY <1>1, <2>1
  <2>3. Depth(steps, o) \in Int
    BY <1>1
  <2>4. o # t
    BY <2>2, <1>1
  <2>5. o \notin (t + 1)..n
    BY <1>1, <2>2, <2>3
  <2>6. QED
    BY <2>2, <2>4, <2>5
<1> HIDE DEF d
<1>4. /\ StillSets(steps, o, t, p) /\ StillSets(steps, o, n, p)
  <2>1. (\A m \in (o + 1)..t : m \in (o + 1)..(n + 1)) /\ (\A m \in (o + 1)..n : m \in (o + 1)..(n + 1))
    OBVIOUS
  <2>2. QED
    BY <1>2, <2>1, StillWithin DEF Within
<1>5. HasSet(steps, t, p, v)
  <2>1. ASSUME NEW i \in (o + 1)..(t - 1), StillSets(steps, i, t, p) PROVE FALSE
    <3>1. t \in (i + 1)..t /\ i \in (o + 1)..(n + 1 - 1) /\ i \in 1..(n + 1)
      BY <1>3
    <3>2. d > Depth(steps, i) /\ Depth(steps, i) \in Int
      BY <1>1, <2>1, <3>1, StillWithin DEF Within, d
    <3>3. \A m \in (i + 1)..(n + 1) : Depth(steps, m) > Depth(steps, i)
      <4>1. \A m \in (i + 1)..t : Depth(steps, m) > Depth(steps, i)
        BY <2>1, StillWithin DEF Within
      <4>2. ASSUME NEW m \in (t + 1)..n PROVE Depth(steps, m) > Depth(steps, i)
        <5>1. Depth(steps, m) > d /\ Depth(steps, m) \in Int
          BY <1>1
        <5>2. QED
          BY <1>1, <3>2, <5>1
      <4>3. Depth(steps, n + 1) > Depth(steps, i)
        BY <1>1, <3>2
      <4>4. \A m \in (i + 1)..(n + 1) : m \in (i + 1)..t \/ m \in (t + 1)..n \/ m = n + 1
        OBVIOUS
      <4>5. QED
        BY <4>1, <4>2, <4>3, <4>4
    <3>4. StillSets(steps, i, n + 1, p)
      BY <2>1, <3>3, StillWithin DEF Within
    <3>5. QED
      BY <1>2, <3>1, <3>4
  <2>2. \A i \in (o + 1)..(t - 1) : i \in (o + 1)..(n + 1 - 1)
    OBVIOUS
  <2>3. QED
    BY <1>2, <1>3, <1>4, <2>1, <2>2 DEF HasSet
<1>6. ASSUME p \notin DOMAIN steps[t].set PROVE HasSet(steps, n, p, v)
  <2>1. ASSUME NEW i \in (o + 1)..(n - 1), StillSets(steps, i, n, p) PROVE FALSE
    <3>1. /\ n \in (i + 1)..n /\ i \in (o + 1)..(n + 1 - 1) /\ i \in 1..(n + 1) /\ i \in 1..n
      BY <1>3
    <3>2. d + 1 > Depth(steps, i) /\ Depth(steps, i) \in Int
      BY <1>1, <2>1, <3>1, StillWithin DEF Within
    <3>3. i # t
      BY <1>6, <2>1, StillWithin
    <3>4. i \notin (t + 1)..n
      BY <1>1, <3>2
    <3>5. i < t /\ t \in (i + 1)..n
      BY <3>1, <3>3, <3>4
    <3>6. d > Depth(steps, i)
      BY <2>1, <3>5, StillWithin DEF Within, d
    <3>7. Within(steps, i, n + 1)
      BY <1>1, <2>1, <3>1, <3>6, StillWithin, WithinNext
    <3>8. QED
      BY <1>2, <2>1, <3>1, <3>7, StillWithin
  <2>2. o \in 1..(n - 1) /\ \A i \in (o + 1)..(n - 1) : i \in (o + 1)..(n + 1 - 1)
    BY <1>3
  <2>3. QED
    BY <1>2, <1>4, <2>1, <2>2 DEF HasSet
<1>7. QED
  BY <1>5, <1>6

LEMMA RowsInit == ASSUME Init PROVE KeptInv /\ SetInv
  BY DEF Init, KeptInv, SetInv

\* A handle that is there before and after a step keeps what it kept.
LEMMA KeptNext ==
  ASSUME TypeInv, SoFarInv, KeptInv, Running, Advance, SoFarInv', Len(handles') \in Nat,
         NEW k \in 1..Len(handles), k <= Len(handles'), handles'[k] = handles[k]
  PROVE  \E o \in 1..(pc' - 1) : Keeps(program', handles'[k], k, o, pc')
<1>1. PICK o \in 1..(pc - 1) : Keeps(program, handles[k], k, o, pc)
  BY DEF KeptInv, Running
<1>2. pc' = pc + 1 /\ program' = program /\ pc \in Nat \ {0} /\ o \in 1..(pc' - 1) /\ o \in 1..pc
  BY DEF Advance, TypeInv
<1>3. Depth(program, pc + 1) = Len(handles')
  BY <1>2 DEF SoFarInv, Advance, Running
<1>4. Depth(program, pc + 1) > Depth(program, o)
  BY <1>1, <1>3 DEF Keeps, TypeInv
<1>5. Within(program, o, pc + 1)
  BY <1>1, <1>2, <1>4, WithinNext DEF Keeps
<1>6. QED
  BY <1>1, <1>2, <1>5 DEF Keeps

\* Steps that neither open nor close keep the handles.
LEMMA KeptSame ==
  ASSUME TypeInv, SoFarInv, KeptInv, Running, Advance, SoFarInv', handles' = handles
  PROVE  KeptInv'
<1>1. Len(handles') = Len(handles) /\ Len(handles) \in Nat
  BY DEF TypeInv
<1>2. QED
  BY <1>1, KeptNext DEF KeptInv

\* Steps that write nothing find set what was set before.
LEMMA SetSame ==
  ASSUME TypeInv, SetInv, Running, Advance, Here.op \notin {"open", "close"}, roc' = roc
  PROVE  SetInv'
<1>1. pc' = pc + 1 /\ program' = program /\ pc \in Nat \ {0} /\ Here = program[pc]
  BY DEF Advance, TypeInv, Here
<1>2. \A p : \A v : HasSet(program, pc + 1, p, v) => HasSet(program, pc, p, v)
  BY <1>1, SetBefore
<1>3. QED
  BY <1>1, <1>2 DEF SetInv, Running

LEMMA RowsOpen ==
  ASSUME TypeInv, SoFarInv, KeptInv, SetInv, SoFarInv', Open
  PROVE  KeptInv' /\ SetInv'
<1> DEFINE h == [saved |-> Part(roc, Touched(Here.set)), restores |-> Here.restores]
           n == Len(handles)
<1>1. /\ Running /\ Advance /\ Here.op = "open" /\ At("open")
      /\ roc' = Write(roc, Here.set) /\ handles' = Append(handles, h)
  BY DEF Open, At
<1>2. pc' = pc + 1 /\ program' = program /\ pc \in Nat \ {0} /\ Here = program[pc]
  BY <1>1 DEF Advance, TypeInv, Here
<1>3. /\ IsSettings(Here.set) /\ Touched(Here.set) \subseteq Param /\ h \in Handle
      /\ DOMAIN h.saved = Touched(Here.set)
      /\ \A p \in Touched(Here.set) : h.saved[p] = roc[p]
  BY <1>1, OpenType
<1> HIDE DEF h
<1>4. /\ n \in Nat /\ Len(handles') = n + 1 /\ handles'[n + 1] = h
      /\ \A i \in 1..n : handles'[i] = handles[i]
  BY <1>1, <1>3, AppendProperties DEF TypeInv
<1>5. /\ n = Depth(program, pc)
      /\ \A p \in Param : \A v : HasSet(program, pc, p, v) => roc[p] = v
      /\ task # None /\ ~throwing
  BY <1>1 DEF SoFarInv, SetInv, Running
<1>6. Keeps(program, h, n + 1, pc, pc + 1)
  <2>1. Depth(program, pc) = n + 1 - 1 /\ Depth(program, pc + 1) = n + 1
    <3>1. Depth(program, pc + 1) = Depth(program, pc) + 1
      BY <1>1, <1>2, DepthNext DEF Gain
    <3>2. QED
      BY <1>4, <1>5, <3>1
  <2>2. Within(program, pc, pc + 1)
    <3>1. \A m \in (pc + 1)..(pc + 1) : m = pc + 1
      BY <1>2
    <3>2. Depth(program, pc + 1) > Depth(program, pc)
      BY <1>4, <2>1
    <3>3. QED
      BY <3>1, <3>2 DEF Within
  <2>3. QED
    BY <1>1, <1>2, <1>3, <1>5, <2>1, <2>2 DEF Keeps
<1>7. KeptInv'
  <2>1. \A k \in 1..n : \E o \in 1..(pc' - 1) : Keeps(program', handles'[k], k, o, pc')
    BY <1>1, <1>4, KeptNext
  <2>2. pc \in 1..(pc' - 1) /\ \A k \in 1..(n + 1) : k \in 1..n \/ k = n + 1
    BY <1>2, <1>4
  <2>3. QED
    BY <1>2, <1>4, <1>6, <2>1, <2>2 DEF KeptInv
<1>8. SetInv'
  <2> SUFFICES ASSUME NEW p \in Param, NEW v, HasSet(program, pc + 1, p, v) PROVE roc'[p] = v
    BY <1>2 DEF SetInv
  <2>1. CASE p \in DOMAIN Here.set
    BY <1>1, <1>2, <2>1, SetByOpen, WriteValue
  <2>2. CASE p \notin DOMAIN Here.set
    <3>1. HasSet(program, pc, p, v)
      BY <1>1, <1>2, <2>2, SetBefore
    <3>2. roc'[p] = roc[p]
      BY <1>1, <2>2, WriteValue
    <3>3. QED
      BY <1>5, <3>1, <3>2
  <2>3. QED
    BY <2>1, <2>2
<1>9. QED
  BY <1>7, <1>8

LEMMA RowsClose ==
  ASSUME TypeInv, SoFarInv, KeptInv, SetInv, SoFarInv', Close
  PROVE  KeptInv' /\ SetInv'
<1> DEFINE n == Len(handles)
<1>1. /\ Running /\ Advance /\ Here.op = "close" /\ handles # <<>> /\ handles' = Popped
      /\ roc' = Write(roc, Innermost.saved)
  BY DEF Close, At
<1>2. pc' = pc + 1 /\ program' = program /\ pc \in Nat \ {0} /\ Here = program[pc]
  BY <1>1 DEF Advance, TypeInv, Here
<1>3. /\ n \in Nat \ {0} /\ Len(handles') = n - 1 /\ Innermost = handles[n]
      /\ \A i \in 1..(n - 1) : handles'[i] = handles[i]
  BY <1>1, Pop DEF Innermost
<1>4. /\ n = Depth(program, pc)
      /\ \A p \in Param : \A v : HasSet(program, pc, p, v) => roc[p] = v
      /\ task # None /\ ~throwing
  BY <1>1 DEF SoFarInv, SetInv, Running
<1>5. KeptInv'
  <2>1. \A k \in 1..(n - 1) : k \in 1..Len(handles) /\ k <= Len(handles') /\ Len(handles') \in Nat
    BY <1>3
  <2>2. QED
    BY <1>1, <1>3, <2>1, KeptNext DEF KeptInv
<1>6. PICK o \in 1..(pc - 1) : Keeps(program, Innermost, n, o, pc)
  BY <1>3, <1>4 DEF KeptInv
<1>7. SetInv'
  <2> SUFFICES ASSUME NEW p \in Param, NEW v, HasSet(program, pc + 1, p, v) PROVE roc'[p] = v
    BY <1>2 DEF SetInv
  <2>1. Depth(program, pc) = Depth(program, o) + 1
    BY <1>3, <1>4, <1>6 DEF Keeps
  <2>2. /\ HasSet(program, o, p, v)
        /\ p \notin DOMAIN program[o].set => HasSet(program, pc, p, v)
    BY <1>1, <1>2, <1>6, <2>1, SetAround DEF Keeps
  <2>3. CASE p \in DOMAIN Innermost.saved
    <3>1. Innermost.saved[p] = v
      BY <1>6, <2>2, <2>3 DEF Keeps
    <3>2. QED
      BY <1>1, <2>3, <3>1, WriteValue
  <2>4. CASE p \notin DOMAIN Innermost.saved
    <3>1. p \notin DOMAIN program[o].set
      BY <1>6, <2>4 DEF Keeps, Touched
    <3>2. QED
      BY <1>1, <1>4, <2>2, <2>4, <3>1, WriteValue
  <2>5. QED
    BY <2>3, <2>4
<1>8. QED
  BY <1>5, <1>7

LEMMA RowsApply ==
  ASSUME TypeInv, SoFarInv, KeptInv, SetInv, SoFarInv', Apply
  PROVE  KeptInv' /\ SetInv'
<1>1. Running /\ Advance /\ Here.op = "apply" /\ handles' = handles
  BY DEF Apply, At
<1>2. PICK s \in Here.choices : roc' = Write(roc, s)
  BY DEF Apply
<1>3. pc' = pc + 1 /\ program' = program /\ pc \in Nat \ {0} /\ Here = program[pc]
  BY <1>1 DEF Advance, TypeInv, Here
<1>4. SetInv'
  <2> SUFFICES ASSUME NEW p \in Param, NEW v, HasSet(program, pc + 1, p, v) PROVE roc'[p] = v
    BY <1>3 DEF SetInv
  <2>1. HasSet(program, pc, p, v) /\ p \notin DOMAIN s
    BY <1>1, <1>2, <1>3, SetBefore
  <2>2. roc[p] = v
    BY <1>1, <2>1 DEF SetInv, Running
  <2>3. QED
    BY <1>2, <2>1, <2>2, WriteValue
<1>5. QED
  BY <1>1, <1>4, KeptSame

LEMMA RowsStep ==
  ASSUME TypeInv, SoFarInv, KeptInv, SetInv, SoFarInv', [Next]_vars
  PROVE  KeptInv' /\ SetInv'
<1>1. CASE Begin
  <2>1. handles' = <<>> /\ pc' = 1
    BY <1>1 DEF Begin, TypeInv
  <2>2. \A p : \A v : ~HasSet(program', 1, p, v)
    BY DEF HasSet
  <2>3. QED
    BY <2>1, <2>2 DEF KeptInv, SetInv
<1>2. CASE Open
  BY <1>2, RowsOpen
<1>3. CASE Close
  BY <1>3, RowsClose
<1>4. CASE Apply
  BY <1>4, RowsApply
<1>5. CASE Return \/ ReadCentral \/ SetDelay \/ StandardSetup
  <2>1. /\ Running /\ Advance /\ handles' = handles /\ roc' = roc
        /\ Here.op \in {"run", "call", "read", "shift", "move", "standard"}
    BY <1>5 DEF Return, ReadCentral, SetDelay, StandardSetup, At
  <2>2. QED
    BY <2>1, KeptSame, SetSame
<1>6. CASE OpenFails \/ PutBackFails \/ Throw \/ ApplyFails \/ Unwind
  <2>1. throwing'
    BY <1>6 DEF OpenFails, PutBackFails, Throw, ApplyFails, Unwind, Raise
  <2>2. QED
    BY <2>1 DEF KeptInv, SetInv
<1>7. CASE Terminate \/ Catch \/ Leave
  <2>1. task' = None
    BY <1>7 DEF Terminate, Catch, Leave, ToMenu
  <2>2. QED
    BY <2>1 DEF KeptInv, SetInv
<1>8. CASE UNCHANGED vars
  BY <1>8 DEF vars, KeptInv, SetInv
<1>9. QED
  BY <1>1, <1>2, <1>3, <1>4, <1>5, <1>6, <1>7, <1>8 DEF Next

\* When data is taken, the chips hold what the row's columns say and the delays are as
\* far off as its time says, for every program whose rows claim what the scopes around
\* them set, but for what is marked wrong: whatever was thrown, spoiled or left behind by the tasks before.
THEOREM RowsCorrect == Centres /\ RowsNamed => (Spec => []RowsTrue)
<1> SUFFICES ASSUME Centres, RowsNamed PROVE Spec => []RowsTrue
  OBVIOUS
<1> DEFINE I == TypeInv /\ SoFarInv /\ KeptInv /\ SetInv
<1>1. Init => I
  BY TypeInit, SoFarInit, RowsInit
<1>2. I /\ [Next]_vars => I'
  BY TypeStep, SoFarStep, RowsStep
<1>3. ASSUME I PROVE RowsTrue
  <2> SUFFICES ASSUME At("run")
               PROVE  /\ \A p \in DOMAIN Here.columns \ Here.wrong : roc[p] = Here.columns[p]
                      /\ \A t \in Here.time \ Here.untimed : delay[t.pulse] = settled[t.pulse] + t.by
    BY DEF RowsTrue
  <2>1. Running /\ Here.op = "run" /\ Here = program[pc] /\ task # None /\ ~throwing
    BY DEF At, Running, Here
  <2>2. task \in Task /\ program = Program[task] /\ pc \in 1..Len(program)
    BY <1>3, <2>1 DEF TypeInv, SoFarInv, Running
  <2>3. /\ \A p \in DOMAIN Here.columns \ Here.wrong :
              p \in Param /\ HasSet(program, pc, p, Here.columns[p])
        /\ \A x \in Here.time \ Here.untimed :
              x.pulse \in Pulse /\ ShiftedBy(program, pc, x.pulse, x.by)
    BY <2>1, <2>2 DEF RowsNamed
  <2>4. QED
    BY <1>3, <2>1, <2>3 DEF SetInv, SoFarInv
<1>4. QED
  BY <1>1, <1>2, <1>3, PTL DEF Spec
=============================================================================
