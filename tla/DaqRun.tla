------------------------------- MODULE DaqRun -------------------------------
(***************************************************************************)
(* A scan of pftool: for every parameter point the chip is configured, a   *)
(* run of NEvents triggers is taken with daq_run, and every event read     *)
(* back is handed to the consumer, which writes it beside the parameter    *)
(* point it believes it was taken at (app/tool/tasks, app/tool/daq_run).   *)
(*                                                                         *)
(* Two actors share the hardware: the program (one thread) and the         *)
(* front-end, which captures one sample per L1A and moves it, some time    *)
(* later, into the FIFO that the program reads.  The program never waits   *)
(* for a sample: it sleeps to keep the trigger rate and then reads         *)
(* whatever is there.  Timely states the assumption the sleep stands for.  *)
(*                                                                         *)
(* An L1A is taken to come with its request.  On the mapped block it comes *)
(* up to an orbit later, which is before the chip can be set again, and a  *)
(* request made meanwhile adds none (MergeL1A).                            *)
(***************************************************************************)
EXTENDS Integers, Sequences, FiniteSets

CONSTANTS
    Boards,        \* the targets considered
    NScans,        \* scans taken one after the other; each calls setup_run
    NPoints,       \* parameter points of a scan
    NEvents,       \* events per daq_run
    SampleChoices, \* values the user enters for Samples/ROR
    SoiChoices,    \* values the user enters for the sample of interest on a target
                   \* with so many samples; none: not with so many samples
    FieldSize,     \* 2^5 on the Bittware: the L1A_PER_ROR field wraps here
    Timely,        \* TRUE: when the pause is over no request is pending and
                   \* every sample is in the FIFO
    MaxExternal    \* bound on the external triggers of a behaviour

ASSUME BoardAssumption == Boards \subseteq {"fiberless", "zcu", "bittware"}
ASSUME SizeAssumption ==
    /\ NScans \in Nat /\ NPoints \in Nat /\ NEvents \in Nat
    /\ FieldSize \in Nat \ {0} /\ MaxExternal \in Nat
    /\ SampleChoices \subseteq Nat /\ SoiChoices \in [Boards \X SampleChoices -> SUBSET Int]
ASSUME TimelyAssumption == Timely \in BOOLEAN

VARIABLES
    board,      \* which Target the session runs on
    pc,         \* where the program is
    samples,    \* DAQ::samples_
    soi,        \* DAQ::soi_
    l1aPerRor,  \* FastControl::l1a_per_ror_
    scan,       \* scans finished
    point,      \* i_param_point: the point being taken, 1..NPoints
    ievt,       \* loop variable of daq_run
    il1a,       \* loop variable of sendROR
    buf,        \* the vector read_event_sw_headers is building
    roc,        \* the setting on the chip: a point, or 0 for "as before"
    frontend,   \* samples captured, not yet in the FIFO
    fifo,       \* samples in the capture block's FIFO
    l1a,        \* L1As the front-end has received
    ext,        \* external triggers so far
    delivered,  \* history: the events given to the consumer
    lost,       \* history: samples removed from the FIFO without being read
    cleared     \* history: samples dropped by the resets of setup_run

progVars == <<pc, samples, soi, l1aPerRor, scan, point, ievt, il1a, buf>>
hwVars   == <<board, roc, frontend, fifo, l1a, ext>>
histVars == <<delivered, lost, cleared>>
vars     == <<progVars, hwVars, histVars>>

Locations == {"idle", "clear_run", "scan", "trigger", "pause", "read",
              "advance", "test_end", "done"}

(***************************************************************************)
(* A sample is known by the ordinal of its L1A; ror is the trigger command *)
(* it belongs to (<<scan, point, event>>, or External) and tag the setting *)
(* that was on the chip when it was taken.  Data is what getLinkData       *)
(* returns: a sample, or NoSample when the FIFO is empty.                  *)
(***************************************************************************)
External == <<0, 0, 0>>
Sample   == [id : Nat \ {0}, ror : Nat \X Nat \X Nat, tag : Nat]
NoSample == [id |-> 0, ror |-> External, tag |-> 0]
Subpacket == [index : Nat, soi : BOOLEAN, data : Sample \cup {NoSample}]
Event == [scan : Nat, point : Nat, ievt : Nat, subpackets : Seq(Subpacket)]

Ids(s) == {s[i].id : i \in DOMAIN s}

\* The subpackets of every event, the one under construction last.
Batches == Append([i \in DOMAIN delivered |-> delivered[i].subpackets], buf)
ReadIds ==
    (UNION {{b[k].data.id : k \in DOMAIN b} : b \in {Batches[i] : i \in DOMAIN Batches}}) \ {0}

\* The trigger command the program is sending or has sent last.
Ror == <<scan + 1, point, ievt>>

TypeOK ==
    /\ board \in Boards
    /\ pc \in Locations
    /\ samples \in Nat /\ soi \in Nat /\ l1aPerRor \in Nat
    /\ scan \in Nat /\ point \in Nat /\ ievt \in Nat /\ il1a \in Nat
    /\ buf \in Seq(Subpacket)
    /\ roc \in Nat
    /\ frontend \in Seq(Sample) /\ fifo \in Seq(Sample)
    /\ l1a \in Nat /\ ext \in Nat
    /\ delivered \in Seq(Event)
    /\ lost \subseteq Nat /\ cleared \subseteq Nat

Init ==
    /\ board \in Boards
    /\ pc = "idle"
    /\ samples = 1 /\ soi = 0 /\ l1aPerRor = 1
    /\ scan = 0 /\ point = 0 /\ ievt = 0 /\ il1a = 0
    /\ buf = <<>>
    /\ roc = 0 /\ frontend = <<>> /\ fifo = <<>> /\ l1a = 0 /\ ext = 0
    /\ delivered = <<>> /\ lost = {} /\ cleared = {}
-----------------------------------------------------------------------------
(***************************************************************************)
(* The front-end (external hardware).                                      *)
(***************************************************************************)

\* One L1A: the front-end captures one sample under the chip's setting.
L1A(ror) ==
    /\ l1a' = l1a + 1
    /\ frontend' = Append(frontend, [id |-> l1a + 1, ror |-> ror, tag |-> roc])

\* The oldest captured sample reaches the FIFO of the capture block.
Arrive ==
    /\ frontend # <<>>
    /\ fifo' = Append(fifo, Head(frontend))
    /\ frontend' = Tail(frontend)
    /\ UNCHANGED <<board, progVars, roc, l1a, ext, histVars>>

\* fc_enables(true, true): triggers that the program did not send.
ExternalTrigger ==
    /\ board = "bittware" /\ ext < MaxExternal
    /\ ext' = ext + 1
    /\ L1A(External)
    /\ UNCHANGED <<board, progVars, roc, fifo, histVars>>
-----------------------------------------------------------------------------
(***************************************************************************)
(* DAQ.SETUP.CONFIG and setup_run.                                         *)
(***************************************************************************)

\* Mutated form: the sample of interest is kept as the user typed it.
RawSoi(n, s) == s

\* DAQ::setup keeps a sample of interest that is inside the event.
SanitizedSoi(n, s) == IF s < 0 \/ s > n - 1 THEN 0 ELSE s

\* BWFastControl::setL1AperROR keeps the bits its register has.
KeptL1AperROR(n) == IF board = "bittware" THEN n % FieldSize ELSE n

\* daq.setup(econid, samples, soi); fc.setL1AperROR(samples)
Configure ==
    /\ pc = "idle"
    /\ \E n \in SampleChoices : \E s \in SoiChoices[board, n] :
          /\ samples' = n
          /\ soi' = SanitizedSoi(n, s)
          /\ l1aPerRor' = KeptL1AperROR(n)
    /\ UNCHANGED <<pc, scan, point, ievt, il1a, buf, hwVars, histVars>>

\* Mutated form: the reset of the FIFO does not take.
DaqResetKeepsFifo ==
    /\ pc = "idle" /\ scan < NScans
    /\ cleared' = cleared \cup Ids(fifo)
    /\ pc' = "clear_run"
    /\ UNCHANGED <<board, samples, soi, l1aPerRor, scan, point, ievt, il1a, buf,
                   roc, fifo, frontend, l1a, ext, delivered, lost>>

\* setup_run, first half: daq().reset() empties the FIFO.
DaqReset ==
    /\ pc = "idle" /\ scan < NScans
    /\ fifo' = <<>>
    /\ cleared' = cleared \cup Ids(fifo)
    /\ pc' = "clear_run"
    /\ UNCHANGED <<board, samples, soi, l1aPerRor, scan, point, ievt, il1a, buf,
                   roc, frontend, l1a, ext, delivered, lost>>

\* setup_run, second half: fc().clear_run() sends a buffer reset.
ClearRun ==
    /\ pc = "clear_run"
    /\ frontend' = <<>>
    /\ cleared' = cleared \cup Ids(frontend)
    /\ pc' = "scan"
    /\ UNCHANGED <<board, samples, soi, l1aPerRor, scan, point, ievt, il1a, buf,
                   roc, fifo, l1a, ext, delivered, lost>>
-----------------------------------------------------------------------------
(***************************************************************************)
(* The scan loop of a task: test parameters around every daq_run.          *)
(***************************************************************************)

\* Mutated form: daq_run starts with the parameters not yet applied.
StartUnapplied ==
    /\ pc = "scan" /\ point < NPoints
    /\ point' = point + 1
    /\ ievt' = 0 /\ il1a' = 0
    /\ pc' = IF NEvents = 0 THEN "test_end" ELSE "trigger"
    /\ UNCHANGED <<board, samples, soi, l1aPerRor, scan, buf,
                   roc, frontend, fifo, l1a, ext, histVars>>

\* testParameters()...apply() puts the next point on the chip; daq_run starts.
ApplyPoint ==
    /\ pc = "scan" /\ point < NPoints
    /\ point' = point + 1
    /\ roc' = point + 1
    /\ ievt' = 0 /\ il1a' = 0
    /\ pc' = IF NEvents = 0 THEN "test_end" ELSE "trigger"
    /\ UNCHANGED <<board, samples, soi, l1aPerRor, scan, buf,
                   frontend, fifo, l1a, ext, histVars>>

\* The handle goes out of scope: the previous setting returns to the chip.
EndPoint ==
    /\ pc = "test_end"
    /\ roc' = 0
    /\ pc' = "scan"
    /\ UNCHANGED <<board, samples, soi, l1aPerRor, scan, point, ievt, il1a, buf,
                   frontend, fifo, l1a, ext, histVars>>

\* All the points are taken: back to the menu.
EndScan ==
    /\ pc = "scan" /\ point = NPoints
    /\ scan' = scan + 1
    /\ point' = 0
    /\ pc' = IF scan + 1 = NScans THEN "done" ELSE "idle"
    /\ UNCHANGED <<samples, soi, l1aPerRor, ievt, il1a, buf, hwVars, histVars>>
-----------------------------------------------------------------------------
(***************************************************************************)
(* daq_run: trigger, pause, read_event, consume, NEvents times.            *)
(***************************************************************************)

\* FastControl::sendROR, one turn of its loop.
SendL1A ==
    /\ pc = "trigger" /\ il1a < l1aPerRor
    /\ il1a' = il1a + 1
    /\ L1A(Ror)
    /\ UNCHANGED <<board, pc, samples, soi, l1aPerRor, scan, point, ievt, buf,
                   roc, fifo, ext, histVars>>

\* FastControlCMS_MMap::sendL1A sets a bit that clears itself when the L1A goes out:
\* while a request is pending another adds nothing.  None is pending after the chip
\* was set, or after a pause that is long enough.
MergeL1A ==
    /\ pc = "trigger" /\ il1a < l1aPerRor
    /\ board # "bittware"
    /\ il1a > 0 \/ (ievt > 0 /\ ~Timely)
    /\ il1a' = il1a + 1
    /\ UNCHANGED <<pc, samples, soi, l1aPerRor, scan, point, ievt, buf, hwVars, histVars>>

\* The trigger has been sent.
EndROR ==
    /\ pc = "trigger" /\ il1a = l1aPerRor
    /\ pc' = "pause"
    /\ UNCHANGED <<samples, soi, l1aPerRor, scan, point, ievt, il1a, buf,
                   hwVars, histVars>>

\* Mutated form: the loop of daq_run runs once more.
NextEventOffByOne ==
    /\ ievt' = ievt + 1
    /\ il1a' = 0
    /\ pc' = IF ievt < NEvents THEN "trigger" ELSE "test_end"

\* Where the loop of daq_run goes after event ievt.
NextEvent ==
    /\ ievt' = ievt + 1
    /\ il1a' = 0
    /\ pc' = IF ievt + 1 < NEvents THEN "trigger" ELSE "test_end"

\* usleep(usec_ahead), then read_event starts with an empty buffer.
StartRead ==
    /\ pc = "pause"
    /\ Timely => frontend = <<>>
    /\ board = "fiberless" => fifo # <<>>
    /\ buf' = <<>>
    /\ pc' = "read"
    /\ UNCHANGED <<samples, soi, l1aPerRor, scan, point, ievt, il1a,
                   hwVars, histVars>>

\* Mutated form: read_event waits until has_event().
WaitForEvent ==
    /\ pc = "pause"
    /\ board = "fiberless" /\ fifo = <<>>
    /\ UNCHANGED vars

\* Only HcalFiberless asks has_event(); daq_run skips the empty event.
SkipEvent ==
    /\ pc = "pause"
    /\ Timely => frontend = <<>>
    /\ board = "fiberless" /\ fifo = <<>>
    /\ NextEvent
    /\ UNCHANGED <<samples, soi, l1aPerRor, scan, point, buf, hwVars, histVars>>

\* getLinkData(0): the oldest sample, which stays in the FIFO.
LinkData == IF fifo = <<>> THEN NoSample ELSE Head(fifo)

\* One turn of read_event_sw_headers up to the header and the data.
GetLinkData ==
    /\ pc = "read" /\ Len(buf) < samples
    /\ buf' = Append(buf, [index |-> Len(buf),
                           soi   |-> Len(buf) = soi,
                           data  |-> LinkData])
    /\ pc' = "advance"
    /\ UNCHANGED <<samples, soi, l1aPerRor, scan, point, ievt, il1a,
                   hwVars, histVars>>

\* Mutated form: the pointer only moves when another sample is waiting.
AdvanceKeepsLast ==
    /\ pc = "advance"
    /\ pc' = "read"
    /\ fifo' = IF Len(fifo) <= 1 THEN fifo ELSE Tail(fifo)
    /\ UNCHANGED <<board, samples, soi, l1aPerRor, scan, point, ievt, il1a, buf,
                   roc, frontend, l1a, ext, delivered, lost, cleared>>

\* Mutated form: both read pointers, IO and AXIS, are advanced.
AdvanceTwice ==
    /\ pc = "advance"
    /\ pc' = "read"
    /\ fifo' = SubSeq(fifo, 3, Len(fifo))
    /\ lost' = lost \cup ({fifo[i].id : i \in {1, 2} \cap DOMAIN fifo}
                         \ {buf[Len(buf)].data.id})
    /\ UNCHANGED <<board, samples, soi, l1aPerRor, scan, point, ievt, il1a, buf,
                   roc, frontend, l1a, ext, delivered, cleared>>

\* advanceLinkReadPtr(): whatever is oldest now leaves the FIFO.
AdvanceLinkReadPtr ==
    /\ pc = "advance"
    /\ pc' = "read"
    /\ fifo' = IF fifo = <<>> THEN fifo ELSE Tail(fifo)
    /\ lost' = lost \cup {i \in {LinkData.id} \ {0} : i # buf[Len(buf)].data.id}
    /\ UNCHANGED <<board, samples, soi, l1aPerRor, scan, point, ievt, il1a, buf,
                   roc, frontend, l1a, ext, delivered, cleared>>

\* consumer.consume(event): the event is recorded beside the point of the run.
Consume ==
    /\ pc = "read" /\ Len(buf) = samples
    /\ delivered' = Append(delivered, [scan |-> scan + 1, point |-> point,
                                       ievt |-> ievt, subpackets |-> buf])
    /\ buf' = <<>>
    /\ NextEvent
    /\ UNCHANGED <<samples, soi, l1aPerRor, scan, point, hwVars, lost, cleared>>

\* pftool exits.
Terminated == pc = "done" /\ UNCHANGED vars
-----------------------------------------------------------------------------
Program ==
    \/ DaqReset \/ ClearRun \/ ApplyPoint \/ EndPoint \/ EndScan
    \/ SendL1A \/ MergeL1A \/ EndROR \/ StartRead \/ SkipEvent
    \/ GetLinkData \/ AdvanceLinkReadPtr \/ Consume

Next == Configure \/ Program \/ Arrive \/ ExternalTrigger \/ Terminated

Spec == Init /\ [][Next]_vars

\* The program's thread runs; the front-end need not deliver anything.
ProgramSpec == Spec /\ WF_vars(Program)

\* The program's thread runs; the front-end forwards what it captured.
FairSpec == Spec /\ WF_vars(Program) /\ WF_vars(Arrive)

-----------------------------------------------------------------------------
(***************************************************************************)
(* What must hold however late the samples are.                            *)
(***************************************************************************)

\* InOrder: no sample is written twice and none after a younger one, over all
\* the events of a session: read_event_sw_headers peeks the FIFO and advances it
\* in two calls while the front-end keeps filling it, and setup_run resets the
\* FIFO before it silences the front-end.
InOrder ==
    \A i, j \in DOMAIN Batches :
        \A k \in DOMAIN Batches[i], m \in DOMAIN Batches[j] :
            /\ i < j \/ (i = j /\ k < m)
            /\ Batches[i][k].data.id # 0
            /\ Batches[j][m].data.id # 0
            => Batches[i][k].data.id < Batches[j][m].data.id

\* The head of the FIFO that getLinkData has read and not yet advanced past.
Peeked == IF pc = "advance" THEN {buf[Len(buf)].data.id} \ {0} ELSE {}

\* Accounting: every L1A the front-end received is in exactly one place: on its
\* way, in the FIFO, in an event, dropped by a reset of setup_run, or thrown away
\* unread by advanceLinkReadPtr.
Accounting ==
    LET places == <<Ids(frontend), Ids(fifo) \ Peeked, ReadIds, cleared, lost>>
    IN  /\ UNION {places[i] : i \in DOMAIN places} = 1..l1a
        /\ \A i, j \in DOMAIN places : i # j => places[i] \cap places[j] = {}

EmptySubpackets ==
    UNION {{<<i, k>> : k \in {k \in DOMAIN Batches[i] : Batches[i][k].data.id = 0}}
           : i \in DOMAIN Batches}

\* LossBound: a sample is thrown away unread only by a read that found the FIFO
\* empty, and each such read throws away one sample at most: what an event lacks
\* bounds what the data set lost for good.
LossBound == Cardinality(lost) <= Cardinality(EmptySubpackets)

\* OneSoi: every event with at least one sample marks exactly one of them as the
\* sample of interest, whatever the user answered in DAQ.SETUP.CONFIG.
OneSoi ==
    \A e \in {delivered[i] : i \in DOMAIN delivered} :
        e.subpackets # <<>> =>
            Cardinality({k \in DOMAIN e.subpackets : e.subpackets[k].soi}) = 1

\* SettingHeld: a sample is taken under the setting of the point its trigger was
\* sent for, even when it is read much later and filed under another point.
SettingHeld ==
    LET captured == {frontend[i] : i \in DOMAIN frontend}
                    \cup {fifo[i] : i \in DOMAIN fifo}
                    \cup UNION {{b[k].data : k \in DOMAIN b}
                                : b \in {Batches[i] : i \in DOMAIN Batches}}
    IN  \A d \in captured : d.ror # External => d.tag = d.ror[2]

\* ScanEnds: a scan the user starts comes back to the menu, even when the link to
\* the front-end is dead and no sample ever arrives: daq_run waits by the clock,
\* never for data.
ScanEnds == pc \notin {"idle", "done"} ~> pc \in {"idle", "done"}
-----------------------------------------------------------------------------
(***************************************************************************)
(* When the pause is long enough (Timely) the output is the record the     *)
(* user expects.  An entry of the abstract log is an event with the        *)
(* trigger and the setting of each of its samples.                         *)
(***************************************************************************)
Logged(e) ==
    [trigger |-> <<e.scan, e.point, e.ievt>>,
     samples |-> [k \in DOMAIN e.subpackets |->
                    [ror |-> e.subpackets[k].data.ror, tag |-> e.subpackets[k].data.tag]]]

Record == INSTANCE ScanRecord
    WITH log <- [i \in DOMAIN delivered |-> Logged(delivered[i])]

\* RecordSpec: with timely samples, no trigger but its own, and a request for each
\* sample only where requests do not merge, a session writes exactly one complete
\* entry per trigger, in order, and writes them all.
RecordSpec == Record!Spec
=============================================================================
