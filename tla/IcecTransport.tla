--------------------------- MODULE IcecTransport ----------------------------
(***************************************************************************)
(* Register access to a lpGBT through the IC/EC bridge of the firmware     *)
(* (zcu/lpGBT_ICEC_ZCU_Simple.cxx, bittware/bittware_optolink.cxx).  The   *)
(* program loads bytes into a transmit FIFO, starts a frame and polls a    *)
(* status bit; the lpGBT answers a read, some time later, with a frame of  *)
(* header and data bytes that lands in a receive FIFO.  Neither FIFO is    *)
(* reset between two calls, the frames carry no tag, and the poll gives up *)
(* after a while: an answer may meet another question than its own.        *)
(*                                                                         *)
(* The poll loop is left out but for its two ends, the status bit seen and *)
(* the count of 1000 run out, which may happen as long as the bit is not   *)
(* there.                                                                  *)
(***************************************************************************)
EXTENDS Integers, Sequences, SequencesExt

CONSTANTS
    Bridge,     \* "zcu" or "bittware"
    Registers,  \* number of lpGBT registers, from 0
    Values,     \* what a register holds
    Chunk,      \* bytes of a frame: 8 in the code
    Header,     \* bytes before the data of an answer: 6 in the code
    MaxTries,   \* attempts of the Bittware at a frame: 4 in the code
    Runaway,    \* bytes after which the Bittware stops draining: 100 in the code
    Reads,      \* <<reg, n>> of the reads the callers make
    Writes,     \* <<reg, values>> of the writes
    MaxCalls,   \* bound on the calls of a behaviour
    MaxLost     \* bound on the answers that never come

ASSUME BridgeAssumption == Bridge \in {"zcu", "bittware"}
ASSUME SizeAssumption ==
    /\ Values \subseteq Nat
    /\ Registers \in Nat /\ Chunk \in Nat \ {0} /\ Header \in Nat
    /\ MaxTries \in Nat \ {0} /\ Runaway \in Nat /\ MaxCalls \in Nat /\ MaxLost \in Nat
ASSUME CallAssumption ==
    /\ \A c \in Reads : c[1] \in Nat /\ c[2] \in Nat \ {0} /\ c[1] + c[2] <= Registers
    /\ \A c \in Writes :
          c[1] \in Nat /\ c[2] \in Seq(Values) \ {<<>>} /\ c[1] + Len(c[2]) <= Registers

VARIABLES
    pc,       \* where the program is
    call,     \* the call under way or the last one
    off,      \* registers of the call handled by finished frames
    wc, ic,   \* bytes drained or loaded: of the call, of the frame
    tries,    \* attempts at the frame
    got,      \* data bytes of the frame
    result,   \* data bytes of the finished frames
    tx, rx,   \* the FIFOs of the bridge
    pending,  \* frames started and not yet served by the lpGBT
    wire,     \* bytes of answers under way
    mem,      \* the registers of the lpGBT
    calls, lost,
    expected, \* history: what the writes that returned should have left
    warned    \* history: a call has thrown, or has printed its concern

prog == <<pc, call, off, wc, ic, tries, got, result>>
link == <<tx, rx, pending, wire, mem>>
hist == <<calls, lost, expected, warned>>
vars == <<prog, link, hist>>

Address == 0..(Registers - 1)
\* A byte of a header, told apart from data.
HeaderByte == -1

TypeOK ==
    /\ pc \in {"idle", "start_read", "poll_rx", "drain", "load", "poll_tx"}
    /\ call.kind \in {"none", "read", "write"}
    /\ off \in 0..Registers /\ wc \in Nat /\ ic \in 0..Chunk
    /\ tries \in 0..(MaxTries - 1)
    /\ Len(got) <= Chunk /\ Len(result) <= Registers
    /\ \A b \in ToSet(tx) : b \in Values
    /\ mem \in [Address -> Values] /\ expected \in [Address -> Values]
    /\ warned \in BOOLEAN

Init ==
    /\ pc = "idle" /\ call = [kind |-> "none"]
    /\ off = 0 /\ wc = 0 /\ ic = 0 /\ tries = 0 /\ got = <<>> /\ result = <<>>
    /\ tx = <<>> /\ rx = <<>> /\ pending = <<>> /\ wire = <<>>
    /\ mem \in {[a \in Address |-> v] : v \in Values}
    /\ calls = 0 /\ lost = 0 /\ expected = mem /\ warned = FALSE
-----------------------------------------------------------------------------
(***************************************************************************)
(* The lpGBT and the bridge (external hardware).                           *)
(***************************************************************************)
Answer(reg, n) == [i \in 1..Header |-> HeaderByte] \o [i \in 1..n |-> mem[reg + i - 1]]

\* The oldest frame is a read: its answer sets out.
ServeRead ==
    /\ pending # <<>> /\ Head(pending).kind = "read"
    /\ wire' = wire \o Answer(Head(pending).reg, Head(pending).n)
    /\ pending' = Tail(pending)
    /\ UNCHANGED <<prog, tx, rx, mem, hist>>

\* The answer, or the frame that asked for it, gets lost.
LoseAnswer ==
    /\ pending # <<>> /\ Head(pending).kind = "read" /\ lost < MaxLost
    /\ lost' = lost + 1
    /\ pending' = Tail(pending)
    /\ UNCHANGED <<prog, tx, rx, wire, mem, calls, expected, warned>>

\* The oldest frame is a write: what is in the transmit FIFO goes to the
\* registers from the address of the frame on.
ServeWrite ==
    /\ pending # <<>> /\ Head(pending).kind = "write"
    /\ mem' = [a \in Address |->
                  LET i == a - Head(pending).reg + 1
                  IN  IF i \in DOMAIN tx THEN tx[i] ELSE mem[a]]
    /\ tx' = <<>>
    /\ pending' = Tail(pending)
    /\ UNCHANGED <<prog, rx, wire, hist>>

\* The bytes of an answer reach the receive FIFO one by one, and the program may
\* be faster ("this seems to be sometimes too fast...").
ByteArrives ==
    /\ wire # <<>>
    /\ rx' = Append(rx, Head(wire))
    /\ wire' = Tail(wire)
    /\ UNCHANGED <<prog, tx, pending, mem, hist>>
-----------------------------------------------------------------------------
(***************************************************************************)
(* read_regs.                                                              *)
(***************************************************************************)
Less(a, b) == IF a < b THEN a ELSE b

\* Registers of the frame under way: the recursion splits a read at 8.
Size == Less(Chunk, call.n - off)

CallRead ==
    /\ pc = "idle" /\ calls < MaxCalls
    /\ \E c \in Reads : call' = [kind |-> "read", reg |-> c[1], n |-> c[2]]
    /\ calls' = calls + 1
    /\ off' = 0 /\ tries' = 0 /\ result' = <<>> /\ got' = <<>> /\ wc' = 0
    /\ pc' = "start_read"
    /\ UNCHANGED <<ic, link, lost, expected, warned>>

\* Address, length and MASK_START_READ are written.
StartRead ==
    /\ pc = "start_read"
    /\ pending' = Append(pending, [kind |-> "read", reg |-> call.reg + off, n |-> Size])
    /\ got' = <<>> /\ wc' = 0
    /\ pc' = "poll_rx"
    /\ UNCHANGED <<call, off, ic, tries, result, tx, rx, wire, mem, hist>>

\* An exception leaves the call: the FIFOs stay as they are.
Fail ==
    /\ pc' = "idle" /\ warned' = TRUE
    /\ call' = [kind |-> "none"]
    /\ UNCHANGED <<off, wc, ic, tries, got, result, link, calls, lost, expected>>

\* Mutated form: the poll goes on for ever.
ReadTimeoutNever == pc = "poll_rx" /\ rx = <<>> /\ UNCHANGED vars

\* timeout == 0 in the poll for an answer.
ReadTimeout == pc = "poll_rx" /\ rx = <<>> /\ Fail

TooLong == Bridge = "bittware" /\ wc > Runaway

\* One byte of the receive FIFO; the header and what is too much are dropped.
DrainByte ==
    /\ pc \in {"poll_rx", "drain"} /\ rx # <<>> /\ ~TooLong
    /\ got' = IF wc >= Header /\ Len(got) < Size THEN Append(got, Head(rx)) ELSE got
    /\ wc' = wc + 1
    /\ rx' = Tail(rx)
    /\ pc' = "drain"
    /\ UNCHANGED <<call, off, ic, tries, result, tx, pending, wire, mem, hist>>

\* "Read register runaway".
DrainRunaway == pc = "drain" /\ TooLong /\ Fail

Drained == pc = "drain" /\ rx = <<>> /\ ~TooLong

\* The Bittware compares the size with what it asked for, the ZCU does not.
Accepted == Bridge = "zcu" \/ Len(got) = Size

\* The frame is complete: the next one starts, or read_regs returns.  After
\* another attempt it prints "Concern, but succeeded".
FrameRead ==
    /\ Drained /\ Accepted
    /\ result' = result \o got
    /\ off' = off + Size
    /\ tries' = 0
    /\ pc' = IF off + Size = call.n THEN "idle" ELSE "start_read"
    /\ warned' = (warned \/ tries > 0)
    /\ UNCHANGED <<call, wc, ic, got, link, calls, lost, expected>>

RetryRead ==
    /\ Drained /\ ~Accepted /\ tries + 1 < MaxTries
    /\ tries' = tries + 1
    /\ pc' = "start_read"
    /\ UNCHANGED <<call, off, wc, ic, got, result, link, hist>>

\* ICEC_ReadFail
ReadFails == Drained /\ ~Accepted /\ tries + 1 = MaxTries /\ Fail
-----------------------------------------------------------------------------
(***************************************************************************)
(* write_regs.                                                             *)
(***************************************************************************)
CallWrite ==
    /\ pc = "idle" /\ calls < MaxCalls
    /\ \E c \in Writes : call' = [kind |-> "write", reg |-> c[1], values |-> c[2]]
    /\ calls' = calls + 1
    /\ wc' = 0 /\ ic' = 0
    /\ pc' = "load"
    /\ UNCHANGED <<off, tries, got, result, link, lost, expected, warned>>

\* Mutated form: the frame starts one byte early.
LoadByteStartsEarly ==
    /\ pc = "load"
    /\ tx' = Append(tx, call.values[wc + 1])
    /\ wc' = wc + 1 /\ ic' = ic + 1
    /\ IF ic + 1 = Chunk \/ wc + 2 >= Len(call.values)
       THEN /\ pending' = Append(pending, [kind |-> "write", reg |-> call.reg])
            /\ pc' = "poll_tx"
       ELSE UNCHANGED <<pending, pc>>
    /\ UNCHANGED <<call, off, tries, got, result, rx, wire, mem, hist>>

\* One turn of the loop: the byte is loaded and, when it is the eighth or the
\* last, the frame starts, always with the address of the call.
LoadByte ==
    /\ pc = "load"
    /\ tx' = Append(tx, call.values[wc + 1])
    /\ wc' = wc + 1 /\ ic' = ic + 1
    /\ IF ic + 1 = Chunk \/ wc + 1 = Len(call.values)
       THEN /\ pending' = Append(pending, [kind |-> "write", reg |-> call.reg])
            /\ pc' = "poll_tx"
       ELSE UNCHANGED <<pending, pc>>
    /\ UNCHANGED <<call, off, tries, got, result, rx, wire, mem, hist>>

WriteTimeout == pc = "poll_tx" /\ tx # <<>> /\ Fail

\* MASK_TX_EMPTY is seen: the next frame, or write_regs returns.
FrameWritten ==
    /\ pc = "poll_tx" /\ tx = <<>>
    /\ ic' = 0
    /\ IF wc < Len(call.values)
       THEN pc' = "load" /\ UNCHANGED expected
       ELSE /\ pc' = "idle"
            /\ expected' = [a \in Address |->
                  LET i == a - call.reg + 1
                  IN  IF i \in DOMAIN call.values THEN call.values[i] ELSE expected[a]]
    /\ UNCHANGED <<call, off, wc, tries, got, result, link, calls, lost, warned>>
-----------------------------------------------------------------------------
Call == CallRead \/ CallWrite

Program ==
    \/ StartRead \/ ReadTimeout \/ DrainByte \/ DrainRunaway
    \/ FrameRead \/ RetryRead \/ ReadFails
    \/ LoadByte \/ WriteTimeout \/ FrameWritten

Link == ServeRead \/ LoseAnswer \/ ServeWrite \/ ByteArrives

Next == Call \/ Program \/ Link

Spec == Init /\ [][Next]_vars

\* The program runs on; the link owes it nothing.
FairSpec == Spec /\ WF_vars(Program)
-----------------------------------------------------------------------------
\* NothingSilent: as long as no call has thrown and none has printed its concern, a
\* read returns what the registers it names hold and they hold what was written,
\* however slow the answers are and however fast they are drained: every corruption
\* by an answer or a byte that came too late was announced at an earlier frame. On
\* the Bittware a read that returns has as many bytes as asked for even then, also
\* when it drained answers to earlier reads of another length.
NothingSilent ==
    pc = "idle" =>
        /\ Bridge = "bittware" /\ call.kind = "read" => Len(result) = call.n
        /\ ~warned =>
              /\ mem = expected
              /\ call.kind = "read" =>
                     result = [i \in 1..call.n |-> expected[call.reg + i - 1]]

\* CallEnds: a call returns or throws, even when the link is dead.
CallEnds == []<>(pc = "idle")

=============================================================================
