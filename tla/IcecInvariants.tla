--------------------------- MODULE IcecInvariants ---------------------------
(***************************************************************************)
(* The inductive invariants of IcecTransport: what the program knows of    *)
(* its call, and, as long as it has printed nothing, where the frame under *)
(* way and its answer are.                                                 *)
(***************************************************************************)
EXTENDS IcecTransport

(***************************************************************************)
(* What it takes beside the Bittware, which compares what it drained with  *)
(* what it asked for: write_regs starts every frame of a call at the       *)
(* address of the call, so that a write of more than a frame lands on its  *)
(* own first bytes.                                                        *)
(***************************************************************************)
ShortWrites == \A c \in Writes : Len(c[2]) <= Chunk

-----------------------------------------------------------------------------
(***************************************************************************)
(* Type correctness, with what the program knows of its call.              *)
(***************************************************************************)
Reading == pc \in {"start_read", "poll_rx", "drain"}

Frame ==
    {f \in [kind : {"read"}, reg : Nat, n : Nat] : f.reg + f.n <= Registers}
    \cup [kind : {"write"}, reg : Nat]

CallOK ==
    /\ call.kind = "read" =>
          /\ call.reg \in Nat /\ call.n \in Nat \ {0} /\ call.reg + call.n <= Registers
    /\ call.kind = "write" => \E c \in Writes : call.reg = c[1] /\ call.values = c[2]

\* How far the call is.
Progress ==
    /\ Reading =>
          /\ call.kind = "read" /\ off < call.n
          /\ Len(result) <= off /\ (Bridge = "bittware" => Len(result) = off)
    /\ pc \in {"poll_rx", "drain"} => Len(got) <= Size
    /\ pc \in {"load", "poll_tx"} => call.kind = "write"
    /\ pc = "load" => ic < Chunk /\ wc < Len(call.values)
    /\ pc = "poll_tx" => wc <= Len(call.values)
    /\ pc = "idle" /\ call.kind = "read" /\ Bridge = "bittware" => Len(result) = call.n

Queues ==
    /\ got \in Seq(Int) /\ result \in Seq(Int) /\ rx \in Seq(Int) /\ wire \in Seq(Int)
    /\ tx \in Seq(Values) /\ pending \in Seq(Frame)

TypeInv == TypeOK /\ CallOK /\ Progress /\ Queues
-----------------------------------------------------------------------------
(***************************************************************************)
(* Where the frame under way is, as long as nothing was printed: what is   *)
(* in the buffers belongs to it, and what was read so far is right.        *)
(***************************************************************************)
\* Byte k of the answer to the frame under way.
Due(k) == IF k <= Header THEN HeaderByte ELSE mem[call.reg + off + (k - Header) - 1]

\* The frame is with the lpGBT, its answer is on the way, or nothing will come.
Asked ==
    /\ pending = <<[kind |-> "read", reg |-> call.reg + off, n |-> Size]>>
    /\ wire = <<>> /\ rx = <<>> /\ wc = 0 /\ got = <<>>

Answered ==
    /\ pending = <<>>
    /\ wc + Len(rx) + Len(wire) = Header + Size
    /\ \A i \in 1..Len(rx) : rx[i] = Due(wc + i)
    /\ \A i \in 1..Len(wire) : wire[i] = Due(wc + Len(rx) + i)
    /\ Len(got) = IF wc <= Header THEN 0 ELSE wc - Header
    /\ \A i \in 1..Len(got) : got[i] = Due(Header + i)

Lost == pending = <<>> /\ wire = <<>> /\ rx = <<>> /\ wc = 0 /\ got = <<>>

\* The registers once the write under way has landed.
Landed ==
    [a \in Address |->
        LET i == a - call.reg + 1
        IN  IF i \in DOMAIN call.values THEN call.values[i] ELSE expected[a]]

Loaded ==
    /\ tx \in Seq(Values) /\ Len(tx) = wc /\ ic = wc
    /\ \A i \in 1..wc : tx[i] = call.values[i]

Sent ==
    /\ rx = <<>> /\ wire = <<>> /\ wc = Len(call.values)
    /\ \/ /\ pending = <<[kind |-> "write", reg |-> call.reg]>>
          /\ tx = call.values /\ mem = expected
       \/ pending = <<>> /\ tx = <<>> /\ mem = Landed

InStep ==
    /\ pc \in {"idle", "start_read", "load"} => pending = <<>> /\ wire = <<>> /\ rx = <<>>
    /\ pc = "idle" \/ Reading => tx = <<>>
    /\ pc # "poll_tx" => mem = expected
    /\ Reading \/ (pc = "idle" /\ call.kind = "read") =>
          \A i \in 1..Len(result) : result[i] = mem[call.reg + i - 1]
    /\ pc \in {"poll_rx", "drain"} => Asked \/ Answered \/ Lost
    /\ pc = "load" => Loaded
    /\ pc = "poll_tx" => Sent

QuietInv ==
    ~warned => /\ tries > 0 => Reading
               /\ tries = 0 => InStep
=============================================================================
