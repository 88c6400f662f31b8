----------------------------- MODULE EventFormat -----------------------------
(***************************************************************************)
(* The words of an event: the link frames of an HGCROC, the emulated and   *)
(* the real ECON-D packet, and the code that takes both apart again        *)
(* (ECOND_Formatter.cxx, packing/ECONDEventPacket.cxx, DAQLinkFrame.cxx,   *)
(* TriggerLinkFrame.cxx, Sample.cxx).                                      *)
(*                                                                         *)
(* A word is a tuple whose first member is its kind.  A word with channel  *)
(* data is four cells, one per byte: the codes and the measurements of a   *)
(* channel fill two, three or four whole bytes, so every boundary of the   *)
(* packing is one of bytes.  A CRC is the content it was computed from.    *)
(* A measurement is a small number that stands for its ten bits.           *)
(***************************************************************************)
EXTENDS Integers, Sequences, SequencesExt

CONSTANTS
    NChan,      \* words of a link with a channel (37 in the code, calib included)
    MapLow,     \* channels in the map's own word (32 in the code)
    CalibAt     \* place of the calibration channel in a link (18 in the code)

ASSUME FormatAssumption == NChan \in Nat \ {0} /\ CalibAt \in 0..(NChan - 1)
                           /\ MapLow \in 0..NChan

Places == 0..(NChan - 1)

(***************************************************************************)
(* Samples.                                                                *)
(***************************************************************************)
Zero == [tc |-> FALSE, tp |-> FALSE, tm1 |-> 0, main |-> 0, toa |-> 0]
Junk == [tc |-> FALSE, tp |-> FALSE, tm1 |-> -9, main |-> -9, toa |-> -9]

\* The measurements of a sample, -1 for one that the flags rule out.
Reading(w) ==
    [tm1 |-> IF w.tc /\ ~w.tp THEN -1 ELSE w.tm1,
     adc |-> IF ~w.tc THEN w.main ELSE IF ~w.tp THEN w.tm1 ELSE -1,
     tot |-> IF w.tc THEN w.main ELSE -1,
     toa |-> w.toa]

\* The name of a channel from its place in the frame: the calibration channel
\* (-1) sits among the others.
Name(p) == IF p = CalibAt THEN -1 ELSE IF p > CalibAt THEN p - 1 ELSE p
Names == {Name(p) : p \in Places}

(***************************************************************************)
(* What a link of the HGCROC hands over.  lead: the mark of its header,    *)
(* "F" or "5", or "bad" on a link that is not aligned.                     *)
(***************************************************************************)
RocFrame(lead, bx, ev, cm, ws) ==
    LET body == <<<<"roc", lead, bx, ev>>, <<"cm", cm>>>>
                \o [i \in 1..NChan |-> <<"ch", ws[i - 1]>>]
    IN  Append(body, <<"crc", body>>)
TriggerFrame(i) == <<<<"trig", i, TRUE>>, <<"sums", 10>>>>

FrameLength == NChan + 3        \* 40 in the code
TriggerLength == 2              \* 5 in the code: the header and four words

(***************************************************************************)
(* ECOND_Formatter: zero suppression and packing.                          *)
(***************************************************************************)
ZsProcess(w) ==
    CASE w.tc /\ w.tp             -> 12
      [] w.tc /\ ~w.tp            -> 8
      [] ~w.tc /\ w.tp            -> 2
      [] ~w.tc /\ ~w.tp /\ w.toa = 0 -> 0
      [] OTHER                    -> 4

\* What each code carries and how many bytes it takes.
HasTm1(c) == c \notin {1, 3}
HasToa(c) == c \notin {0, 1, 2}
Bytes(c) == CASE c = 1 -> 2 [] c \in {0, 2, 3} -> 3 [] OTHER -> 4

\* The bytes of one channel: code, what it carries, and which of the bytes.
Chunk(c, w) ==
    LET v == <<IF HasTm1(c) THEN w.tm1 ELSE 0, w.main, IF HasToa(c) THEN w.toa ELSE 0>>
    IN  [k \in 1..Bytes(c) |-> <<c, v, k>>]

Pad == <<-1, <<>>, 0>>
Word(cells) == <<"data", cells \o [k \in 1..(4 - Len(cells)) |-> Pad]>>

\* Put the bytes behind those of the word under construction; a full word is
\* moved to the packet.
Insert(s, chunk) ==
    LET all == s.building \o chunk
    IN  IF Len(all) >= 4
        THEN [dest |-> Append(s.dest, Word(SubSeq(all, 1, 4))), building |-> SubSeq(all, 5, Len(all))]
        ELSE [dest |-> s.dest, building |-> all]

\* A sub-packet from the codes of the channels that pass: two words of header
\* with the map of the channels, the bytes, the last word padded.
SubPacket(cm, ws, code) ==
    LET s == FoldLeft(LAMBDA acc, p : IF code[p] < 0 THEN acc ELSE Insert(acc, Chunk(code[p], ws[p])),
                      [dest |-> <<>>, building |-> <<>>], [i \in 1..NChan |-> i - 1])
        map == {p \in Places : code[p] >= 0}
    IN  <<<<"sub", TRUE, FALSE, cm, {p \in map : p >= MapLow}>>, <<"map", {p \in map : p < MapLow}>>>>
        \o s.dest \o (IF s.building = <<>> THEN <<>> ELSE <<Word(s.building)>>)

\* format_elink: nothing at all for a frame of another length or mark.
FormatElink(src) ==
    IF Len(src) # FrameLength \/ src[1][1] # "roc" \/ src[1][2] # "F" THEN <<>>
    ELSE LET ws == [p \in Places |-> src[3 + p][2]]
         IN  SubPacket(src[2][2], ws, [p \in Places |-> ZsProcess(ws[p])])

\* The header of a packet: its length, the passthrough and truncation bits, and
\* in its second word the number of the event with an eight-bit CRC.
Header(length, pass, cut, bx, ev) ==
    <<<<"econd", length, pass, cut>>, <<"evt", bx, ev, <<length, pass, cut, bx, ev>>>>>>

\* startEvent, add_elink_packet for each link, finishEvent.  The length is set
\* when a link is added.
FormatEvent(bx, ev, frames) ==
    LET subs == FoldLeft(LAMBDA acc, f : acc \o FormatElink(f), <<>>, frames)
    IN  Header(IF frames = <<>> THEN 0 ELSE Len(subs) + 1, FALSE, FALSE, bx, ev)
        \o subs \o <<<<"crc", subs>>>>

(***************************************************************************)
(* The ECON-D itself (external): it may suppress a channel, a measurement, *)
(* or a link, pass everything through, or run out of space.                *)
(***************************************************************************)
ChipCode(w) ==
    IF w.tc \/ w.tp THEN ZsProcess(w)
    ELSE CASE w.main = 0                 -> -1
           [] w.main # 0 /\ w.tm1 = 0 /\ w.toa = 0 -> 1
           [] w.main # 0 /\ w.tm1 = 0 /\ w.toa # 0 -> 3
           [] w.main # 0 /\ w.tm1 # 0 /\ w.toa = 0 -> 0
           [] OTHER                      -> 4
ChipElink(mode, cm, ws) ==
    LET code == [p \in Places |-> ChipCode(ws[p])]
    IN  CASE mode = "pass" -> <<<<"sub", TRUE, FALSE, cm, {}>>, <<"map", {}>>>> \o [i \in 1..NChan |-> <<"ch", ws[i - 1]>>]
          [] mode = "zs" /\ \A p \in Places : code[p] < 0 -> <<<<"sub", TRUE, TRUE, cm, {}>>>>
          [] OTHER         -> SubPacket(cm, ws, code)
ChipEvent(mode, bx, ev, cms, ws) ==
    LET subs == FoldLeft(LAMBDA acc, cm : acc \o ChipElink(mode, cm, ws), <<>>, cms)
    IN  IF mode = "cut" THEN Header(1, FALSE, TRUE, bx, ev) \o <<<<"crc", <<>>>>>>
        ELSE Header(Len(subs) + 1, mode = "pass", FALSE, bx, ev) \o subs \o <<<<"crc", subs>>>>

(***************************************************************************)
(* ECONDEventPacket: unpacking.                                            *)
(***************************************************************************)
BlankLink == [bx |-> 0, ev |-> 0, cm |-> 0, ch |-> [n \in Names |-> Zero]]
JunkLink == [bx |-> -9, ev |-> -9, cm |-> -9, ch |-> [n \in Names |-> Junk]]

\* The codes as the unpacker tells them apart; its sizes and flags.
Tc(c) == c \in {8, 12}
Tp(c) == c \in {2, 12}

\* The cell at byte k (from 1) of the word at index i, or of those behind it.
Cell(data, i, k) ==
    LET j == i + (k - 1) \div 4
    IN  IF j <= Len(data) /\ data[j][1] = "data" THEN data[j][2][((k - 1) % 4) + 1] ELSE Pad

\* The channel whose bytes are these, if they are those of one channel in order.
Assemble(cells, c) ==
    IF c < 0 \/ \E k \in DOMAIN cells : cells[k] # <<c, cells[1][2], k>> THEN Junk
    ELSE [tc |-> Tc(c), tp |-> Tp(c), tm1 |-> IF HasTm1(c) THEN cells[1][2][1] ELSE 0,
          main |-> cells[1][2][2], toa |-> IF HasToa(c) THEN cells[1][2][3] ELSE 0]

\* Variant for a mutation: the step to the next word is forgotten when a channel
\* ends with its word.
UnpackChannelStuck(data, s, p) ==
    LET used == 4 - s.left
        c == Cell(data, s.at, used + 1)[1]
        n == Bytes(c)
    IN  [at |-> s.at + (used + n - 1) \div 4, left |-> 4 - ((used + n) % 4),
         ch |-> [s.ch EXCEPT ![Name(p)] = Assemble([k \in 1..n |-> Cell(data, s.at, used + k)], c)]]

\* One channel at word s.at, of which s.left bytes are still to be read.
UnpackChannel(data, s, p) ==
    LET used == 4 - s.left
        c == Cell(data, s.at, used + 1)[1]
        n == Bytes(c)
    IN  [at |-> s.at + (used + n) \div 4, left |-> 4 - ((used + n) % 4),
         ch |-> [s.ch EXCEPT ![Name(p)] = Assemble([k \in 1..n |-> Cell(data, s.at, used + k)], c)]]

\* unpack_link_subpacket: how many words it took and the link.  Words that are no
\* sub-packet are read as one: what comes out is junk.
UnpackLink(data, pass) ==
    LET map == data[1][5] \union data[2][2]
        s == FoldLeft(LAMBDA acc, p :
                 CASE pass            -> [acc EXCEPT !.at = @ + 1, !.ch[Name(p)] =
                                              IF acc.at <= Len(data) /\ data[acc.at][1] = "ch" THEN data[acc.at][2] ELSE Junk]
                   [] ~pass /\ p \notin map -> [acc EXCEPT !.ch[Name(p)] = Zero]
                   [] OTHER           -> UnpackChannel(data, acc, p),
                 [at |-> 3, left |-> 4, ch |-> BlankLink.ch], [i \in 1..NChan |-> i - 1])
    IN  IF data = <<>> \/ data[1][1] # "sub" THEN [length |-> 1, cm |-> -9, ch |-> JunkLink.ch]
        ELSE IF data[1][3] THEN [length |-> 1, cm |-> data[1][4], ch |-> BlankLink.ch]
        ELSE IF Len(data) < 2 \/ data[2][1] # "map" THEN [length |-> 2, cm |-> data[1][4], ch |-> JunkLink.ch]
        ELSE [length |-> s.at - 1 + (IF s.left < 4 THEN 1 ELSE 0), cm |-> data[1][4], ch |-> s.ch]

\* The links one after another, each from where the one before ended.
WithLink(acc, bx, ev, l) ==
    [at |-> acc.at + l.length, links |-> Append(acc.links, [bx |-> bx, ev |-> ev, cm |-> l.cm, ch |-> l.ch])]
UnpackLinks(data, pass, nlinks) ==
    FoldLeft(LAMBDA acc, i : WithLink(acc, data[2][2], data[2][3], UnpackLink(SubSeq(data, acc.at, Len(data)), pass)),
             [at |-> 3, links |-> <<>>], [i \in 1..nlinks |-> i])

\* Variant for a mutation: the CRC of the sub-packets is not looked at.
UnpackPacketTrusting(data, nlinks, unset) ==
    IF Len(data) < 2 \/ data[1][1] # "econd" \/ data[2][1] # "evt"
    THEN [links |-> [i \in 1..nlinks |-> JunkLink], corruption |-> {0, 1}]
    ELSE [links |-> UnpackLinks(data, data[1][3], nlinks).links,
          corruption |-> IF Len(data) # data[1][2] + 2 THEN {1} ELSE {}]

HeaderChecks(data) ==
    {c \in {1, 2} :
        \/ c = 1 /\ Len(data) # data[1][2] + 2
        \/ c = 2 /\ data[2][4] # <<data[1][2], data[1][3], data[1][4], data[2][2], data[2][3]>>}

\* The links, and the CRC over the words they took.
LinksChecked(data, u) ==
    [links |-> u.links,
     corruption |-> HeaderChecks(data) \union
        (IF u.at > Len(data) \/ data[u.at] # <<"crc", SubSeq(data, 3, u.at - 1)>> THEN {3} ELSE {})]

\* ECONDEventPacket::from into a fresh packet: the links, and which of the four
\* checks failed.  A truncated packet leaves the links blank and the fourth check
\* unset: it is {} or {3}, as the memory had it.  Words that are no
\* packet (or none) fail the marker and the length and give junk.
UnpackPacket(data, nlinks, unset) ==
    IF Len(data) < 2 \/ data[1][1] # "econd" \/ data[2][1] # "evt"
    THEN [links |-> [i \in 1..nlinks |-> JunkLink], corruption |-> {0, 1}]
    ELSE IF data[1][4]
    THEN [links |-> [i \in 1..nlinks |-> BlankLink], corruption |-> HeaderChecks(data) \union unset]
    ELSE LinksChecked(data, UnpackLinks(data, data[1][3], nlinks))

(***************************************************************************)
(* DAQLinkFrame and TriggerLinkFrame: fixed length or an exception.        *)
(***************************************************************************)
UnpackFrame(data) ==
    LET ok == data[1][1] = "roc"
        body == SubSeq(data, 1, FrameLength - 1)
        Chan(p) == IF data[3 + p][1] = "ch" THEN data[3 + p][2] ELSE Junk
        cm == IF data[2][1] = "cm" THEN data[2][2] ELSE -9
    IN  [bx |-> IF ok THEN data[1][3] ELSE -9, ev |-> IF ok THEN data[1][4] ELSE -9, cm |-> cm,
         ch |-> [n \in Names |-> Chan(CHOOSE p \in Places : Name(p) = n)],
         corruption |-> (IF ok /\ data[1][2] \in {"F", "5"} THEN {} ELSE {0})
                        \union (IF data[FrameLength] = <<"crc", body>> THEN {} ELSE {1})]

UnpackTrigger(data) ==
    [i |-> IF data[1][1] = "trig" THEN data[1][2] ELSE -9,
     corruption |-> (IF data[1][1] = "trig" THEN {} ELSE {0})
                    \union (IF data[2][1] = "sums" /\ data[2][2] \in {9, 10} THEN {} ELSE {1})]
=============================================================================
