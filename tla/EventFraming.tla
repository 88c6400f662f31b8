---------------------------- MODULE EventFraming ----------------------------
(***************************************************************************)
(* From the words of an event to the rows of a decoder.  A run of pftool   *)
(* either decodes each event in memory (DecodeAndBuffer) or appends it to  *)
(* a file (WriteToBinaryFile), where it can be killed with the file cut at *)
(* any word and a later run appends behind the cut.  pfdecoder or          *)
(* econd_decoder then read the file; rogue_decoder is handed frames.  The  *)
(* packet object is kept from one event to the next, as in the code.       *)
(*                                                                         *)
(* Once words that are no header have been taken for a header of the DAQ,  *)
(* where nothing is checked, the model follows the decoder no further      *)
(* (phase = "lost").                                                       *)
(***************************************************************************)
EXTENDS EventFormat, FiniteSets

CONSTANTS
    Setups,     \* the runs considered, records as described at TypeOK
    NLinks,     \* links of the HGCROC (2 in the code)
    NTrigger,   \* trigger links of the board (4 in the code)
    NEvents,    \* bound: events of a run
    MaxRuns     \* bound: runs that append to one file

VARIABLES
    setup,      \* target, format, consumer and the data of this behaviour
    phase,      \* "daq", "decode", "stop", "abort" or "lost"
    runs,       \* runs of pftool so far
    event,      \* events read out so far
    file,       \* the words of the file
    stored,     \* where each event stands in the file and whether it is whole
    pos,        \* words the decoder has taken
    ep,         \* the packet object
    rows        \* the packets written, in order

framingVars == <<setup, phase, runs, event, file, stored, pos, ep, rows>>

FramingTypeOK ==
    /\ setup.source \in {"econ", "board"} /\ setup.format \in {"ECOND", "SIMPLEROC"}
    /\ setup.path \in {"memory", "file", "rogue"}
    /\ setup.mode \in {"zs", "pass", "cut"} /\ setup.gaps \subseteq 0..(setup.samples - 1)
    /\ setup.unset \subseteq {3}
    /\ setup.soi \in 0..(setup.samples - 1) /\ setup.limit \in Nat
    /\ phase \in {"daq", "decode", "stop", "abort", "lost"}
    /\ runs \in 1..MaxRuns /\ event \in 0..(NEvents * MaxRuns)
    /\ pos \in 0..Len(file) /\ Len(rows) <= event + 1

(***************************************************************************)
(* The targets: what read_event puts into the buffer.                      *)
(***************************************************************************)
EconId == 7
Ws == setup.ws
Bx(s) == 2 * s
Ev(k, s) == (k - 1) * setup.samples + s
Cm(k, s, l) == 100 * k + 10 * s + l
Frames(k, s) == [l \in 1..NLinks |-> RocFrame(setup.lead[l], Bx(s), Ev(k, s), Cm(k, s, l), Ws)]

DaqHeader(s, size) == <<"daq", EconId, s, s = setup.soi, size>>
Trailer == <<"daq", 1023, 31, FALSE, 0>>

\* One ECON-D packet; empty where the capture block had none.
Packet(k, s) ==
    IF setup.source = "board" THEN FormatEvent(Bx(s), Ev(k, s), Frames(k, s))
    ELSE IF s \in setup.gaps THEN <<>>
    ELSE ChipEvent(setup.mode, Bx(s), Ev(k, s), [l \in 1..NLinks |-> Cm(k, s, l)], Ws)
Samples(k) ==
    FoldLeft(LAMBDA acc, i : LET p == Packet(k, i - 1) IN Append(acc, DaqHeader(i - 1, Len(p))) \o p,
             <<>>, [i \in 1..setup.samples |-> i])

\* DAQ::read_event_sw_headers ends with the trailer of the firmware; the board's
\* read_event ends with a header that has neither of its two marks.
SwHeaders(k) == Append(Samples(k), Trailer)
BoardEcond(k) == Append(Samples(k), <<"daq", EconId, 0, FALSE, 0>>)

\* The format of a single ROC: magic words, lengths (of two links in a word, the
\* even link in the low half), the links as they are, magic words.
SimpleRoc(k) ==
    LET links == Frames(k, 0) \o [i \in 1..NTrigger |-> TriggerFrame(i - 1)]
        lens == [i \in 1..((NLinks + NTrigger) \div 2) |->
                    <<"lens", Len(links[2 * i]), Len(links[2 * i - 1])>>]
        body == FlattenSeq(links)
    IN  <<<<"magic", 1>>, <<"magic", 2>>, <<"len", 1 + Len(lens) + Len(body)>>>>
        \o lens \o body \o <<<<"magic", 3>>, <<"magic", 4>>>>

ReadEvent(k) ==
    IF setup.format = "SIMPLEROC" THEN SimpleRoc(k)
    ELSE IF setup.source = "board" THEN BoardEcond(k) ELSE SwHeaders(k)

(***************************************************************************)
(* Readers.  A word is good while the position is in front of the end; the *)
(* test of a reader also fails once the last word has been taken.          *)
(***************************************************************************)

More(words, p) == p < Len(words)

Upto(words, p, n) == IF p + n < Len(words) THEN p + n ELSE Len(words)

(***************************************************************************)
(* MultiSampleECONDEventPacket.                                            *)
(***************************************************************************)
IsTrailer(h) == h[2] = 1023 /\ h[3] = 31

RECURSIVE Walk(_, _, _)
Walk(frame, at, p) ==
    IF at > Len(frame) THEN p
    ELSE IF frame[at][1] # "daq" THEN [p EXCEPT !.lost = TRUE]
    ELSE LET h == frame[at] IN
         IF IsTrailer(h) THEN p
         ELSE Walk(frame, at + 1 + h[5],
                   [p EXCEPT !.isoi = IF h[4] THEN Len(p.samples) ELSE @,
                             !.samples = Append(@, UnpackPacket(SubSeq(frame, at + 1, at + h[5]), NLinks, setup.unset))])

\* Variant for a mutation: the samples of the event before are not cleared.
FromKeeping(frame, old) == Walk(frame, 1, [old EXCEPT !.time = 0])

\* from: everything is new but the index of the sample of interest, which is
\* only set by a header that says so.
From(frame, old) == Walk(frame, 1, [old EXCEPT !.samples = <<>>, !.time = 0])

FromRor(frame, old) == Walk(frame, 5, [old EXCEPT !.samples = <<>>, !.time = frame[3][2]])

RECURSIVE Gather(_, _, _, _)
Gather(words, p, frame, old) ==
    IF ~More(words, p) \/ ~More(words, p + 1) THEN [pos |-> Upto(words, p, 1), ep |-> From(frame, old)]
    ELSE LET h == words[p + 1]
             q == IF h[1] = "daq" THEN Upto(words, p + 1, h[5]) ELSE p + 1
         IN  IF h[1] # "daq" THEN [pos |-> p + 1, ep |-> [old EXCEPT !.lost = TRUE]]
             ELSE IF IsTrailer(h) THEN [pos |-> p + 1, ep |-> From(frame, old)]
             ELSE IF ~More(words, q) THEN [pos |-> q, ep |-> old]   \* partially transmitted
             ELSE Gather(words, q, frame \o SubSeq(words, p + 1, q), old)

ReadMulti(words, p, old) == Gather(words, p, <<>>, old)

(***************************************************************************)
(* SingleROCEventPacket.                                                   *)
(***************************************************************************)
\* The position behind the first of two magic words in a row, or the end.
Scan(words, p, m) ==
    LET at == {i \in (p + 1)..(Len(words) - 1) : words[i] = <<"magic", m>> /\ words[i + 1] = <<"magic", m + 1>>}
    IN  IF at = {} THEN Len(words) ELSE (CHOOSE i \in at : \A j \in at : i <= j) + 1

\* from: the lengths of the links, then each link by its length; a length of the
\* wrong size is an exception.  Magic words read as lengths are of a wrong size.
NLens == (NLinks + NTrigger) \div 2
Lengths(data) ==
    [i \in 1..(2 * NLens) |-> LET w == data[1 + (i + 1) \div 2] IN
        IF w[1] # "lens" THEN -1 ELSE IF i % 2 = 1 THEN w[2] ELSE w[3]]
FromSingle(data, old) ==
    LET n == Lengths(data)
        start == [i \in 1..(NLinks + NTrigger) |-> 2 + NLens + FoldLeft(+, 0, SubSeq(n, 1, i - 1))]
        Part(i) == SubSeq(data, start[i], start[i] + n[i] - 1)
        fit == \A i \in 1..(NLinks + NTrigger) : n[i] = IF i <= NLinks THEN FrameLength ELSE TriggerLength
        f == [i \in 1..NLinks |-> UnpackFrame(Part(i))]
    IN  IF ~fit THEN [old EXCEPT !.thrown = TRUE]
        ELSE [old EXCEPT !.samples = <<[links |-> [i \in 1..NLinks |->
                                            [bx |-> f[i].bx, ev |-> f[i].ev, cm |-> f[i].cm, ch |-> f[i].ch]],
                                        corruption |-> UNION {f[i].corruption : i \in 1..NLinks}]>>,
                         !.trigger = [i \in 1..NTrigger |-> UnpackTrigger(Part(NLinks + i))]]

\* read: to the header, the total length, that many words, and on to the trailer.
ReadSingle(words, p, old) ==
    LET h == Scan(words, p, 1)
        n == IF More(words, h) /\ words[h + 1][1] = "len" THEN words[h + 1][2] ELSE Len(words)
        q == Upto(words, h, n)
        new == FromSingle(SubSeq(words, h + 1, q), old)
    IN  IF ~More(words, h) \/ ~More(words, h + 1) THEN [pos |-> Upto(words, h, 1), ep |-> old]
        ELSE IF ~More(words, q) THEN [pos |-> q, ep |-> old]     \* partially transmitted
        ELSE IF new.thrown THEN [pos |-> q, ep |-> new]
        ELSE [pos |-> Scan(words, q, 3), ep |-> new]

ReadNext(words, p, old) ==
    IF setup.format = "SIMPLEROC" THEN ReadSingle(words, p, old) ELSE ReadMulti(words, p, old)

(***************************************************************************)
(* The programs.                                                           *)
(***************************************************************************)
\* A packet nothing has been read into: its numbers are not initialised (-1 in
\* corruption), the multi-sample one has no samples.
Fresh ==
    [samples |-> IF setup.format = "ECOND" THEN <<>>
                 ELSE <<[links |-> [i \in 1..NLinks |-> JunkLink], corruption |-> {-1}]>>,
     isoi |-> 0, time |-> 0, trigger |-> <<>>, lost |-> FALSE, thrown |-> FALSE]

FramingInit ==
    /\ setup \in Setups
    /\ phase = "daq" /\ runs = 1 /\ event = 0
    /\ file = <<>> /\ stored = <<>> /\ pos = 0 /\ rows = <<>>
    /\ ep = Fresh

\* The packet as it is kept: whole in a buffer, as readings in a table.
Shown(w) == IF setup.path = "memory" THEN w ELSE Reading(w)
Line(p) ==
    [p EXCEPT !.samples = [s \in DOMAIN p.samples |-> [p.samples[s] EXCEPT !.links =
        [l \in 1..NLinks |-> [p.samples[s].links[l] EXCEPT !.ch = [n \in Names |-> Shown(@[n])]]]]]]

\* What follows a read in all the consumers: the packet is written, whatever the
\* read did, unless it threw.
Written(r) ==
    /\ ep' = r.ep
    /\ rows' = IF r.ep.lost \/ r.ep.thrown THEN rows ELSE Append(rows, Line(r.ep))

MayRead == phase = "daq" /\ event < NEvents * runs

\* DecodeAndWrite::consume: the event is decoded from its own buffer.
Consume ==
    /\ MayRead /\ setup.path = "memory"
    /\ event' = event + 1
    /\ Written(ReadNext(ReadEvent(event + 1), 0, ep))
    /\ phase' = IF ep'.lost THEN "lost" ELSE IF ep'.thrown THEN "abort" ELSE phase
    /\ UNCHANGED <<setup, runs, file, stored, pos>>

\* WriteToBinaryFile::consume.
Store ==
    /\ MayRead /\ setup.path = "file"
    /\ event' = event + 1
    /\ file' = file \o ReadEvent(event + 1)
    /\ stored' = Append(stored, [k |-> event + 1, first |-> Len(file) + 1, last |-> Len(file'), whole |-> TRUE])
    /\ UNCHANGED <<setup, phase, runs, pos, ep, rows>>

\* pftool dies with the end of the file still in its buffers (the last event of
\* the run at most); the next run appends to what is there.
Kill(n) ==
    /\ phase = "daq" /\ setup.path = "file" /\ setup.kill
    /\ event = NEvents * runs /\ \A i \in DOMAIN stored : stored[i].whole
    /\ n \in (stored[Len(stored)].first - 1)..(Len(file) - 1)
    /\ file' = SubSeq(file, 1, n)
    /\ stored' = [stored EXCEPT ![Len(stored)] = [@ EXCEPT !.last = n, !.whole = FALSE]]
    /\ UNCHANGED <<setup, phase, runs, event, pos, ep, rows>>

\* Another run with the same name of its file: WriteToBinaryFile opens it to append.
RunAgain ==
    /\ phase = "daq" /\ setup.path = "file" /\ event = NEvents * runs /\ runs < MaxRuns
    /\ runs' = runs + 1
    /\ UNCHANGED <<setup, phase, event, file, stored, pos, ep, rows>>

\* The decoder opens the file; an empty one counts as not opened.
OpenFile ==
    /\ phase = "daq" /\ setup.path = "file" /\ event = NEvents * runs
    /\ phase' = IF More(file, 0) THEN "decode" ELSE "stop"
    /\ UNCHANGED <<setup, runs, event, file, stored, pos, ep, rows>>

Taken(r) == Written(r) /\ pos' = r.pos

\* One turn of the decoder's loop.  An exception ends the program, a limit too.
Pop ==
    /\ phase = "decode" /\ More(file, pos)
    /\ Taken(ReadNext(file, pos, ep))
    /\ phase' = IF ep'.lost THEN "lost" ELSE IF ep'.thrown THEN "abort"
                ELSE IF setup.limit > 0 /\ Len(rows') >= setup.limit THEN "stop" ELSE phase
    /\ UNCHANGED <<setup, runs, event, file, stored>>

EndOfFile ==
    /\ phase = "decode" /\ ~More(file, pos) /\ phase' = "stop"
    /\ UNCHANGED <<setup, runs, event, file, stored, pos, ep, rows>>

\* CaloCSVWriter::acceptFrame: frames with an error, of another channel,
\* subsystem or contributor are passed over; the others have four more words in front.
AcceptFrame ==
    /\ MayRead /\ setup.path = "rogue"
    /\ event' = event + 1
    /\ \E ours \in BOOLEAN :
         IF ~ours THEN UNCHANGED <<ep, rows, phase>>
         ELSE /\ Written([ep |-> FromRor(<<<<"ror", 5, 20>>, <<"zero">>, <<"time", event + 1>>, <<"time", 0>>>>
                                          \o SwHeaders(event + 1), ep)])
              /\ phase' = IF ep'.lost THEN "lost" ELSE phase
    /\ UNCHANGED <<setup, runs, file, stored, pos>>

FramingNext ==
    \/ Consume \/ AcceptFrame
    \/ Store \/ (\E n \in 0..Len(file) : Kill(n)) \/ RunAgain
    \/ OpenFile \/ Pop \/ EndOfFile

FramingSpec == FramingInit /\ [][FramingNext]_framingVars

(***************************************************************************)
(* Properties.                                                             *)
(***************************************************************************)
\* What a decoder can tell of a sample: the formats drop what was suppressed.
Sifted(w) ==
    IF setup.format = "SIMPLEROC" \/ (setup.source = "econ" /\ setup.mode = "pass") THEN w
    ELSE IF setup.source = "econ" /\ ChipCode(w) < 0 THEN Zero
    ELSE IF ~w.tc /\ w.tp THEN [w EXCEPT !.toa = 0] ELSE w
Position(n) == IF n = -1 THEN CalibAt ELSE IF n >= CalibAt THEN n + 1 ELSE n
AsSent(smp, k, s) ==
    \A l \in 1..NLinks :
        smp.links[l] = [bx |-> Bx(s), ev |-> Ev(k, s), cm |-> Cm(k, s, l),
                        ch |-> [n \in Names |-> Shown(Sifted(Ws[Position(n)]))]]
Blank(smp) == \A l \in 1..NLinks : smp.links[l] = [BlankLink EXCEPT !.ch = [n \in Names |-> Shown(Zero)]]

\* No sample without a flag is made up: whatever was cut, appended, suppressed or
\* missing, a sample of a written packet that fails no check is, link by link and
\* channel by channel, one the front-end has sent, or is blank because the ECON-D
\* had cut the whole packet short (ECONDEventPacket.cxx:231, ECOND_Formatter.cxx:49).
RowsReal ==
    \A i \in DOMAIN rows : \A s \in DOMAIN rows[i].samples :
        LET smp == rows[i].samples[s] IN
        smp.corruption = {} =>
            \/ setup.mode = "cut" /\ Blank(smp)
            \/ \E k \in 1..event, j \in 0..(setup.samples - 1) : AsSent(smp, k, j)

\* The common-mode words name the events a packet was made of.
Origin(p) == {p.samples[s].links[1].cm : s \in DOMAIN p.samples} \ {0, -9}
Cut(i) == ~stored[i].whole /\ stored[i].last >= stored[i].first

\* Data of an event is written in one packet only; the exception is the packet a
\* decoder is left with when a read fails, which it writes a second time: only
\* the last, only directly after the first, and only of a file that was cut
\* (MultiSampleECONDEventPacket.cxx:190, SingleROCEventPacket.cxx:66,
\* econd_decoder.cxx:164).
WrittenOnce ==
    \A i, j \in DOMAIN rows :
        i < j /\ Origin(rows[i]) \intersect Origin(rows[j]) # {} =>
            /\ j = Len(rows) /\ i = j - 1
            /\ rows[i] = rows[j]
            /\ setup.path = "file" /\ \E c \in DOMAIN stored : ~stored[c].whole

\* The packet of event k, with its samples in their places and its sample of interest.
IsEvent(p, k) ==
    IF setup.format = "SIMPLEROC" THEN AsSent(p.samples[1], k, 0)
    ELSE /\ Len(p.samples) = setup.samples
         /\ p.isoi = setup.soi
         /\ \A s \in 1..setup.samples :
                IF (s - 1) \in setup.gaps THEN 0 \in p.samples[s].corruption
                ELSE IF setup.mode = "cut"
                THEN p.samples[s].corruption = setup.unset /\ Blank(p.samples[s])
                ELSE p.samples[s].corruption = {} /\ AsSent(p.samples[s], k, s - 1)

\* Events behind a cut that a decoder cannot lose: none in the format without
\* marks; with marks all but the next one, unless the cut is inside the lengths.
BehindCut(i, c) ==
    /\ setup.format = "SIMPLEROC" /\ i > c + 1
    /\ stored[c].last - stored[c].first + 1 \notin 2..(2 + NLens)
Safe(i) == stored[i].whole /\ \A c \in 1..(i - 1) : Cut(c) => BehindCut(i, c)

\* Each of these events of the file has a packet of its own, in the order of the file.
InTurn(events) ==
    \E at \in [events -> DOMAIN rows] :
        \A i \in events :
            /\ IsEvent(rows[at[i]], stored[i].k)
            /\ \A j \in events : i < j => at[i] < at[j]

Done == setup.path = "file" /\ setup.limit = 0 /\ phase \in {"stop", "lost", "abort"}

AllGood == \A l \in 1..NLinks : setup.lead[l] = "F"

\* The formats whose events end with what their decoder takes for an end.
Delimited == setup.format = "SIMPLEROC" \/ setup.source = "econ"

\* Recovered, nothing whole is lost: each event decoded in memory has its own packet in its
\* turn; of a file each whole event is written, in the order of the file, up to the cut,
\* and in the format with marks the decoder finds its way back behind the cut
\* (SingleROCEventPacket.cxx:44 and :74, MultiSampleECONDEventPacket.cxx:173). Files of
\* the fiberless board in the format of the ECON-D are left to Separated.
Recovered ==
    /\ setup.path = "memory" /\ AllGood /\ phase = "daq" =>
          Len(rows) = event /\ \A k \in 1..event : IsEvent(rows[k], k)
    /\ Done /\ Delimited => InTurn({i \in DOMAIN stored : Safe(i)})

\* Separated: the header that ends an event of the fiberless board, which is there to mark
\* that there are no more ECON packets (HGCROCBoardFiberless.cxx:328), separates it from
\* the event behind it. The decoder of the file does not know it for an end.
Separated == Done /\ ~Delimited /\ AllGood => InTurn({i \in DOMAIN stored : Safe(i)})
=============================================================================
