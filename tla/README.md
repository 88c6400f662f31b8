# A TLA+ model of pflib

pflib is the library and the terminal tool (`pftool`) with which the front-end
electronics of the LDMX hadronic calorimeter are configured, read out and
calibrated: HGCROC readout chips ("ROC"), ECON-D/ECON-T concentrators and lpGBT
link chips, reached over I2C, memory-mapped firmware registers or optical links,
from several kinds of targets (`fiberless`, `zcu`, `bittware`, and the ECal's `smm`).
This directory holds a model of the parts of it where steps interact, the model
checking of that model and proofs about it. It is translated from the C++ sources; line
numbers in `PROJECT.json` ("map") lead from every definition to the code it stands for.

## 1. Inventory

### The parts, what they keep and how they interact

| Part | Sources | State | Operations | Module |
|---|---|---|---|---|
| Scan and data acquisition loop | `app/tool/daq_run.cxx`, `app/tool/tasks/*_scan.cxx`, `src/pflib/DAQ.cxx` | samples per trigger, sample of interest, the event being built, the loop variables | set up, run, trigger, read, consume | `DaqRun`, `ScanRecord` |
| Capture blocks and targets | `zcu_daq.cxx`, `bittware_daq.cxx`, `HcalBackplane*.cxx`, `HGCROCBoardFiberless.cxx` | FIFO of samples with a read pointer; capture widths | reset, getLinkData, advanceLinkReadPtr, read_event, setup_run, setupLink | `DaqRun`, `EventFraming`, `ELinks` |
| Event formats and decoders | `ECOND_Formatter.cxx`, `src/pflib/packing/*`, `app/decoders` | the packet object, a file and a position in it | format, read_event, from, read, the loops of the decoders | `EventFormat`, `EventFraming` |
| Fast control | `FastControl*.cxx`, `bittware_FastControl.cxx` | enables, periodic commands, requests not yet sent, saved copies of the enable | sendROR, setL1AperROR, clear_run, link resets, standard_setup | `FastControl`, `DaqRun`, `TaskRunner` (delays) |
| ROC parameters | `ROC.cxx` | the chip's registers; a saved image per test scope | applyParameters, loadParameters, loadRegisters, testParameters and its destructor | `RocParameters` |
| Parameter compiler | `Compile.cxx` | tables | compile, decompile, extract | `Compiler` |
| ECON registers and the lpGBT I2C masters | `ECON.cxx`, `lpGBT.cxx`, `lpgbt/I2C.cxx` | registers, a status without a tag, the bytes read last | applyParameters, readParameters, loadParameters; general_write_read | `EconI2c` |
| lpGBT services, their tests and tasks | `lpGBT.cxx`, `lpgbt/GPIO.cxx`, `lpGBT_standard_configs.cxx`, `app/lpgbt/*`, `get_lpgbt_temps.cxx` | the chip's registers, the names of its pins, cached constants | pins, clocks, links, measurements, set-ups; the bench's commands and tests | `LpgbtChip`, `LpgbtBench` |
| lpGBT IC/EC transport | `lpGBT_ICEC_ZCU_Simple.cxx`, `bittware_optolink.cxx` | two byte FIFOs, a status word | read_regs, write_regs | `IcecTransport` |
| Searches and calibration | `vt50_scan.cxx`, `app/tool/algorithm/*` | two ends or a list of tried values; a threshold per link, a trim per channel | the loops | `CalibSearch`, `TotScan` |
| Tasks of the menu | `app/tool/tasks/*.cxx`, `app/tool/algorithm/*.cxx`, parts of `app/tool/daq.cxx` | scopes open, what a task keeps in variables, the centre of a time scan | one program per task: scopes, runs, delays, settings for good | `TaskRunner`, `ScanTasks` |
| Menu, and the menus of pftool | `Menu.h`, `Menu.cc`, `app/tool/main.cxx`, `expert.cxx`, `daq.cxx`, `opto.cxx`, `bias.cxx` | the queue of words, the menu, the tool's choices and switches | read a word, enter, run, answer, abandon; the commands | `Menu`, `Session` |
| Electrical links | `Elinks.cxx`, `HGCROCBoardFiberless.cxx` | phase, bitslip and width of each link, and a copy of the widths | scanAlign, scanBitslip, setupLink | `ELinks` |
| Linux I2C bus, application parameters, logging, Python bindings, register maps, legacy back-ends | see `PROJECT.json` | | | left out, section 8 |

A task (`app/tool/tasks`; `ScanTasks`) is the client of everything else: it opens a test scope
on a ROC (`RocParameters`, on the bits of `Compiler`), which writes over I2C through the lpGBT
I2C masters (`EconI2c` for the ECONs) and its transport (`IcecTransport`); it calls
`daq_run`, which triggers through the fast control (`FastControl`) and
reads the capture block (`DaqRun`); it hands the events to a consumer, which
writes or decodes them (`EventFraming`); and it
derives from them the next value to try (`CalibSearch`, `TotScan`). The user reaches the
tasks, and single accesses to the same hardware, through menus (`Menu`, `Session`). pflib has one
thread. The concurrency is between that thread and the hardware, which
captures, triggers, forwards and answers in its own time, and between a call and the
exception that ends it.

### The behaviours that are hard

* The readout is by the clock: nothing waits for a sample, so late samples are
  filed under another event, and the look at the FIFO and its pop are two calls.
* Requests to the fast control are sent later than they are written, while triggers go on, and
  the calls that stop the triggers for a moment nest in one another.
* Test scopes save and rewrite whole registers that several parameters share,
  they nest, and they are undone by destructors, also while an exception unwinds
  and over the transport that has just failed. A parameter may be spread over registers.
* The register transport has a FIFO in each direction that nobody resets, frames
  without a tag, a time-out and a retry.
* Pins, clocks, links and measurements of a lpGBT share bytes that are read, changed and
  written back; any access may throw in the middle of a sequence.
* A task nests scopes of parameters, some of them the same ones; the delays of the
  fast control have no scope and are set back by hand, and so are the idle
  frames of the word alignment; a failure or an exception can come at every call.
* The bytes of channels run over the ends of words; a sample, a link or the end of a file may be missing, and the
  decoders keep one packet object for all the events.
* Requests and answers of the menus share one queue of words, and which question comes next depends on the answers
  and on what the hardware says.
* The searches are `while (true)` loops over measurements, with integer
  halving, shared thresholds and ends of the range.

### What makes each part correct

* Acquisition: samples in order and once; every sample accounted for; losses
  bounded by what events lack; each sample taken under its own setting; one sample
  of interest; a scan ends whatever the link does; with timely samples the
  record is complete.
* Decoding: no row is made up, none is written twice, and the whole events of a file come out in order.
* Fast control: the block and the chips count the same triggers after a run is cleared.
* Parameters: between the calls the chip holds, for every parameter, what the
  innermost scope that names it says, else the last permanent setting; a
  failure spoils no parameter but those of the failing call; a dump loads back.
* lpGBT: what a finished call set stays set; names lead to their pins; measurements leave nothing on;
  the pin test sees every fault.
* Transport: no wrong value without a reported failure before it; answers
  have the size asked for; calls end.
* Tasks: the columns of a row name what was on the chips when it was taken; a task
  leaves nothing behind that it was not told to keep; what it cannot put back
  is no more than what the failure touched.
* Links: aligned inside a widest window; the
  width that is read is the one that is set.
* Searches: the crossing stays between the ends; giving up is right; the result
  is close; earlier channels stay covered; the loops end.

`PROJECT.json` lists the hazards at their lines, with the properties for each and a
note for those that no property covers. Where the code falls short of one of these, a run of its own shows it (section 3).

## 2. The modules

**`DaqRun`** is a session of scans on one `board`. `pc` is where the program is; `samples`,
`soi`, `l1aPerRor` are the fields of `DAQ` and `FastControl`; `scan`, `point`,
`ievt`, `il1a` are loop variables; `buf` is the vector `read_event_sw_headers` is
building. The hardware is `roc` (the setting on the chip), `frontend` (samples
captured but not yet in the capture block), `fifo` and `l1a`. A sample is the
ordinal of its L1A with the trigger it belongs to and the setting it was taken
under; samples carry no other data. `Configure` is DAQ.SETUP.CONFIG (`DAQ::setup` and
`setL1AperROR`, which wraps in a 5 bit field on the Bittware); `DaqReset` and
`ClearRun` are the two halves of `setup_run`; `ApplyPoint` and `EndPoint` the life
of the test-parameter handle around a run; `SendL1A`, `MergeL1A`, `EndROR` are `sendROR`, whose requests are lost on a mapped
block that has one pending;
`StartRead` or `SkipEvent`, `GetLinkData`, `AdvanceLinkReadPtr` and `Consume` are
`read_event` and the end of the loop body of `daq_run`. `Arrive` and
`ExternalTrigger` belong to the hardware and interleave with all of it.
`delivered`, `lost` and `cleared` are history variables: what the consumer got, what
the advance popped unread, what the resets of `setup_run` dropped.

**`ScanRecord`** is what the user expects of a session: a log, one entry per
trigger in the order scan, point, event, each with all the samples of that
trigger, all taken under that point. `DaqRun!RecordSpec` states that `DaqRun`
implements it, when the samples are timely, with the log computed from `delivered`.

**`Compiler`** is `Compile.cxx` on small bytes. A parameter is a number whose bits lie in the locations its table
(`parameter_lut`) lists; `Compile` is the loop over them (`Put` is one turn), `CompileAll` a whole map
of settings, `Accepted` the two checks that throw, `Extract` a file with its globs and its order. `Decompile` adds
up the shifted bits, each of which the code widens from `int` to 64 bits (`Shifted`). `Held` is what the bits stand
for and the yardstick of the properties.

**`RocParameters`** has one chip, a stack `handles` of live `TestParameters` objects and
one call `op` under way, on the bytes of `Compiler`: registers that hold bits of several parameters are what makes the
whole-register write-back interesting. `OpenScope`, `ApplyParameter`, `LoadOverlay`, `LoadWithDefaults`,
`LoadRegisters` (a CSV file) and `CloseScope` start a call; `ApplyParameters` throws before it touches the chip when
the compiler refuses;
`SetValue` writes one register of `image`, `Retry` and `GiveUp` are a failed
transaction (which may have taken effect), `BadLine` a CSV line that does not parse, `Throw`, `UnwindScope` and `Catch` an
exception on its way through the destructors to the menu; a second failure
inside a destructor terminates the program, as C++ prescribes, and `Restart` is
the next session on the same chip; `HardReset` is the reset line. `intended` and `suspect` are history: the
settings made outside scopes, and the parameters a failed call may have left anywhere.

**`EconI2c`** has one ECON behind one I2C master. `CallWithRead` (applyParameters and
readParameters) and `LoadParameters` start a call; `function` says whether
`getRegisters` or `setRegisters` runs and `todo` what it has left; `stage` is the
place in `general_write_read`, whose two transfers are launched (`StartWrite`,
`BeginRead`) and awaited (`EndWrite`, `EndGet`, `EndSet`, `Poll`, `Throw`). The
master finishes a transfer well or badly (`Done`, `Error`), in its own time.
`Launch` is where a transfer that is too long disappears: the status then still
tells of the transfer before. `wanted` and `suspect` are history: the settings made by
calls that returned, as far as their runs of addresses fit, and the parameters of
calls that threw. In the register maps of the repository the blocks of a table are
disjoint and have at most eight bytes, as the module assumes; their runs are up
to 3011 addresses long, so a load of an ECON-D with the defaults falls almost
wholly under the finding of `econ_long_run`.

**`IcecTransport`** is one bridge to a lpGBT with `read_regs` and `write_regs` of
both implementations (`Bridge`). The poll loop is reduced to its two ends: the
bit is seen, or the count runs out, which is possible as long as the bit is not
there. `ServeRead`, `LoseAnswer`, `ServeWrite`, `ByteArrives` are the hardware: it
answers in order but arbitrarily late, byte by byte, or not at all. A write is not
answered, and its frame starts at the address that was latched with it.
`expected` and `warned` are history: what the writes that returned should
have left, and whether any call has thrown or printed its concern.

**`LpgbtChip`** turns every service of `lpGBT.cxx` into a program: a sequence of accesses to registers,
each a set of bits with a mask and a value. A caller starts one service (`Call...`, through `Serve`); `Step` makes one access and `BreakOff` is the
access that throws. `gpos` and `gpis` are the tables of named pins, which `GPIO::add_pin` fills
during the access that configures the pin. The standard set-ups of the mezzanines are programs made of the services.
`promise` is history: the last value each finished call was asked for, per pin, link, clock or bit, whoever asked (of a transmitter
both whether it is on and whether it is inverted); `asked` is
the promise of the call under way, `left` the analog units an interrupted call has left on.
**`LpgbtBench`** adds what runs over such a chip: the commands and tests of the
mezzanine test bench, the converters and registers of its tester (whose bus errors are printed and forgotten, `Unnoticed`), the
temperature task with its cache of constants, and the pin test, a walk of patterns (`walk`) over a `board` that may have a
line stuck in one direction or two lines joined.

**`EventFormat`** has the words of an event as tuples: the frames of a ROC, zero suppression and packing of
`ECOND_Formatter` byte by byte (`Insert`), what a real ECON-D may do instead, and the unpacking of
`ECONDEventPacket` (`UnpackChannel`, `UnpackLink`, `UnpackPacket` with its four checks), `DAQLinkFrame` and
`TriggerLinkFrame`. **`EventFraming`** is the way from
`read_event` to a row: `setup` is the target, the format, the consumer and the data of a behaviour; `Consume` decodes in memory,
`Store` appends to a file, `Kill` ends pftool with the file cut at any word of the last event, `RunAgain` is the next
run, `OpenFile`, `Pop` and `EndOfFile` the decoder programs and `AcceptFrame` the Rogue one. `ep` is the
packet object, which is kept from event to event as in the code. `From`, `ReadMulti` and `ReadSingle` are the two formats' readers. `setup.unset` is what the array of
checks holds that a packet cut short leaves as it is (`ECONDEventPacket.cxx:323`).
`stored` is history: where each event stands in the file and whether it is whole.

**`FastControl`** gives every call of the class as a sequence of operations on registers, for the mapped block
and for that of the Bittware. `saved` is the stack of copies of the L1A enable in calls that nest, `word` what a
read-modify-write has read and not yet written. `SendReset`, `SendCommand` and `Trigger` are the hardware. **`Menu`** is
`Menu.h`: the `queue` of words, the `path` of menus, the command `cmd` under way with the rest `prog` of its operations and
its answers `ans`. Who types at an empty queue reads the question: `for` says which a line of the terminal answers. **`ELinks`** has the phases, bitslips and widths. **`Session`** composes the three with the menus of
pftool: a command is a sequence of questions, operations of `FastControl` and `ELinks` and others, unfolded
(`Unfold`) when it depends on an answer or on what the hardware says; `Throw` is a command that gives up or a chip that does not answer.

**`CalibSearch`** is one turn of each of three loops per action: `Bisect` and `Binary`
of `vt50_scan`, and `GetCalib`. The run of events behind each turn is a reading
in three levels that rises with CALIB. A threshold begins with the `count` that the
one before has left (`before`). **`TotScan`** is `tp50_scan` with both inner
scans and `trim_tot_scan`, in the SIMPLEROC instantiation, over four levels of the
TOT efficiency, which falls with the threshold. Floating-point efficiencies enter
only through the comparisons the code makes, so the levels are exact; that the response
of a channel is monotone is an assumption about the chip.

**`TaskRunner`** is a session of the menu at the grain of parameters: the chips (`roc`),
the pulse-to-L1A delays of the fast control (`delay`), and one task at a time, whose
`program` is a sequence of steps, one per call of the code. `Open` and `Close` are
the life of a `TestParameters` object (or of a variable that keeps what
`applyParameters` returns, `restores = FALSE`), `Return` and `Throw` a run or a prompt, `ReadCentral`
and `SetDelay` the accesses of a time scan to the delays, `Apply` a setting for good.
`OpenFails`, `ApplyFails` and `PutBackFails` are writes that come part of the way,
in the order of the pages (`Cuts`); `Unwind` is the exception on its way through the scopes, `Terminate`
a destructor that throws, `Catch` and `Leave` the return to the menu. `kept`, `settled` and `spoiled`
are history: what the chips and the delays should be outside the scopes, and what a failed
write or a forgotten variable may have left anywhere. `RocParameters` is the same scopes one level down, with
registers, transactions and attempts.

**`ScanTasks`** holds the programs: one operator per task of the TASKS menu that sets parameters
(and `PHASE_WORD_ALIGN`, `CHARGE_TIMEIN` and the time-in of the trigger links), built
from the same few blocks as the code (`Scope`, `TimeScan`, `Each`). The format of the events and the
answers that change the steps are part of the task's name. A loop visits its
first and its last value; `run` carries the columns of the rows it writes and
the offset of the delay that their time stands for, and which of them the code gets wrong (`wrong`, `untimed`: `RunClaiming`, `UnsetRun`).
`TaskRunner` ends with what makes a program well formed (`Balanced`, `Centres`, `ReturnsHome`, `RowsNamed`);
`MC_ScanTasks` assumes it of the programs of the menu, so TLC evaluates it before it explores.

The `MC_*` modules give the sets of inputs; the `.cfg` files give the sizes. Three of them put components side by side
that belong to one activity and share no state: `MC_Tuning` (`RocParameters`, `CalibSearch`, `TotScan`), `MC_Transfers`
(`EconI2c`, `IcecTransport`) and `MC_Rows` (`ScanTasks`, `EventFraming`). A variable says which of them a behaviour is about;
the others rest in a state in which they have ended or nothing was asked of them. As no component reads another's variables, what such a run
shows of each is what a run of its own would. Names of definitions are therefore distinct between these modules
(`SearchInit`, `TotInit`, `EconInit`, `FramingInit`). A
definition whose comment begins with "Mutated form" or "Variant for a mutation" is a plausible bug in the code; replacing the
definition below it by that form makes the property named in `PROJECT.json`
"mutants" fail in its run.

## 3. The runs

`tlc -config <cfg> MC_<module>` for each row.

| Run | Configuration | Shows |
|---|---|---|
| `daq_late` | two scans of two points of one event; a Bittware with one or three samples per trigger, a field of two L1A counts and one external trigger, or a fiberless board with no, one or two samples and a sample of interest below, in and past the event; no timing assumption, and no fairness for the front-end, which may be dead | `InOrder`, `Accounting`, `LossBound`, `SettingHeld`, `OneSoi`, `ScanEnds` |
| `daq_timely` | ZCU, fiberless board and Bittware, two scans of two points of two events, samples arrive within the pause; several samples per trigger on the Bittware only | `RecordSpec` (refinement of `ScanRecord`) |
| `tuning` | one of three. Parameters: two pages of two registers of three bits, a split parameter, one that fills an `int`; two attempts; scopes two deep; files with a glob, a replaced setting, a missing name, a missing page, and empty | `View`, `Reloads`, `CallEnds` |
| | CALIB: the real range 0..4095 and the real limits; every crossing; the binary search begins with a count of 2, 3 or 27; two responses that are noise | `Bracketed`, `NothingMissed`, `BinaryClose`, `OnlyHopeless`, `SearchEnds` |
| | TOT: four channels on two links, nine responses each, TOT_VREF 0..7, TRIM_TOT 0..2 | `Covered`, `RightlyThrown`, `GlobalClose`, `TrimTight`, `TotScanEnds` |
| `roc_dump` | the parameters alone | violation: `DumpsLoad`, a dump that does not load |
| `transfers` | one of two. I2C: five parameters, blocks of one and two registers, runs that fit, just fit (four bytes with the address) and do not fit, any status at the start | `View`, `ReadsTrue`, `EconCallEnds` |
| | IC/EC: Bittware, three registers, frames of two, two attempts, three calls, one lost answer | `NothingSilent`, `CallEnds` |
| `econ_long_run` | one setting whose run does not fit | violation: `AllSet`, the call returns and the run is not written |
| `lpgbt` | three calls on a low pin and on the one wired elsewhere, one access that throws; 121 boards for the pin test | `Kept`, `NamesTrue`, `Quiet`, `TestSees` |
| `lpgbt_etx` | two calls, the two links of a group | violation: `HalvesKept`, one link's inversion in the half of the other |
| `rows` | one of two. Tasks: 37 with their answers, two ROCs, three channels per link, six boards (tuned, reset, and left by interrupted tasks), a failure possible at every call | `TypeOK`, `Isolation`, `RowsTrue`, `CleanReturn` |
| | Events: two links of four channels, two events in a run, two runs; every pattern of the eight classes of samples; every state of the links; missing samples; files cut at every word and appended to | `RowsReal`, `WrittenOnce`, `Recovered` |
| `rows_noinv` | one task, the same boards | violation: `RowsClaimed`, a row whose columns are not what was set |
| `board_file` | the fiberless board, format of the ECON-D, to a file | violation: `Separated`, several events decoded as one |
| `session` | 33 pairs of a target and a script through its menus, one more line typed, two triggers | `Numbered`, `Aligned`, `WidthTrue` |

Each violation is a disagreement between what a comment, a header or a message
of the repository says and what the code does; `PROJECT.json` "findings" quotes both. A property of that kind has
a run to itself; the property of the passing run next to it says what does hold. Thus
`RowsTrue` is `RowsClaimed` without the columns a step marks as wrong, `Reloads` is `DumpsLoad` for values that an `int`
can hold, `Kept` has of a transmitter what `HalvesKept` does not say, and `Recovered` has every file but those of `Separated`.

* `roc_dump`. `decompile` adds `sub_val << value_curr_min_bit` with a byte promoted to `int` (`Compile.cxx:335`). A parameter of 32 bits
  with the top bit set comes out with 32 more: the default of SC_TESTRAM is 0xCCCCCCCC, so what ROC.DUMP writes of a
  chip in its default state is refused by ROC.LOAD, although `expert.cxx:154` tells the user to do just that.
* `rows_noinv`. The scan of NOINV_VREF sets INV_VREF (`noinv_vref_scan.cxx:62`). Two more programs have rows marked `wrong`
  or `untimed`, and `RowsClaimed` fails on each of them too when it is the only `Task`: the scan of DACB is to be done with TRIM_INV = 0 (`trim_inv_dacb_scan.h:9`), but that 0 is a variable and a column,
  and the chip keeps the TRIM_INV it has; and the pedestal run of the scan over more and more channels (`multi_channel_scan.cxx:182`) prints the first point of the file,
  which is applied only in the loop after it, and a time of 0.
* `lpgbt_etx`. `setup_etx` chooses the half of the shared register by `ipin % 1`, which is 0 (`lpGBT.cxx:608`). The
  shipped callers ask for no inversion and a pulse width of 0.
* `board_file`. The fiberless board ends an event with a header whose sample number is 0 (`HGCROCBoardFiberless.cxx:329`); the reader
  looks for one of ones (`MultiSampleECONDEventPacket.cxx:63`) and goes on into the next event. In memory, where a packet is one
  event, nothing is lost (`rows`).
* `econ_long_run`. A run of registers beyond 16 bytes is dropped without an error (`lpGBT.cxx:725`).

### Disagreements and oddities met on the way

What the model follows, or exempts by name, without a run of its own:

* The empty lines of a script are to be skipped (`main.cxx:205`, `:251`), but the code keeps them as words (`main.cxx:252`): in a menu
  such a word is not understood, and a question takes it for its default. `IsInput` keeps them likewise. What the writer of a script meant
  by a word is nowhere stated, and no property speaks of it; the properties of `session` hold with blank words.
* A write through a lpGBT bridge that is longer than a frame starts every frame at the first
  register (`bittware_optolink.cxx:390`, `lpGBT_ICEC_ZCU_Simple.cxx:107`; the header, `lpGBT.h:32`, promises "a sequence of registers").
  `lpGBT.cxx` writes at most eight at a time, so nobody meets it; `IcecTransport` has it.
* With software headers an event is never empty, so the
  warning of `daq_run` about events without words applies to the fiberless board only.
* The first channel of a link may be accepted by `tp50_scan` above one half (near 0.5 is
  anything from 0.2 to 0.8), which `TrimTight` states as its exception.
* `set_toa` (in no menu) says that the threshold is set while the scope it stands in takes it back.
* For a channel that fires without charge the binary search of `vt50_scan` tries
  2047 + 4095, which the compiler refuses. With the count that a threshold before has left (`vt50_scan.cxx:33` is outside the loop)
  it reads in front of its list instead (`ReadsAstray`), and what it finds there may be anything (`Stray`).
* A refused link leaves no sub-packet and the decoder shifts the links behind it. The CRC flags the sample, and no writer of
  CSV consults the flags: `RowsReal` speaks of samples without a flag.
* `gpio_get` of one pin takes the bit with the mask `1 << (pin & 8)` (`lpGBT.cxx:223`; `GpioGet`). The readings of pins are in no property, and the pin
  test reads whole words.
* The comments of `trim_tot_scan.cxx` disagree on which trim is meant (`:18-19`, `:74`); `TrimTight` states what the loop keeps.
* `POLARITY` sets RX from the opposite of TX (`opto.cxx:68`); `BITSLIP` over all the links goes to eight whatever the target has;
  the default of a bias channel is the number of the board.
* A width of 65 can be typed where the register of the capture has six bits: 65 words are read of a link whose register says 1.
  `WidthTrue` compares the two in the range of the register.

### Bounds, and why they are enough

* `DaqRun`: with two scans, a sample can be left over from one setup_run to the
  next; with two points, from one setting to the next; with a trigger of three samples, from one
  event to the next, and an event can be empty,
  partly filled, full or filled with another event's samples. `FieldSize = 2` makes
  the L1A count wrap at three samples as the real 32 does at 32. One external trigger suffices to
  shift every later event. `delivered` never influences a step, so longer sessions repeat these
  situations.
* `RocParameters`: two registers of a page are the least for a partial write; the split
  parameter makes a register hold two fields; bytes of three bits, an `int` of four and a `uint64_t` of eight keep
  8 < 32 < 64 in the order that matters: `RAM` fills the `int`, as SC_TESTRAM does, with the top bit set in its
  default. Two open scopes are the least that nest; two
  attempts have a retry and a giving up. The number of failures, calls and sessions is not bounded.
* `EconI2c`: blocks of one and two registers, a run at the limit, one past it and a
  gap; failures and calls are not bounded.
* `IcecTransport`: frames of two instead of eight with three registers give
  reads below, at and above a frame; two attempts instead of four; three calls let
  the left-overs of one call meet the next and the one after it. `Header` and `Runaway` are shrunk likewise.
* `LpgbtBench`: pins share bytes in two ways (low and high), and pin 3 is the one that is wired elsewhere; frames of two
  make lists of five start anew; three calls have one that sets, one that disturbs and one that
  looks; the long programs (measurements, set-ups, tests) come first only (`MaxLong`), and one access throws.
  `Etx = {1, 2}` has a link that shares its register and the one that does not; `lpgbt_etx` has both of a group.
  The pin test has all its patterns and every single fault; joined lines are neighbours at one and two.
* `EventFraming`: a channel fills two, three or four bytes, so four channels end at every offset in a word;
  four instead of 37, with a map word of three, keep the channels of both map words. Two links, because a link begins where the one before it
  ended; two runs, because one can be cut and one appended; the cut is at every word of the last event.
* `Session`: scripts are given per target; the numbers are those that change a branch. `MaxL1A` is two
  triggers, so one can fall before and one behind any access. `Top` and `MaxSlip` shrink the ranges of the phases and the
  bitslips; five phases give two windows, open at either end.
* `CalibSearch` uses the real sizes; crossings with a count other than 2 and responses with no value near are sampled, each of the
  first 64 and each 31st. The count grows by one with each reading above one half and a threshold has at most 25
  turns: 2, 3 and 27 are what the first threshold begins with, and the least and the greatest that one such can leave beyond it. `Stray` has one value that CALIB can hold and one that it cannot.
* `ScanTasks`: a session of one task is enough, because `Begin` takes what it finds
  for what the task is to leave, and the boards include those an interrupted
  task leaves; that nothing carries over is `Isolation`, which is proved for any number of
  tasks. Three channels per link give the cross-talk scan a middle
  channel and its neighbours; scans of two loops have two values in each. `Movers` exempts `CHARGE_TIMEIN` from the
  clause of `CleanReturn` on delays: it leaves the delay where its last point had it.
* `TotScan`: three channels on the first link are the least in which a later channel changes the
  value of one scanned by the local search; the second link (one channel) shows that
  links do not disturb each other; the curves cross below, in and above
  the range, at once or over a value or two.

`CHECK_DEADLOCK FALSE` is there where the system really stops: after `MaxCalls` calls (`transfers`) or `MaxServices` services (`lpgbt`), at
the end of the file and after `MaxTasks` tasks (`rows`), when the user leaves the last menu (`session`).

### Fairness

`pflib` has one thread, so weak fairness of the program's steps (`Program`, `Run`,
`Step`, `Search`, which are each disjunctions: no single action is owed anything; `Progress` and `Programs` of the runs
that have several components are these of the one a behaviour is about) says only that the
process is scheduled. `DaqRun!ProgramSpec` has no more than that;
`FairSpec` adds that the front-end forwards what it captured, and
`daq_timely` needs it because there the pause waits for `frontend` to be empty.
`EconI2c!EconFairSpec` adds that the I2C master finishes a transfer, well or badly, because the code
waits for it without a limit. `RocParameters!Run` is what goes on once a call is made or an exception thrown. `ScanEnds` and
`IcecTransport!CallEnds` are checked without any fairness of
the hardware, which is their point: the code waits by the clock or counts down. The user's and the client's
choices (`Configure`, calls) get no fairness of their own.

### Assumptions about what is outside the sources

* The chip and the capture blocks deliver samples in order and do not duplicate them; a FIFO is deep enough.
* On the Bittware, the chain of L1As of one trigger has been sent when the register write returns.
* On the mapped block an L1A comes up to an orbit after its request (`FastControlCMS_MMap.cxx:64`, `:215`) and a request made meanwhile
  adds none: `MergeL1A`. `SendL1A` takes the L1A at its request, which nothing in `DaqRun` can tell from one that comes before the chip is
  set again. Requests cannot merge after a setting (I2C is slower than an orbit) and, where `Timely` holds, after the pause. The late arrival
  of requests itself is in `FastControl` and `Session`.
* An empty FIFO reads as no sample (`NoSample`), on the fiberless board too.
* `Timely` (only in `daq_timely`) is what the pause of `daq_run` is for: the
  samples of a trigger reach the capture block within it, and no request is left. `daq_late` is without it.
* A request to the fast control has been sent when the pause of a millisecond behind it in `clear_run` is over. The calls
  alone (`LINK_RESET`, `BUFFER_CLEAR`) have no such pause: they may switch the L1As on again before their
  request has gone out.
* I2C: a transaction may fail before or after the chip took the byte. `RocParameters`
  excludes a permanent setting of a register an open scope has saved; that the tasks of the
  menus keep to this is what `CleanReturn` checks of `ScanTasks`.
* A hard reset leaves every parameter at its default, and the registers' other bits at zero.
* A shift by the width of `int` or more, which `decompile` makes for the one parameter of 36 bits and which C++ leaves undefined, is
  taken modulo that width, as both kinds of processor do. `Reloads` claims nothing of such values (`SmallValues`).
* The points of a file name parameters other than PHASE_STROBE, which the time scans set
  themselves; only the calls of a task touch the chips while it runs. The centre and the
  points of a time scan fit the field of the delay (8 bits on the Bittware).
* The bridge of `IcecTransport` sends what is in the transmit FIFO when the frame is
  started, and answers in order.
* The I2C master of an lpGBT clears its status when a transfer is launched and works on one transfer at
  a time; the transport below it does not fail in the middle of one.
* A CRC matches only the content it was computed from; words behind the end of a packet never match one.
* Once a word that is no header has been taken for a header of the DAQ, where nothing is checked, `EventFraming` follows
  the decoder no further (`phase = "lost"`); what it wrote before is still judged.
* Responses in the searches are monotone in the setting (except for the noisy cases of `MC_CalibSearch`).

## 4. What is proved

The theorems hold for every value of the constants that the named assumptions of
each module allow; TLAPS checks the proofs to the last leaf.

* `DaqRun_proofs!TypeCorrect`: `Spec => []TypeOK`. `TypeOK` is inductive; the work is
  in `L1AType`, `SetupType` (a wrapped or sanitised number is still a
  natural number) and in the sequences of `buf` and `delivered`.
* `DaqRun_proofs!OrderCorrect`: `Spec => []InOrder`. `InOrder` speaks of what has been
  read only, so it is not inductive: the invariant `OrderInv` adds that the FIFO and
  the front-end are in ascending order, that all of the FIFO is older than all of
  the front-end and no younger than `l1a`, and that everything read is older
  than everything still queued, except the peeked head of the FIFO while `pc =
  "advance"`. That exception is the point of the proof: `getLinkData` makes the
  head both read and queued, and `advanceLinkReadPtr` must end that
  before the next look. There is one lemma per kind of step (`L1AOrder`, `ArriveOrder`,
  `GetLinkDataOrder`, `AdvanceOrder`, `FewerOrder` for the resets).
* `DaqRun_proofs!SettingCorrect`: `Spec => []SettingHeld`. The property speaks of the samples and is not inductive: the
  invariant `SettingInv` adds that from `ApplyPoint` to `EndPoint` the chip has the setting of the program's
  point, which is what a trigger sent in between finds (`L1ASetting`).
* `DaqRun_proofs!SoiCorrect`: `Spec => []OneSoi`. `MarkInv` adds that the event under construction marks the
  subpacket behind `soi` others and no other, that it is empty outside `read_event` (so that
  DAQ.SETUP.CONFIG cannot change the choice under it), and that `soi` is inside the event or zero.
* `DaqRun_proofs!AccountingCorrect`: `Spec => []Accounting`. A sample is in the front-end, the FIFO, an event, or gone
  by a reset or an advance, and in one of them only. Between `getLinkData` and `advanceLinkReadPtr` the head of the
  FIFO is in two: `PeekInv` says that it is still the head when the pointer advances, unless the read
  found none; `OrderInv` that no two places hold the same.
* `DaqRun_proofs!LossCorrect`: `Spec => []LossBound`. `LossInv` counts: what was thrown away, and what the next advance may
  throw away, is at most the number of empty subpackets (`EmptyShape` says where those are).
* `DaqRun_proofs!ImplementsRecord`: the step simulation behind `RecordSpec`. `Undisturbed` is what the run `daq_timely`
  has: samples arrive within the pause, no trigger comes from outside, the registers are wide enough for the
  numbers entered, and where requests merge a trigger is one request (`OneWhereMerging`). `RecInv` says where the program is in the session (`Position`), where the samples of the trigger under way are
  (`Queues`, `Contents`) and that they are of that trigger. That a session *ends* (the fairness of
  `ScanRecord!Spec`) stays with TLC.
* `CalibSearch_proofs!BracketCorrect`: `Spec => []Bracketed`. `BracketInv` adds that
  the last reading was taken at the last value, and that this value is between the ends and not
  the lower end after a high reading, which is what lets the bracket
  shrink without meeting.
* `CalibSearch_proofs!MissedCorrect`: `NothingMissed`, under `EnoughTurns`: some sequence of widths that halve reaches
  one value within the turns allowed (`CodeHasEnoughTurns` shows it for 4095 and 25). The bracket of `BracketInv` is
  then no wider than that sequence. `Top > 2` is needed: with two values the first middle is an end.
* `CalibSearch_proofs!HopelessCorrect`: `OnlyHopeless`, where `StepDown` divides the first value (50 and 1000 in the code).
  `HopeInv` says that the search is on a multiple of the step or has passed the target, so it cannot step over 0.
* `CalibSearch_proofs!BinaryCorrect`: `BinaryClose`, under `EnoughHalvings`: the steps shrink to 1 within the turns allowed and `Slack` covers
  what is lost (`CodeHasEnoughHalvings` shows it for 4095, 25 and 12), for whatever `count` the threshold begins with. Half steps are rounded down and the lower end is looked up in
  the list of values tried, so the crossing is not between two ends: after low readings it drifts up to one value per
  halving out of reach (`Below`), after high ones the step and the distance to the lower end part by one in two turns
  (`Above`). `HalvingInv` bounds both drifts and the step.
* `TotScan_proofs!CoveredCorrect`: `Spec => []Covered`. `CoverInv` adds `Global` (the
  bisectional search runs only for a link without a value), `Local` (the local
  search goes up from the link's value) and `Begun` (a scanned channel's link has a
  value). With `FallsWithVref` and `Neighbours` a later channel can only raise
  what earlier ones rely on.
* `TotScan_proofs!ThrownCorrect` and `GlobalCorrect`: what the bisectional search of the first channel has found when it gives up
  and when it settles, the second under `EnoughTurns` (shown for 600 and 40).
* `TotScan_proofs!TrimCorrect`: `TrimTight`. `Trying` is the loop over the trims: the target is the last trim that read below one
  half, one below the trim under test; `Covered` gives the first of them.
* `RocParameters_proofs!ViewCorrect`: `Spec => []View`. `View` speaks of the innermost scope that names a
  parameter; what makes it inductive is what each handle has saved. `Levels` says, for every number of
  scopes closed, that the chip then *would* hold what the scopes left would say, and what was there before the first.
  While registers are being written the chip is between what it held and the image
  (`Mixed`), and `Before` says what it held.
* `RocParameters_proofs!CompilerCorrect`: `CompilerExact`, what these calls rely on in the compiler: settings compiled onto
  registers have their values then and leave the other parameters alone. `Compile`, `Held` and `MinBits` are folds, and a fold
  from the community modules is a recursive function; each is shown to end a chain of values, one per field, and what holds of
  every link is shown by a least counterexample (`LeastExists`) in place of induction. Below
  that is arithmetic: what `Put` makes of one field of a byte and of the disjoint ones, that a remainder by a power of two gains
  one field at a time (`RemainderNext`, `DigitsOfHeld`), so that a value is given by its digits.
* `RocParameters_proofs!ReloadsCorrect`: `Spec => []Reloads`. `decompile` adds the fields as an `int` that is widened with its
  sign: below 2^(`IntBits` - 1) that is the value (`DecompileSmall`). For the load itself `CompiledIs`
  says that whatever the registers held before, the image holds the file.
  The invariant `IntendedInv` is that the settings intended are numbers. `LostDumps` is the other side, for every table: with the
  top bit of an `int` set the value is too large for the parameter (`DecompileSigned`), and the compiler refuses the file.

  The assumptions of `Compiler` are those of the register maps: locations of a register, a first bit and at least one bit,
  inside a byte and without overlaps (`register_maps_types.h:23-41`), a default put together from the same bits
  (`byte-pair-to-page-reg.py:71-75`), parameters that fit a `uint64_t`. `PowerAssumption` is there because the
  provers know nothing of `^`; it is true of any numbers. `ValueAssumption` says that settings are natural numbers. TLC evaluates all of them on the table
  of `MC_RocParameters`, and `CompilerExact` itself for every content of the registers (`ExactAssumption`).
* `EconI2c_proofs!TypeCorrect`, `ViewCorrect`, `ReadsCorrect`: without hypotheses. The status the program polls has no tag, so it may be
  that of an earlier transfer; `BusOK` says that the master works on what the program awaits and on nothing
  else, `GetOK` and `SetOK` which of the registers have been read or have landed at each stage. The blocks and runs of addresses
  have lemmas of their own (`LeastExists` and those that follow).
* `Lpgbt_proofs!TypeCorrect`, and `SilentCorrect` (their invariants are in `IcecInvariants`): `NothingSilent` on the Bittware while no write is longer
  than a frame, which `write_regs` does not handle (section 3). `InStep` says where the bytes of a frame are (`Asked`,
  `Answered`, `Lost`, `Loaded`, `Sent`) as long as nothing was repeated; once it was, the call ends with a warning or an
  exception. The ZCU bridge does not look at what it drains, and is only typed.
* `Lpgbt_proofs!WalkCorrect`: `TestSees`. `Walks` says what the errors counted so far tell: none if and only if the patterns
  driven so far came through the lines of the board unchanged (`PinsDriven`, `PinsRead`: what the two tables of the program and
  the wiring make of a pattern is the pattern). `FaultSeen` is the other half: a stuck line changes a
  walking one or a walking zero, and so does a pair of joined lines.
* `Lpgbt_proofs!QuietAlways`: `Quiet`. A service is a program of accesses, and the invariant `UnitsInv` (this one and the next
  two are in `LpgbtInvariants`) speaks of what is left of it:
  it leaves no unit on (`Leaves`), and switches off every unit that is on and that no interrupted call has left on
  (`Off`). That is kept by an access because every program of the code, from the pins to the standard set-ups and
  the tests of the bench, is tidy (`Tidy`), which is one lemma per service. Programs are joined with `FlattenSeq`, a recursive
  function; `FlattenStays` says that a set of programs closed under concatenation has every program
  made of its members. Without induction theorems it is shown by a least counterexample (`LeastInSet`).
  A list of registers is written in frames of adjacent registers (`WriteTidy`), by the same argument.
* `Lpgbt_proofs!NamesAlways`: `NamesTrue`. The property says nothing of the names a call under way is changing, and a call may
  break off after any access; `NamesInv` adds that a name asked for is in the tables already and spared by what is left of the
  program, or brought by an entry to come (`Right`), that the entries to come differ in name and in pin, and that no
  promise made is touched by them (`Spares`). That a pin loses its old name when it gets a new one is what
  makes a finished call's list of lost names (`LostNames`) true. It needs `UnitsInv` for the shape of the program.
* `Lpgbt_proofs!KeptAlways`: `Kept`. Registers are shared: pins, links, converters and fields have their bits side by side, and
  each service writes its own with a mask or a whole register. The proof goes bit by bit. `Effect` is what an access does to a bit,
  `Ends` what a program does (the last access that writes the bit decides); an item has bits (`Foot`) and what each should
  be (`Goal`). One lemma per service says that its program brings its items and leaves the bits of every other item alone
  (`Does`); `DoesJoin`, `DoesFlatten` and `DoesEach` put programs together, with `LeastInSet` in place of induction.
  `KeptInv` is then that what was promised is met and spared by what is left of the program, and that what is asked
  will be met by it (`WillMeet`), so that a program may be at any of its accesses. `SetGPO` goes through a name, which
  may lead anywhere the tables do: `KeptInv` also keeps names on the pins of the mezzanine. It needs `UnitsInv` and
  `NamesInv`, and that transmitters are numbered to 6 (`setup_etx` returns at once for others, `lpGBT.cxx:584`). The theorem says of
  a transmitter that it is on or off as promised, and of the third that it is inverted or not (`SoleIs`: it is alone in its register). Of the others the code
  does not keep that: `lpgbt_etx`.
* `TaskRunner_proofs!TypeCorrect`: `Spec => []TypeOK`, for every program of a task. `TypeInv` adds the
  types of the program under way and of the handles.
* `TaskRunner_proofs!IsolationCorrect`: `Spec => []Isolation`, for any tasks, any nesting of
  scopes and any failures. `Isolation` speaks of the parameters that no handle
  names and is not inductive: when a scope closes, what it puts back has to be the value of outside.
  `OutermostInv` adds that the outermost handle that names a parameter kept that
  value, whatever the handles inside it keep; `SpoiledInv` that nothing is spoiled while a task runs normally,
  which makes it true of a handle just opened. The step lemmas are one per way a handle
  comes and goes: `OpenStep`, `PutBackStep`, `ForgetStep`, `FailedStep`, `ApplyStep`.
* `TaskRunner_proofs!CleanCorrect`: `CleanReturn`, for programs that close what they open (`Balanced`), scan in time around a centre
  read when the delay was at home (`Centres`) and end at home (`ReturnsHome`; not for `Movers`). `SoFarInv` is
  the invariant: as many handles as the steps so far have left open, and each delay where the last step that sets it
  put it. Together with `IsolationCorrect` nothing of such a task is left.
* `TaskRunner_proofs!RowsCorrect`: `RowsTrue`, for programs whose rows claim what the scopes around them set (`RowsNamed`; but for what
  they mark as `wrong` or `untimed`). The difficulty is what a closing scope puts back: it must be what the scopes further out set. `KeptInv`
  gives each handle the step that opened it and says that it has kept, of what was set around that step, the values set (`SetInv`
  says that the chips have them). `SetByOpen`, `SetBefore` and `SetAround` are the lemmas about programs: what is set after
  a step is set by it, was set before it, or was set before the scope it closes.

`Balanced`, `Centres`, `ReturnsHome` and `RowsNamed` are facts about the constant `Program`. `MC_ScanTasks` states them as assumptions
(`ReturnAssumption`, `RowAssumption`), so TLC evaluates them on every program of the menu: the theorems say
that a task that is well formed step by step behaves, whatever is thrown and whenever, and the run that the tasks of the menu
are.

* `Session_proofs!NumberedCorrect`: `Spec => []Numbered`, for both fast controls, any script and any operator, with the commands
  of all the menus. Two things make it inductive. One is where a clearing command is: `Spells` says that what it has still to do is the
  rest of `clear_run` (`MappedOps`, `PulsedOps`) with questions before it and a trigger after it, so its place is a number, and
  `MaskedUpTo` and `CalmUpTo` say what holds at each place: from the mask on no trigger is let through, what a nested call
  restores is the mask, and a request is out at the end of the pause behind it. The other is that every other command
  is `Quiet` (`ProgramQuiet`, and `UnfoldedQuiet` for what depends on answers): it writes no request that resets one of
  the two counts, and none such is still waiting (`Agree`), so a late request cannot part them either.
* `Session_proofs!WidthCorrect`: `WidthTrue`. `WidthInv` says it of what would be kept if nothing is yet.
* `Session_proofs!AlignedCorrect`: `Spec => []Aligned`, for any number of links and chips, any distance and number of phases and any
  windows. It has two halves. `ScanCentred` is about `scanAlign` alone: the windows are the stretches of phases without mismatch
  (`WindowsAre`, `AroundWindow`), the widest by their ends has as many points as any (`NoMorePoints`, which is not obvious: a
  window open at the limit ends at 255 and the others just before a mismatch), and its middle is inside, and not at the edge of
  one of three points (`ThirdPoint`, `MiddleIs`). The other half says where an alignment is: `Underway` lists what may be left of
  `AUTO`, and at each place which links are done and which chips are as they were before the reset. A command that ends before
  its program does, by an exception or the end of the input, sets nothing in `aligned`. After that `AlignedInv` needs every
  program but five (`Handled`) to leave links and chips alone (`StartedUnhandled`, `UnfoldedPlain`); the invariant found the
  fifth, `STANDARD`, which puts a chip of the fiberless target in run mode (`daq.cxx:217`).

The assumptions of `Session` and `ELinks` are that links and chips are numbered from zero, that numbers typed are numbers, that the
registers of the captures can hold the widths they are found at, and that the phases tried are more than one apart and fit their register.

## 5. What is only model-checked

* `RowsReal`, `WrittenOnce`, `Recovered` of the decoders (section 7).
* The properties of the runs that end in a violation, with `LostDumps` as the one that is also shown in general.
* Liveness (`ScanEnds`, `CallEnds`, `EconCallEnds`, `SearchEnds`, `TotScanEnds`, the fairness of `RecordSpec`): fairness and ENABLED are out of the
  prover's reach.
* The hypotheses of the theorems that are facts about concrete programs: `Balanced`, `Centres`,
  `ReturnsHome`, `RowsNamed`. TLC evaluates them as assumptions.

## 6. Abstractions a reader should know

* In `DaqRun` a sample is its ordinal, trigger and setting, and event headers are an
  index and a sample-of-interest mark; their words are in `EventFraming`. The SIMPLEROC format of the fiberless board is
  there too; `DaqRun` has the events with software headers.
* In `EventFormat` a measurement of ten bits is a small number, and a byte of a channel is the channel's content with the
  number of the byte: the codes and the measurements fill whole bytes, so every boundary is one of
  bytes.
* Registers that the direct access of ROC reads and the ECON's little-endian
  decompile are not in `Compiler`; the latter's parameters list contiguous, sorted blocks of at most eight bytes.
* `Session` has the menus of the hardware at the grain of accesses; the menus ROC, ECON and TASKS are `RocParameters`,
  `EconI2c` and `TaskRunner`. The LED flavours of CHARGE and of the bias commands have their shape and are not repeated.
* The analog results of a lpGBT, and those of its tests that only compare a voltage, are left out: the programs
  are the accesses.
* `TotScan` takes the charge of each channel as found.

## 7. Plan

Modules to come are written without RECURSIVE operators where theorems are planned.

1. Proofs: `WrittenOnce` and `Recovered` of `EventFraming`, as far as they do not need its recursive operators.
2. `level_pedestals` and `toa_vref_scan` over small responses, with the division of zero by zero as its own outcome.
3. `align_econ_lpgbt` and the ECON part of `align_phase_word`.
4. `UioTable`: the table of shared mappings, if a program comes to open a block again.

## 8. Not modelled, and why

Register tables, YAML parsing, logging, the layout of CSV lines, tab completion, the Python bindings and
the register maps are data or pure I/O. The Linux I2C bus is a thin layer over `ioctl`. `trim_toa_scan` is a least-squares
fit in floating point, and so is the conversion of temperatures. The status counters and the
link set-up of the ZCU transceivers are register sequences without a condition. The Rogue and other
legacy back-ends are retired hardware behind build options. `PROJECT.json`
"components" says this for each part.

Reads of variables that were never set, which the model does not enter: `enables_read` of the mapped block leaves
`extl1a` alone, `enabled_` of the fiberless DAQ and `disable_ZS_` have no initial value, `get_mode` of the
bench returns without an address, `tot_vref_scan.cxx:54` uses arrays before it fills them; `max_element` of an
empty buffer (`get_calibs.cxx:76`) is dereferenced when every event was skipped; the ZCU bridge takes the first byte of an
answer that may be empty (`lpGBT_ICEC_ZCU_Simple.cxx:42`). The wait loops of the lpGBT's converters and fuses have no limit;
in the model the hardware answers them.
