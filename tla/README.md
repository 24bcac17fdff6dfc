# Verification of opera-libretro

Opera is a 3DO emulator built as a libretro core. This directory holds TLA+
models of the parts of it whose correctness depends on order: two threads
sharing an audio ring, a frame loop that interleaves the guest with timers,
audio channels and interrupts, an ARM core that swaps register banks under
aborts and resets, a cel engine whose drawing is deferred, a display list the
guest rewrites while it is walked, a CD-ROM drive behind an expansion bus, disc
images opened over each other, save states that are loaded piece by piece, and
NVRAM files that must survive a crash. Each module is written from the C source;
`PROJECT.json` gives the source lines of every definition, the runs, the mutants,
the hazards and the theorems.

    tlc -workers 4 -config DspThread.cfg MCDspThread     # one run
    tlapm DspThreadProofs.tla                            # the proofs of one module

## Inventory

### DSP thread and audio path — `opera_lr_dsp_threaded.ic`, `opera_lr_dsp.c`, `retro_spsc.c`, `retro_eventcount.c`

*State.* The mode (`g_DSP_THREADED`), the unthreaded buffer and its index, the
atomic tick count and running flag, the private count of ticks for which the
thread was woken, an SPSC ring and an event count from libretro-common.
*Operations.* `opera_lr_dsp_process` (one DSP tick), `opera_lr_dsp_upload` (end
of frame), `opera_lr_dsp_init`/`destroy` (mode switch), and the thread's loop.
*Interaction.* The emulated clock calls process, `retro_run` calls upload, the
core options call init; samples go to the frontend's batch callback.
*Hard.* Two threads, lock-free; a notify skipped for most ticks; a join; a ring
whose spans are handed out without a copy; mode switches with samples in flight.
*Correct when.* No wake-up is lost, the join returns, reader and writer never
share a slot, every tick runs at most once, samples come out in order.

### ARM60 — `opera_arm.c`

*State.* `USER[]`, what the current mode sees; `CASH[]` and `FIQ[]` and the pairs
of the other modes, what it does not; CPSR and SPSRs; the abort flag; the pending
soft reset; the overlay of ROM over low RAM with three limits cached for the fast
paths.
*Operations.* Instructions as far as they move registers between modes, the
exceptions, FIQ entry, a store that resets the machine, power-on, state files.
*Interaction.* CLIO asks for FIQs and is the target of the resetting store; the
memory configuration of a loaded state changes the map.
*Hard.* Where a register is kept depends on the mode before and after; user-bank
transfers reach across banks; a store resets the core in the middle of an
instruction that still has a write-back, further words or an abort to do; the
ARM chunk of a state is loaded before the memory configuration it belongs to.
*Correct when.* The banks are one flat register file, a reset hands over the
interrupted program, user mode is left only through a vector, the cached limits
are those of the overlay and of the configuration in force.

### MADAM: cel engine — `opera_madam.c`

*State.* The engine's FSM, the deferred-drawing flag, the cycle until which it is
busy, `NEXTCCB`; the control port's DMA length.
*Operations.* Register writes (start, stop, pause, continue), the tick in which a
pending list is walked and drawn, soft reset, init, both state formats, DMA of
the control port.
*Interaction.* The frame loop ticks it before each instruction; its busy time is
compared with the clock; the DMA reads the peripheral bus.
*Hard.* Starting and drawing are apart; stop, pause, reset and load come between;
busy time is absolute and the clock can be replaced.
*Correct when.* A started list is drawn once, the engine comes to rest, busy time
moves with the clock.

### Peripheral bus and input — `opera_pbus.c`, `lr_input.c`

*State.* The chain of records of a frame, its length, and whether it was closed.
*Operations.* Reset, a record per device, padding, the DMA that reads it.
*Correct when.* Every transfer of a frame, of whatever length and however often,
brings whole records in the order of the ports and terminators behind them.

### VDLP: display — `opera_vdlp.c`, `opera_vdlp_i.h`

*State.* Current and next list entry, lines left, bitmap addresses, the line of
the forced transfer, PAL/NTSC latch, output cursor, hires flag, pixel format.
*Operations.* One scanline; writes of the list head, the DMA switches and the
list itself; hires switch, init, state files of both versions.
*Interaction.* The frame loop calls it once a line; MADAM's control register
switches its DMA; the frontend reads the buffer at the end of a field.
*Hard.* The guest rewrites the list while it is walked; old states have no forced
line and mean another thing by the cursor; each pixel format has its own
renderer that must move the output equally far.
*Correct when.* An entry lasts as long as it asks, the lines of a bitmap come in
order, the traversal resumes where it was, the forced transfer comes once per
field, every visible line lands where the frontend looks.

### CD-ROM drive, expansion bus, DIPIR — `opera_cdrom.c`, `opera_xbus.c`, `opera_xbus_cdrom_plugin.c`, `opera_clio.c`

*State.* The drive's poll register, command, status and data FIFOs, blocks
outstanding and their schedule, disc and spin flags, the ODE playlist and launch
flags; the bus's selected unit; CLIO's two DIPIR latches and XBUS interrupt bit;
MADAM's XBUS DMA length.
*Operations.* Register reads and writes by the guest, the tick of each clock
step, DMA, local reset through the poll register, DIPIR reset, core reset, and
`retro_run`'s consumption of a launch request.
*Interaction.* ARM core → bus → drive; drive → bus → CLIO interrupt; bus → CLIO
latches → abort of later ARM accesses; drive → libretro core (launch request).
*Hard.* Five entry points load the next sector; a status that must wait for
data; a media change that must wait for a response; protection that appears
between enabling a DMA and its retry; resets at any point of a launch.
*Correct when.* No byte is lost or repeated, the flags tell the truth, reads are
paced, a launch never loses its path, its response or its media change.

### Disc images — `retro_cdimage.c`, `cuefile.c`

*State.* The streams and their cached positions, the CHD's decoder, the track table,
the CHD's map, sector size and offset.
*Operations.* Open (ISO or BIN, cue sheet, CHD), read a sector, close; a launch
opens a new image before it closes the old one.
*Hard.* Opening fails half way, with some files of a sheet open or the decoder
over its stream; a read that fails or falls
short leaves the cached position wrong; tracks of different sector sizes share a
file; CHD tracks are padded and have gaps that are stored or not.
*Correct when.* No stream or decoder leaks or is closed twice, the table is the disc
as mastered, every read brings its own frame, in full where the file has it.

### Save states — `opera_3do.c`, `opera_state.c`, `libretro.c`

*State.* The machine's parts, the memory configuration, the ROMs, the
peripheral bus, the legacy-bus flag, the ODE session.
*Operations.* `retro_serialize`, `retro_unserialize` (dry run, load, rollback)
over four file formats.
*Hard.* Parts are committed one by one and a later one can fail; the dry run and
the load are two paths over the same bytes; the backup has another format than
the file; ODE forbids backups.
*Correct when.* A failed load changes nothing, a good one is the whole file,
validation implies loading.

### NVRAM files — `opera_lr_nvram.c`, `opera_nvram.c`

*State.* The image in memory, a file per store (shared or per game), its `.tmp`
sibling, its fallbacks in older places.
*Operations.* Load with fallbacks and formatting; save by temporary file and
rename; callers: game load and unload, reset, ODE launch, options.
*Hard.* Death between any two steps, short writes, failing renames, failing
resets, the path or the option changing between load and save.
*Correct when.* A store always holds a whole image, the last one saved, and of
the right game.

### Clock and frame loop — `opera_clock.c`, `opera_3do.c`, `opera_region.c`

*State.* Three 16.16 accumulators (samples, timers, scanlines), the slot of the
timer scan, frequency, region and slack; the line of the frame, the field, and
the cycles left over from the last frame.
*Operations.* `opera_3do_process_frame`: run one instruction, split its cycles
into steps of 32, and in each step run the DSP, the timer slots and the
scanline that are due. The options change frequency and region between frames,
the guest changes the slack at any time.
*Interaction.* The loop calls everything else: ARM core, DSP, CLIO, VDLP, XBUS.
*Hard.* Periods change under a part-filled accumulator; a frame ends inside an
instruction's cycles; one loop waits for an accumulator to drain.
*Correct when.* No cycle is lost or counted twice, no accumulator grows without
bound, a frame ends, a field raises its vertical interrupt once.

### CLIO timers, interrupts, DSP FIFOs — `opera_clio.c`, `opera_madam.c`

*State.* Sixteen timers with count, reload and control bits and one carry; two
banks of interrupt and enable bits; the DMA enables; for each DSP channel the
current buffer, the cursor and the next buffer.
*Operations.* Timer slots, register writes with set and clear addresses, reads
and writes by the DSP, buffer completion.
*Hard.* The carry lives between two slots; the guest rewrites buffers between
two samples.
*Correct when.* A cascade counts like one wide counter, buffers are played once
each, in order, to the end.

### The rest

* *libretro entry points and core options* (`libretro.c`, `opera_lr_opts.c`,
  `libretro_core_options.c`): lifecycle, reset, options. Modelled as far as the
  parts above see them.
* *SPORT, DSP instruction interpreter, fixed point, matrix unit, pixels* and
  *vendored code*: see "Not modelled". The guest program is any sequence of
  register accesses.

## Modules

| module | models | state ↔ code |
| --- | --- | --- |
| `DspThread` | the audio path, both modes, both threads | one action per atomic access or per stretch between two of them; `posted` is `g_DSP_TICKS`, `done`, `target`, `count`, `wn` are locals of the thread, `mpc`/`tpc` say where each thread is |
| `DspStream` | what the audio path promises | ticks asked for, ticks run, samples delivered |
| `MCDspThread` | instance; the refinement mapping `DspThread` → `DspStream` is at the end of `DspThread` | |
| `DspThreadProofs` | the theorems about `DspThread` and the refinement of `DspStream` | |
| `Arm` | the ARM60: one operator per function or instruction class, core before → core after | the record `cpu` is `CPU` with the globals beside it; `bank["user"]` is `CASH[]`, `bank["fiq"]` is `FIQ[]`, the others are the pairs; `direct`, `low`, `clear` are the cached limits; `at` says whether the switch of `opera_arm_execute` has been left |
| `ArmRegisters` | what the ARM60 promises about its registers | one flat file, no banks |
| `MCArm` | registers, lists, memory configurations, saved guests | |
| `ArmProofs` | the theorems about `Arm` | |
| `Madam` | cel engine, control-port DMA, guest, frontend | `cel` holds `FSM`, `g_CEL_DRAW_PENDING`, `g_CEL_BUSY_UNTIL`, `NEXTCCB`; `walk` the locals of `opera_madam_cel_handle`; `owed`, `devices`, `image` are histories |
| `Pbus` | the peripheral bus: one operator per function | `buf`, `finalized` are `PBUS`'s fields |
| `MCMadam` | cel lists and device chains | |
| `MadamProofs` | the theorems about `Madam` and `Pbus` | |
| `Vdlp` | display list, output cursor, guest, frontend | `vdlp` is `g_VDLP`, `curbuf` is `g_CURBUF - g_BUF`; the variables in `history` are histories |
| `MCVdlp` | list entries | |
| `VdlpProofs` | the theorems about `Vdlp` | |
| `Clock` | `opera_clock.c`: one operator per function, clock before → clock after | the record `clk` is `g_CLOCK`; the `cycles_per_*` fields are functions of the others, `until` is `cycles_until_timer` |
| `ClioFifo` | one DSP channel: one operator per function | `idx`, `start`, `next` are the fields of `clio_fifo_t` |
| `FrameLoop` | frame loop, CLIO's timers, interrupts and channels, guest, DSP accesses, options, reset | `pc` says where the loop is, `cycles` is `cnt` and then `g_FRAME_CYCLE_REMAINDER`; a register is the set of its bits; `expect`, `touched`, `fed`, `vints` are histories |
| `MCFrameLoop` | regions and guest programs | |
| `FrameLoopProofs` | the theorems about `FrameLoop` | |
| `Cdrom` | the drive: one operator per entry point, state before → state after | the record `cd` is `g_CDROM_DEVICE` with `g_CDROM_STATE`; `rd` is a history of the current read |
| `XbusCdrom` | bus, CLIO latches, DMA, guest, clock, frontend around one drive | `sel`, `dipir`, `dma`, `fiq`; a guest access that would abort is disabled |
| `MCXbusCdrom` | the commands and poll writes of each run | |
| `XbusProofs` | the theorems about `XbusCdrom` and `Cdrom` | |
| `CdImage` | cue parser, three ways to open, addressing, reads, close | `CDIMAGE` is `cdimage_t` with the CHD's map; `fds` are the host's open streams with their real positions, and the CHD decoder (file 0 of its image); `buf` is the last sector with where it came from |
| `MCCdImage` | discs with the layout they were mastered with | |
| `CdImageProofs` | the theorems about `CdImage` | |
| `SaveState` | save, dry run, load, rollback | `m` is the machine, `slot` the frontend's save, `call` a history |
| `MCSaveState` | memory configurations | |
| `Nvram` | files, sessions, saves step by step, crashes | `ses` is the session with its step in `nvram_save`; `committed` a history; the specification is `NvramSpec` (`NvramInit`, `NvramNext`), so that one module can take both |
| `MCNvram` | games | |
| `PersistenceProofs` | the theorems about `SaveState` and `Nvram` | |

Operators named like a C function model that function. Operators introduced by
a comment "Mutant:" are deliberately wrong variants of the definition after
them; no specification uses them. `PROJECT.json` pairs each with a property it
breaks, to show that the property depends on the code it is about.

### Abstractions

*DspThread.* A sample is the number of the tick that made it. The ring and the
event count are modelled at their atomic accesses, in sequentially consistent
order: a span is free and contiguous, `commit_wait` blocks only if no notify came
after `prepare_wait`, and may wake without one. Positions do not wrap at 2^32. A
thread that cannot be created leaves the mode unthreaded. `DspStream` always allows pending
ticks to be dropped (`Dismiss` has no guard): that they run is for `TicksAccounted`,
`WokenTicksRun` and the run `dsp_stop` to say.

*Arm.* What an instruction computes or loads is any word; the condition flags and
the I bit, which nothing in the core reads, are left out, and a condition is a
choice. Addresses count words, modulo `Words`. `opera_arm_execute` is the
instruction and then `AfterSwitch` (the end of a pending reset, or a FIQ); nothing
runs in between. A store goes to RAM, to an XBUS address without a device, or to
the register that resets the machine; every other device is to the core what RAM
outside the overlay is. Left out: the high-level SWIs, the PC as a base or in a
swap, mode numbers the hardware does not have, instruction fetches from the XBUS
window. A session starts at power-on or has just loaded a file of some guest, so
that two instructions are enough to meet every mode with all its registers
different.

*Madam.* Of a cel only what steers the walk and the busy time is kept. Every list
ends (`Terminates`): on a cyclic list `opera_madam_cel_handle` does not return.
Drawing and the matrix unit are left out. A byte of a device's record is its port
and its place. A load of the first version also resets the clock and the bus
(`opera_3do.c:526`), and a load in chunks the bus (`opera_3do.c:677`): here the clock
comes from the saved machine and the bus is left alone, which the frontend rebuilds
for every frame.

*Vdlp.* A list entry is one block with its optional words; colours and pixels are
left out, so a rendered line is where it is read from and how far it moves the
output. Bitmap addresses wrap at `Bitmaps`. The region is a constant of a behaviour:
its changes are in `FrameLoop`. A black line drawn by the wrong routine leaves the
bitmap address alone, so it is `FrameLaidOut` that sees it, not `ShowsBitmapInOrder`.

*FrameLoop.* One input and one output channel; channels of one direction differ
only in their number. The DSP is unthreaded here (its thread is `DspThread`) and
makes any sequence of channel accesses in a tick; the guest makes any sequence
of register writes between two instructions, which is more than any program
does. Of a step, the display line, the cel tick and the bus tick are left out:
they touch none of this state (`Vdlp`, `Madam` and `XbusCdrom` have them). `VCNT`
is `line` and `field`. A launch that makes the frame return early is followed by
the reset in the same `retro_run`, so it is one action. Lengths are even, as the
hardware's are words.

*Cdrom, XbusCdrom.* Responses are two bytes of no particular contents, sectors
`SectorBytes` bytes; commands that differ only in contents are one command.
A guest instruction makes one access. Not modelled: CD-DA sectors and their
read-ahead, the stop form of PLAY, the ODE's files and `fifo_set_data`, the
controller addressed as unit 0x0F, the interrupt at the end of a DMA,
`opera_cdrom_media_load`/`eject`, which nothing calls. The read-only
`POLMA` is never raised by the code. Every image has the same length.

*CdImage.* A cue sheet is its lines, each a FILE, a TRACK, an INDEX 01 or another;
a sector is where its bytes came from. `Sectors` says which sectors the drive
asks of a disc; image names are unique. After the
disc is opened the start of the core succeeds or fails as a whole; setting the
pixel format is taken to succeed (when it fails, `libretro.c:524` reports failure
and leaves the image open).
The failing paths are followed step by step. The files of a sheet are opened in
turn, each closed again if it is empty (`cdimage_open_cue_file`); the first that
does not open, a track of no file and an unknown format go through `cue_error`,
which calls `retro_cdimage_close` on the image as it is then; every error of a CHD
goes through `cdimage_chd_state_free` with the stream and the decoder it has
acquired. What those operators forget stays in `fds`, where `StreamsOwned` sees it.
The rest of the memory (the parsed sheet, the tables) is not modelled.

The CHD decoder is external: a handle that is opened and freed, and that asks for
the bytes it is told to produce, as for an uncompressed hunk. The program discards
the result of a read (`libretro.c:177`); the drive has cleared its buffer
(`opera_cdrom.c:1146`), so where `buf` says that nothing or less came, the guest
sees zeros.

A disc's `segs` say how it was mastered: runs of frames with the
track each belongs to, which is the reference the code's tables are compared with.
`Mastered` says that the disc and its description agree (the runs fill the files in
order, a track's frames have the size of its format and its INDEX 01 counts from the
start of its file, a CHD's tracks are frames and postgap, an image without a
sheet is whole frames whose size its length tells), and is assumed only of discs
that open: a damaged or missing image is any disc. A CHD with a pregap has no such
description: the code and the CHD reader contradict each other on which pregaps the
file holds (see the findings), so `NoPregaps` excepts it from `LayoutTrue`,
`ReadsItsFrame` and `ReadsInFull`, and only `StreamsOwned` judges it. The frames
before INDEX 01 of a later file read as nothing, which `ReadsInFull` excepts.

*SaveState.* A part is one value and a file says which chunk is the first that
does not decode. That a loaded drive's flags are normalised by a local reset is
inside the part's value. The NVRAM a state carries is a part here and does not
reach `Nvram`. What the chunks of the ARM, of MADAM and of the VDLP keep, drop and
convert is in the modules of those parts.

*Nvram.* An image is two halves, so a file can be cut and a buffer mixed. A
crash is the death of the process: writes that were made stay made, in order;
power loss and `fsync` are outside, as the code does not address them. A
`retro_load_game` that fails leaves the disk alone and is left out.

## Runs

| run | question | result |
| --- | --- | --- |
| `dsp_thread` | every interleaving of both threads, mode switches, ring wrap, full ring; under fairness, announced ticks run and stopping returns | passes, 100 000 states |
| `dsp_stop` | "Stop only once every posted tick has run." | violated: see findings |
| `arm` | instructions of every kind in every mode, with resets in the middle of stores, aborts, FIQs, saves, loads and power-ons; the banks implement `ArmRegisters` | passes, 137 000 states |
| `madam` | starts, stops, pauses, resets, saves and loads around deferred drawing; control-port transfers of every length; under fairness, the engine rests | passes, 342 000 states |
| `vdlp` | fields with list, head and switches rewritten between any two lines, resets, hires switches, loads of old and new files | passes, 580 000 states |
| `vdlp_black` | the same with the 0RGB1555 format: does every line land in its place? | violated: see findings |
| `xbus_read` | reads under polls, FIFO accesses, DMA, DIPIR, resets, other commands; under fairness, every outstanding block arrives | passes, 31 000 states |
| `xbus_launch` | ODE launches against everything that may come between | passes, 258 000 states |
| `disc` | images of many shapes opened, launched over each other, read with failing and short host reads, closed | passes, 5 500 states |
| `savestate` | every version, damage and machine | passes, 1 500 states |
| `nvram` | sessions, launches, changed options, failed writes, renames and resets, crashes | passes, 1 044 000 states |
| `frame_loop` | the main loop against any guest, DSP, reset and option changes; under fairness, a frame ends | passes, 425 000 states |

A type invariant is stated in the modules with proofs, which need it, and proved
there (of `CdImage` it is part of `Held`).

### Bounds

* `dsp_thread`: a ring of 4, a batch of 2 and 5 ticks. The ring wraps,
  fills and overflows by one, batches end in its middle, the last batch can be
  partial, and there is room for a switch back and forth with samples on both
  sides. With 6 ticks (297 000 states) nothing changes but the time.
* `arm`: R8 (banked for FIQ alone), R13, R14 (banked for every mode) and the PC;
  register lists with and without the PC, with and without the base; two
  instructions after a file of a guest in any mode whose registers all differ, or
  after power-on; two memory configurations, with an address that lies in the
  overlay of one and outside that of the other. A slip of a bank needs one mode
  change and one access to show; longer sequences and other registers are in the
  proofs.
* `madam`: 5 register accesses or frontend calls, lists of up to 3 blocks that
  end by flag, by pointer and by leaving RAM, with a skipped block; three ports,
  and transfers disabled, empty, shorter and longer than the chain. The bus
  buffer is large enough for the devices, as in the program.
* `vdlp`: two fields of 13 lines, 3 of them visible after the forced transfer,
  three list blocks, three writes or calls. Entries last 0 to 3 lines, so they
  end inside the visible part, and a PAL entry moves the forced transfer of the
  second field.
* `xbus_read`: 2 blocks of 2 bytes on a disc of 2, a clock step per sector,
  commands of 2 bytes, DMA of up to 2 bytes: reads start, end and fail at the
  end of the disc, DMA crosses a sector boundary and runs past the data.
  `xbus_launch` shrinks the transfer to one byte and takes 3 command bytes, so
  that things happen between the bytes of a command, and adds the second address
  of the drive and an absent unit.
* `disc`: ISO, raw and audio images; cue sheets with two sector sizes in one file,
  one file per track, a gap before the first track, lines the parser drops, a second
  file that is missing or empty, an unknown format; CHDs with padding and postgaps,
  one too short for its tracks, an empty one, and any whose first sector cannot be
  read. CHDs with pregaps, in the file or not, are opened, launched over, read and
  closed as well. The sectors read are both ends of every run and the one after it;
  the lengths are 2048, 2352 and 2340, which passes the end of a raw data frame.
  Nothing is counted, so sequences are unbounded.
* `savestate`: two values per part tell "from the file" from "kept"; three
  configurations: the session's, another valid one, and none the core has. A bad
  chunk is one of first, middle, last, and the ROMs in V1: the loaders treat the
  others like their neighbours. Loads may follow each other without limit.
* `nvram`: three installations: two games with stores of their own, where
  renames work or may fail, and one game whose user switches between its own and
  the shared store. Two games show an image in the wrong file; one image value
  per session is enough, as a half also carries its origin; fallbacks are
  missing, cut or whole.
* `frame_loop`: the clock is scaled down (2 units to the cycle, steps of 2 cycles,
  a sample every 2 or 3 cycles, timer slots of 1 to 2 cycles, lines of 2 to 6)
  so that a step has a sample or a line due or not and none, one or two slots,
  instructions of 3 cycles leave a remainder, and both frequencies and both field lengths
  meet every phase. Two timers of one bit give a full cascade with reload,
  one-shot and stop; `CascadeIsOneCounter` covers the other widths. Buffers are
  none or one address, lengths 0 and 6 bytes: a buffer of three samples, an empty
  one, and reloads of each by the other. A session uses one group of registers
  (timers, one channel with its DMA bits, interrupts with slack, vertical
  interrupts with options); the groups share only the interrupt bits and the
  clock.

### Deadlock and fairness

Deadlock is checked in every run. `DspThread` assumes weak fairness of the steps
inside a call of the emulation thread and of the DSP thread's steps: both are OS
threads. It assumes nothing of calls the frontend may not make, nor of spurious
wake-ups. `XbusCdrom` assumes that clock steps keep happening while the guest
runs and that `retro_run` is called again after a launch request; it assumes no
guest access. `FrameLoop` assumes weak fairness of the steps inside a frame: one
thread runs the loop and the interpreter returns from an instruction. It assumes
nothing of the frontend, of the guest's or the DSP's accesses, or of the end of a
DSP tick: only a sleep instruction of the DSP program ends one, so `FrameEnds`
excepts a program without it. `Madam` (`FairSpec`) assumes that the loop's turns go on, which
is `retro_run` being called again; it assumes no register access, so a paused
engine may stay paused. The other modules state no liveness.

## Proofs

`DspThreadProofs` proves, for every `BufSize > 1`, every `WakeBatch > 0` and any
`MaxTicks` (the assumptions of `DspThread`):

* `TypeCorrect`, `NoLostWakeup`, `UploadWakes`, `JoinIsAnswered`, `RingSafe`,
  `TicksAccounted`, and `StreamRefined`, the refinement `DspThread` → `DspStream`.

None of the properties is inductive by itself. The inductive invariant `IInv`
adds to the type invariant:

* `Phase` — the thread exists exactly in threaded mode, and the running flag is
  down exactly from the start of destroy;
* `WakeDebt` — ticks posted and not announced are fewer than a batch, except
  between a store and its notify;
* `DoneBehind` — the thread's count never passes the shared one;
* `Unsignalled` — past the re-check without a signal, all that was announced has
  been run, and parked without a signal the stop flag was still up. This is the
  heart of the wake-up argument: the eventcount is prepared *before* the counts
  are read again, so whatever is announced after that reading sets the signal;
* `Spans` — what reader and writer hold fits between the ring's positions;
* `Accounting` — ticks run plus ticks still owed are at most those asked for.

The proof has one case per action and one step per conjunct; lemmas give the
bounds of the ring's spans. `NoLostWakeup` is `WakeDebt` with `Unsignalled`;
`JoinIsAnswered` is `Phase` with `Unsignalled`.

`StreamRefined` needs an invariant about contents, `Ordered`: what was delivered,
then the buffer, then the ring up to and including the frames the thread has
written and not yet published, is one climbing sequence of ticks that ends at the
last tick run, and the ring is read only after the buffer has been delivered.
Cells are addressed by position modulo the ring's size; `CellsApart` and
`CellsTogether` say that two positions less than a ring apart are different cells
and that a span that does not pass the ring's end is contiguous, so a write leaves
what is not yet read alone. Each step of either thread then maps to a step of
`DspStream` or to none.

`FrameLoopProofs` proves, for every clock scale, any number of timers up to
sixteen, any timer width, any options and any guest:

* `TypeCorrect`, `NoCycleLost`, `CascadeIsOneCounter`, `AccumulatorsBounded`,
  `SamplesRead`, `VintOnce`.

Its assumptions are those of `Clock` and `FrameLoop`: the scale is positive, and
at every frequency and region the options offer, a sample and a scanline last at
least one step and a timer slot is not empty. The real values satisfy them: at
6.25 MHz, the slowest option, a sample is 141 cycles and a line 396, against a
step of 32. They do not hold of a state file with a clock under 1.41 MHz, which
the loader accepts.

* `TypeInv` is the type invariant with `LoopInv`: inside a step at least a step's
  cycles are left, and outside "frame" the line is one the field has. Without it
  `cycles - Step` could be negative.
* `NoCycleLost` is inductive on top of `TypeInv`; each action shifts cycles
  between the remainder, the accumulator and the lines. Options change only
  between frames, where no line is outstanding, so the product of lines and
  period does not change under them.
* `CascadeIsOneCounter` is an action property. `CarryInv` says that between the
  slots of a pair, unless the guest wrote timer registers, a carry means the even
  timer has just reloaded; the arithmetic of the two slots then gives the wide
  counter.
* `AccumulatorsBounded` needs `WaitInv`: the period the timer scan waits for is
  always one some setting gives, also after the slack or the frequency changed in
  the middle of a gap, and the sample and line accumulators are under their
  longest period when a step begins. One sample taken per step is enough because
  a sample lasts at least a step.
* `SamplesRead` needs `CursorInv`: the cursor of a channel that plays a buffer
  stands at the sample the channel owes next. The guest's writes keep it because
  the one write that moves the cursor also starts the buffer over.
* `VintOnce` is an action property; `VintInv` says that in the middle of a field
  the interrupt has been raised exactly if its line was passed.

`ArmProofs` proves, for any set of general registers that has R13 and R14, any
word size above the vectors, any register lists, bases and written PSRs, any memory
configurations, any files of the kind the core writes, and sequences of any length:

* `TypeCorrect`, `MapIsTrue`, `ResetKeepsItsWord`, `UserStaysConfined`, and
  `BanksImplementFile`, the refinement `Arm` → `ArmRegisters`.

Its assumptions are those of `Arm`: constants of their types, lists that are not
empty, and files that were written between two instructions.

* `IInv` is the type invariant with `Sound` (the limits agree with the map, the
  user's SPSR names user mode), no abort left over and, between instructions, no
  reset; the saved state too names user mode in the user's SPSR. That part
  looks idle and is what confinement rests on: a return in user mode copies
  `SPSR[user]`, which nothing but a load ever writes.
* `ChangeKeepsFile` is the heart of the refinement: with `View(c, m, n, r)` for
  where register `r` of mode `n` is kept while mode `m` runs, the cases of a
  mode change all leave every view as it was. Everything else speaks of the flat file
  only.
* `WriteFacts`, `LoadusrFacts`, `ReadusrIs`, `ExceptionFacts`, `SoftResetFacts` and
  `MwritewFacts` say what each operation does to the flat file. `Op(c, d, g, ps)`
  (only registers of `ps` were touched) composes them; each instruction has one
  lemma that ends in `Result`: the invariant is kept, a pending reset has handed
  over the interrupted program, and the flat file took a step of `ArmRegisters`.
* The words of an STM are at once in the model; its proof needs a least and a
  greatest listed register, from the well-foundedness of the naturals.
* `UserStaysConfined` follows from the step of the flat file and the SPSR: in user
  mode each step keeps the mode or enters a vector.

`XbusProofs` proves, for every disc, sector size and speed, command and transfer
length and set of guest commands and poll writes:

* `BytesAccounted`, `StatusFollowsData`, `NeverAheadOfDisc`, `LaunchReadable` and
  the action property `MediaChangeLatched`, from `Invariance`.

`Cdrom` assumes that a command has at least two bytes (the real ones have seven).
The assumption is needed: with a command of one byte, `LaunchResponseReadable`
would fail: the byte that completes an armed launch, and raises Media Access with
it, would be the one that arms the next.

* `ReadInv` is about a read in progress. `Bytes` is the accounting; `Completion`
  adds that a read whose bytes are not all taken still owes its status, without
  which the status could be lost at the last byte; `Pace` adds the schedule: time
  so far and time to wait reach the next sector's due time, which is what makes
  the catch-up in `cdrom_data_schedule_next` safe.
* `DevInv` adds that a command under way is a command and that an armed launch has
  no command under way and the drive not held in reset: so nothing can raise Media
  Access before the launch has taken place.
* One lemma per operator of `Cdrom` says that it keeps `DevInv` and what it leaves
  alone (`Keeps`); the steps of the bus only compose them.

`VdlpProofs` proves, for every list and its rewriting, list memory, table of
widths and region:

* `EntriesPersist`, `BitmapInOrder`, `TraversalResumes` and the action property
  `ForcedOnce`, from `Invariance`; and `FrameIsLaidOut`, for sessions without the
  format 0RGB1555, which run `vdlp_black` shows to be a necessary hypothesis.

* `Belongs` ties the registers to the histories: lines left, bitmap address, next
  entry. It is also stated of the saved state *after* migration (`SlotInv`), since
  old files mean another thing by the cursor.
* `CutInv`: inside a field the forced line is the one PALSEL chose at its start,
  and an entry that was cut was so before the present line. Without it the
  forced transfer could come twice when an entry changes PALSEL.
* The arithmetic of row pairs under wrap-around rests on `Bitmaps` being a
  multiple of four and the entry's bitmap even, as in the program.

`MadamProofs` proves, for every memory whose lists end, any devices and any DMA
length:

* `PendingOwed` and `BusyBounded`, from `Invariance`, and `PortImageWhole`.

* `Owes` and `BusyFor` are stated of the machine and of the saved state.
* `BusyBounded` needs `WalkInv`: the cels walked so far are the blocks of some set,
  each once, and the next block ranks below all of them. `Terminates` gives the
  rank; the sums over sets of blocks are running sums with their own lemmas, since
  the walk visits blocks in list order and the bound adds them in memory order.
* `PortInv`: the chain is whole for the connected devices at every moment, closed
  or not. The chain of `n` devices is built by a recursive function of which only
  the step is used, with the least device that would break it for induction.

`PersistenceProofs` proves of `SaveState`, for any contents of the parts and any memory
configurations: `FailedLoadKeeps`, `LoadedIsWhole`, `ValidatedIsLoaded`. The first
two rest on one lemma per phase of `retro_unserialize` (dry run, backup, load,
rollback); the rollback is right because the backup is a file as
`opera_3do_state_save` writes it, which loads whatever a half-finished load has
left.

It proves of `Nvram`, for any number of games, images, fallback files and
installations: `SaveSurvives` and `SavesGoHome`. The invariant adds `TmpInv` (what
is about to be renamed is a whole image, and the old file is deleted only where a
rename failed) and `HomeInv` (while the option stays, the session's buffer, the
files, their `.tmp` siblings and the fallbacks hold only halves of their own store,
and the session's target is where it loaded from).

`CdImageProofs` proves, for any discs with any number of files, tracks and frames,
any sectors and lengths, any limits of the cue parser and any answers of the host:

* `StreamsOwned`, `LayoutTrue`, `ReadsItsFrame` and `ReadsInFull`, from `Invariance`.

Its assumptions are those of `CdImage`: constants of their types, an image's name
names one image, and `MasteredAssumption`, without which no disc could be compared
with what it ought to be.

* `IInv` says that either nothing is open, or an image is in use that some disc
  *holds* (`Held`): exactly that disc's streams are open, the tables are those that
  opening the disc computes, and each cached position is -1 or where its stream
  really is. The last part is what a read leaves behind after a failed seek or a
  short read, and what every later read rests on. The two properties of the last
  read complete it.
* The tables are recursive functions (`CueOffsets`, `CueBases`, `ChdFirsts`).
  `Recursion` shows that such a function exists, by the least index none of them
  reaches; what it computes is then proved from its defining equation, again by a
  least index that would be wrong (`OffsetsTrue`, `BasesTrue`, `FramesTrue`,
  `ChdFirstsTrue`). So the layout is proved for sheets of any length, without the
  library's induction theorems.
* `SheetOrder` and `TracksAscend`: in a mastered sheet tracks, files and runs come in
  the same order. `RunOf` is the run of a track; the code's offset, base and
  start of a track are its run's byte, its file's first frame and its run's first
  frame.
* `LayoutTrue` then inverts minutes, seconds and frames (`MsfTrue`) through the
  search for a track by its number.
* Reads have a lemma per kind: `IsoReads`, `CueReads`, `ChdReads`, each split into the
  runs a sector can be in (`ByTrack` for a track found by the table, `BeforeTracks` and
  `LostAfter` for the heads of files, `GoodGap` for silence, `GoodPast` for what no run
  holds), over one lemma on the host (`ReadAt`, `ReadExact`): whatever it answers, the
  bytes are those at the position asked for, or none, and the cached position is
  right or -1.
* `Held` counts the decoder with the streams. That a failing opening leaves exactly
  what was open before is `Nothing`, from `CueFails` (what `CueFilesAre` says has been
  opened, `cue_error` closes) and `ChdOpens`. A CHD with pregaps keeps `Held` through
  every read (`ChdKeeps`), so `StreamsOwned` is proved of it too; the three other
  properties except it (`NoPregaps`).

Only model-checked: liveness (`WokenTicksRun`, `DestroyReturns`, `ReadArrives`,
`FrameEnds`, `EngineRests`), which is out of this prover's reach. Every other
property of the passing runs is a theorem.

## Findings

1. `dsp_stop`: the DSP thread reads the tick count, then the running flag. A tick
   posted and a stop between the two readings leave the tick unrun, against the
   comment "Stop only once every posted tick has run."
2. `vdlp_black`: the two 0RGB1555 hires renderers draw a line without bitmap DMA
   with the low-resolution routine, so the output advances by a quarter of a hires
   line and the rest of the field is drawn too high. The other formats use
   `vdlp_render_line_black_hires`.

Met while modelling and not kept as runs:

* A load of an older file that fails is rolled back with a V4 backup
  (`libretro.c:293`), so the ROMs stay the file's and the peripheral bus is reset;
  the comment at `libretro.c:271` says the running state is left as it was.
  `FailedLoadKeepsParts` speaks of the other parts.
* The NVRAM storage option "can be updated at any time" (`opera_lr_opts.c:786`)
  and redirects the running game's image to a store it was not loaded from
  (`:794`). `SaveGoesHome` excepts it.
* A short read of an NVRAM file stays in the buffer and its label passes for an
  initialised image (`opera_lr_nvram.c:67`, against the comment at `:380`).
* The reload of a DSP output channel tests the DMA bit of the input channel with
  the same number (`opera_clio.c:1166`, against the register's description at
  `:376`), so an enabled output channel stops after its first buffer.
  `SamplesInOrder` is about the input channel.
* `retro_cdimage_open_chd` skips the pregap's frames when `pregap_stored` is zero and
  does not when it is set (`retro_cdimage.c:578`–`588`); `rchd.h:229`–`235` defines it
  non-zero when the pregap occupies frames in the file, and `chd_stream.c:691`–`697`
  skips it then. So of a track with a virtual pregap the first frames are lost, and
  of one with a stored pregap the pregap is read as data. The properties of the
  disc's layout except CHDs with pregaps (`NoPregaps`).
* A raw image of 2352-byte frames whose number is a multiple of 128 has a length
  that 2048 divides, and `retro_cdimage_open_iso` takes it for an image of 2048-byte
  sectors (`retro_cdimage.c:690`). `MasteredIso` excepts it.
* MODE SELECT sets any block size up to a limit (`opera_cdrom.c:543`). One that with
  the offset of the data passes the frame's end, such as 2340 bytes of a raw data
  track, reads into the next frame. `ReadsInFull`, and `ReadsItsFrame` where it says
  that a read ends in its frame, speak of lengths that fit (`Fits`).

## Not modelled

* *Vendored code*: three quarters of the repository's lines are libretro-common,
  codecs and decoders. Only the ring and the event count are modelled, as far as
  the core uses them.
* *Arithmetic*: the pixels of the cel engine and of the display, the matrix unit,
  the fixed-point library, the ARM's data processing, the DSP's instructions.
  These are functions over 32-bit words and megabytes of memory; test vectors
  serve them better than a model checker.
* *SPORT*: one masked copy of VRAM pages per register write, with no state that
  lasts beyond it.
* *Texts*: core option strings, log lines, the lexer of cue sheets.
* *Devices of the bus* other than the drive: none exists in the core.
* Parts that are modelled in part say in `PROJECT.json` what is missing.

## Plan

1. *Interrupt register shared by two threads*: the two read-modify-writes of
   `regs[0x40]` as an extension of `DspThread`; the life of the memory the DSP
   thread reads, freed by `retro_unload_game` before the join.
2. *State loads inside the frame loop*: the clock chunk (field size and frequency
   against `g_REGION` and the options) and the remainder.
3. *Save-state chunks*: the reader and writer of `opera_state.c` as operators over
   sequences, and the parts' loaders that validate fields.
4. *Drive*: CD-DA read-ahead, `fifo_set_data` and the ODE's data path, composed
   with `CdImage`.
5. *DSP control*: semaphore, register windows and start/stop (`opera_dsp.c`).
6. *Proofs*: for each of these modules its type invariant and safety properties,
   in the proof module of the component it extends.
