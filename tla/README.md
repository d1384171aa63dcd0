# A specification of RewinDS

RewinDS is an emulator of the Game Boy Advance and the Nintendo DS with a
rewindable timeline, a link cable over TCP, and hosts for the desktop, for iOS
and for a debug client. Everything it promises (rewind, replay, linked play)
rests on determinism: one timeline, in which every event happens at its time and
in one order. The modules here model the parts of the code that keep that
promise and the devices that live on the timeline, as TLA+ state machines
translated from the source; TLC checks them on small instances and TLAPS proves
the central properties for every value of the constants.

Paths below are relative to the repository (`src/crates/...` without the prefix);
modules and configurations are in this directory. `PROJECT.json` has the map from
each definition to its lines, the runs, a mutation of the code for each property
that makes the run fail, the hazards and the list of theorems.

## 1. Inventory

### The timeline

| Part | State | Operations | What is hard, and what makes it right |
|---|---|---|---|
| Event scheduler, `emu-core/src/scheduler.rs` | `now`, `next_sequence`, a binary heap of `(at, sequence, event)` | `schedule_at`, `schedule_after`, `next_deadline`, `advance`, `set_now`, `run_due_events` | Handlers schedule while the heap is being drained; instructions move time past events. Dispatch in `(at, sequence)` order, nothing lost, nothing late by more than an instruction. |
| GBA run loop, `gba/src/system.rs` | CPU, machine, scheduler | `step`, `run_until`, `step_halted`, `run_frame_step`, `run_step` | Deadline side exits, halts, stalls charged by DMA, the serial barrier. Each frame reported once; sleepers wake. |
| NDS two-core loop, `nds/src/system.rs` | two clocks, two halt flags, the scheduler | `run_until`, `step_core`, the dispatch of `NdsEvent`s | Two clocks of different grain between two deadlines, with interrupts from one core to the other. One timeline; no effect before its cause; both cores at the barrier. |

### The devices

| Part | State | Operations | What is hard, and what makes it right |
|---|---|---|---|
| GBA timers, `gba/src/timer.rs` | per timer reload, counter, last_sync, control, generation | register writes, overflow, count-up cascade | Events cannot be cancelled, counts are derived on reads. One live overflow per running timer; a rewrite keeps the count. |
| GBA serial port, `gba/src/serial.rs` | control, data registers, round, slots, one outbound frame | register writes, `set_link`, `deliver`, `poll_out`, `awaiting_peer` | A round spans two machines and a network. Agreement on the words; the parent held until the answer is in. |
| GBA DMA, `gba/src/dma.rs`, `bus.rs` | registers, working addresses and count, pending | control writes, triggers, runs | Registers rewritten under a waiting job; repeat and reload. |
| GBA sound, `gba/src/apu.rs`, `psg.rs` | two FIFOs, four generator channels | timer overflow, refill, trigger, frame sequencer | A stream that must not break between timer, FIFO and DMA. |
| GBA bus and prefetch, `gba/src/bus.rs`, `prefetch.rs` | the memories, the prefetch buffer | loads and stores by width and region | Mirrors, widths, misalignment; prefetch accounted lazily. |
| GBA cartridge, `gba/src/cartridge/` | chip, its automaton, the save files of the host | detection, load, commands, clock pins | Command protocols broken off in the middle; sizes guessed anew at every start. |
| GBA video, `gba/src/ppu/` | line timing, segments of a line, affine references | register writes, line start, H-blank, inspection | A line drawn in one go after writes in its middle. |
| ARM CPU, `arm/src/` | registers, banks, CPSR and SPSRs | instruction step, exception entry, decoding | Banks as a cache of the modes; carries, shifts and flags at their edges; returns. |
| NDS interrupts and queues, `nds/src/interrupt.rs`, `ipc.rs` | IE, IF, IME, `asserted_at`; two FIFOs, edge detector | `request`, `acknowledge`; `write_fifocnt`, `send`, `recv` | Interrupts on edges of conditions two cores write. No lost wake-up. |
| NDS gamecard, backup, DMA, `nds/src/cart.rs`, `dma.rs` | block in flight, serial chip, channels | block start, data port, drain by DMA, backup commands | Poll, interrupt and DMA race for the same words; address widths are guessed. |
| NDS SPI and clock, `nds/src/spi.rs`, `firmware.rs`, `rtc.rs` | one unfinished command; date and transfer | bytes, release, one-second event | Transactions broken off; a tick within a transfer. |
| NDS memory, `nds/src/memory.rs`, `vram.rs`, `cp15.rs`, `icache.rs` | bank controls, WRAM split, TCM places, cache tags | register writes, lookups | Banks mapped over each other and moved. |
| NDS sound, Wi-Fi, maths, `nds/src/sound.rs`, `wifi.rs`, `math.rs` | a channel's cursor; causes and counter; operands and results | samples; register writes and events; writes | Loops of a stateful decoder; causes that come before their enable. |
| NDS video, `nds/src/ppu.rs` | line, blanks, display modes, the 3D frame | line events, register writes | When a sealed 3D frame is rendered and shown. |
| 3D engine, `gpu3d` | command FIFO, packed decoder, matrix stacks, vertex and polygon RAM | register writes, drain, swap, clipping, rasterizing | A ring at its limit, commands split over words, seams between triangles, passes in order. |
| 2D renderer, `video2d` | none: a line from registers and memory | windows, priorities, effects, sprites, map addressing | Ties, wraps and budgets. |

### The hosts

| Part | State | Operations | What is hard, and what makes it right |
|---|---|---|---|
| Facade and rewind, `emulator/src/lib.rs`, `rewind.rs` | the machine, `last_input`; keyframes, input log, base, newest, cursor | `set_input`, `run_frame`, `snapshot`, `restore`; `record`, `seek` | Any sequence of seeks, branches and trims. Seek reaches exactly the state of that frame. |
| Desktop, `rewinds/src/main.rs`, `link.rs` | window loop, scrubber, carrier threads, save epochs | live frame, warp, scrub, linked frame, save flush | Warp and scrub against the recording rule; timeouts at the barrier; a save caught half written. |
| iOS and macOS, `rewinds-ios/RewindsKit` | session with two locks and pause reasons; link controller with intents; save store | `tick`, `enterBackground`, `teardown`; `host`, `join`, `disconnect`, `reconcile` | Main thread, emulation thread and network queue share state. |
| Audio ring, `emulator/src/audio.rs` | resampler position, a bounded single-producer ring | `push`, `read` | Two threads, each with a stale index of the other. |
| FFI and debug server, `emulator-ffi`, `debug` | handles; an attached client | calls of a C host; requests that step, seek and press keys | Clients that go behind the facade's back. |

### How they interact

The CPU calls devices through its bus during an instruction; devices schedule
events and request interrupts; the run loop alternates between the CPU and
`run_due_events`. The host calls the run loop once a frame (or in slices when a
cable is connected), records the frame on the timeline, pushes its samples to the
ring, and services the carrier between slices. Within an emulated machine there is
one thread: what looks concurrent there are two cores stepped in turn and events
that fall between instructions. Real concurrency is between two hosts on a cable,
between the threads of a host, and between a user's commands and the recording.

## 2. Modules

A module has its state as one variable (a record named for the part) where it is
checked as a unit of a sum module, and as several where it is proved about. A file
that holds two related parts keeps their actions and properties apart by prefix
(`FlashNext`, `EepromNext`). Operators introduced by a `Mutant:` comment are
not part of any specification: each is the definition after it with a
plausible bug, and `PROJECT.json` names under `mutants` the property that fails
when it takes that definition's place.

| Module | What it models |
|---|---|
| `EventQueue` | The pending events as a stable sequence, the form in which the machine modules use the scheduler. |
| `TimelineSpec` | Abstract: one time and a stable queue; what a machine may rely on. |
| `QueueProofs` | Lemmas about `EventQueue` and about sequences, for the proofs below. |
| `Scheduler`, `SchedulerProofs` | `scheduler.rs` under the CPU loop, and proofs, with its refinement of `TimelineSpec`. |
| `NdsCores`, `NdsCoresProofs` | `run_until` and `step_core` of `nds/src/system.rs` with `interrupt.rs`, and proofs. |
| `Ipc` | The FIFOs of `ipc.rs`. |
| `SerialLink`, `SerialLinkProofs` | `serial.rs` as operators on a port; two ports, two games, two hosts and a cable; and proofs. |
| **`MCHosts`**, **`HostsProofs`** | Sum module, and proofs: |
| `RewindTimeline` | unit `rewind`: `rewind.rs` with the window that drives it. |
| `SaveRules`, `DesktopSave` | unit `desktop`: when a host writes the battery save; the window loop's. |
| `EmulatorSession` | units `saving`, `linking`: the iOS session's threads, with the saves and pauses, and with `Link.swift`. |
| `SessionProofs` | Proofs about `EmulatorSession` and `DesktopSave`. |
| `GbaRunLoop` | unit `loop`: `run_step` and `run_until` with HALT, STOP, interrupts, and the host that slices frames. |
| `AudioRing` | unit `ring`: the resampler and the ring between two threads. |
| **`MCGba`**, **`GbaProofs`** | Sum module, and proofs about the timers, the link, memory, prefetch, DMA and sound: |
| `GbaTimers` | unit `timers`: `timer.rs` on the queue, with instructions whose stores fall in the middle. |
| `SerialLink` | unit `link`. |
| `ArmRegisters`, `ArmFlow` | units `banks`, `block`, `alu`: banks, block transfers, arithmetic; `flow`, `decode`: calls and returns, classes of words. |
| `GbaBus` | units `memory`, `prefetch`. |
| `GbaDma`, `GbaSound` | units `dma`, `fifo`, `psg`. |
| `GbaBackups`, `GbaCartridge` | units `flash`, `eeprom`; `cartridge` and the clock chip on its pins, unit `clock`. |
| `GbaVideo`, `RenderLayers` | unit `video`; the shared 2D renderer, units `objects`, `maps`, `blender`. |
| **`MCNds`**, **`NdsProofs`** | Sum module, and proofs about the queues and memory: |
| `Ipc` | unit `ipc`. |
| `NdsVram`, `NdsMemory` | units `vram`, `memory`, `cache`. |
| `NdsCart`, `NdsSpi` | units `card`, `backup`; `spi` and the clock chip, unit `clock`. |
| `NdsMath`, `NdsSound`, `NdsWifi` | units `math`, `sound`, `wifi`, `radio`. |
| `NdsFrame` | units `frame`, `blank`: scanline events, 3D frames, DMA that waits for a blank. |
| `GpuStream`, `GpuGeometry`, `GpuRender` | units `stream`; `matrices`, `assembly`, `clip`; `raster`, `pixels`. |

In a sum module the initial state picks a `unit`, whose module then owns `dev`
(`<<>>` stands for a unit whose state is in variables of its own); `Next` is the
disjunction of the units' steps. A property of the sum is a conjunction over the
units it speaks of, so a run of it says for each unit what a run of its own would.

### Scheduler

`now`, `nextSequence` and `events` are the fields of `Scheduler`; the heap is a set
of `[at, sequence]` records because a heap is only ever peeked and popped at its
least element (`IsNext`). `Fetch`, `Access` and `Retire` are an instruction of the
GBA loop, whose accesses each move time and which may leave the CPU `halted`;
`HaltedJump` takes a halted CPU to the earlier of the next event and the target of
`run_until` (`Deadline`), or nowhere when that has been passed; `BeginDispatch`,
`DispatchOne` and `EndDispatch` are `run_due_events`, where a handler schedules
an event with its own return or by `Request`; `Stall` is the DMA transfer that then has the
bus, past the next event perhaps. Which interrupt wakes a CPU is in `GbaRunLoop`; here
it may wake after any dispatch (`MayWake`). In `TimelineSpec` time with nothing to run
goes on to the next event and no further (`Skip`).
`fired` and `started` are history. The `>= now`
of `ScheduleAt` is the debug assertion of `schedule_at`, an obligation of callers;
`GbaTimers` checks whether the timers keep it.

### NdsCores

A slice runs from one deadline to the next. `Wake` comes before every choice of a
core, as in the code; `Selected` is the core further behind, ties to the ARM9;
`Step` is `step_core` with interrupt entry, an instruction of any cost, and the
stamping of a raise at the other core with the clock after the instruction. The
ARM7 runs at half the rate, so its clock moves in twos. Abstractions: an instruction has one
effect on interrupts, queue or halt flag (a multiple store to several registers,
a DMA it starts, and an IPC store that raises at both cores are left out); a device
event raises at one core; GXFIFO's level is arbitrary; costs and delays are
arbitrary up to a bound, and at least one because a fetch is. `Schedules` counts a delay from
any time up to the present: gamecard and Wi-Fi count from the start of the slice, and a timer
that leaves the cascade from a `last_sync` of long ago, so the event may lie in the past.

### Ipc

`UpdateEdges` is evaluated after every access, as in the code. A word is named by
its number at its sender, so order can be stated. `roomFrom` and `calledFrom`
remember whether the queue has been in the state that arms the next edge since the
interrupt was acknowledged. IPCSYNC shares nothing with the FIFOs and is left out.

### SerialLink

The operators before the variables are named for the functions of `serial.rs`. The
frame that waits for the host is a sequence of at most one. Each host is
in one of four places of `run_linked_frame`: between frames, about to service the
carrier, inside a slice, blocked at the barrier. The carrier is TCP: ordered and
reliable while it stands; a cut delivers some prefix of what is in flight, to each
side by itself; frames of one connection never appear on the next. Frames are delivered one by one,
`Hear` before the slice and `Receive` after a wait, and what the port owes is
polled only after the last of them (`Poll`), so a frame in the outbound slot meets every frame
of the same batch. Games write any register at any time, but only inside a slice.
`Reconciles` tells the hosts apart (`BeginFrame`): on iOS and macOS each frame begins with `Reconcile`, which
disconnects a core whose connection has gone and connects it anew; the desktop configures its core
once (`StartFrame`) and neither notices an end nor connects again.

### The hosts

`RewindTimeline`: a deterministic machine is its history of inputs, so a state is
the sequence of inputs played. `keypad` is inside the machine and so inside a
snapshot, the facade's `lastInput` is not. `story` remembers what was played when
the newest frame was recorded, against which every seek is judged.

`SaveRules`, `DesktopSave`, `EmulatorSession`: a save of the game is `SaveLength`
stores with gaps of at most `MaxGap` frames, and the chip is the number of stores it
has taken; a file is whole when that number is a multiple. `Watched` is the
quiescence counter. iOS replaces the file whole or not at all (`Flushed`). The desktop's `write_save`
overwrites the file in place and then its sidecar, so `WriteSave` and `WriteSidecar` are actions of
their own; an error leaves the old file or a `Torn` one, `Kill` ends the process at any point, inside a write as well,
and only when both files are written is the dirty flag cleared. `tape` has the
backups at the recorded frames: `Seek` puts one of them back, with the dirty flag it gets from a replay, and
the loop's counter knows nothing of it; `rewound` and `recount` remember that until the next write, and until
the counter has started afresh. In
`EmulatorSession` each critical section of `stateLock` is one step and `coreLock`
is a field; `ui` and `emu` are the places of the main and the emulation thread.
`Check` (the loop reads its flags) and `BeginTick` (it takes `coreLock`) are
two steps, as in the code; `Flushing` holds the lock over several frames. The link
controller is a record and its methods operators: what the accept handler does on
its queue comes in two steps, `Accepted` and `AcceptEnded`, between which the user
may ask again. `asked` is the last intent anyone recorded.

`GbaRunLoop` keeps times relative to the present. `Call` to `Return` is a
`run_step`; `Idle` is the jump of a sleeper; `unseen` counts frames that ended and
were not reported. `AudioRing`: each side's look at the other's index, its copy and
its publication are separate steps; samples carry their place and side.

### The GBA

`GbaTimers`: `Rewritten` is the whole of `write_control`: freeze the count, set the
fields, reload on a start, bump the generation. The old event stays in the queue.
`Overflow` is `handle_overflow` with `cascade_from`: `Carried` is the run of full
count-up timers that reload, `Bumped` the one at which the carry stops. An
instruction is a wait, a store, a wait, so that an overflow is handled late.

The CPU: `ArmRegisters` has the visible file, the banks of the modes that do not
run, and as history the physical registers of the architecture (`BanksHold` relates
them); its other half stores and loads blocks of registers in every addressing mode.
its unit `alu` asks one question at a time about words of four bits, and compares the
code's adder and barrel shifter with arithmetic on integers and with a shifter
by one bit applied often. `ArmFlow` keeps a stack of open calls and exceptions
as history; its unit `decode` translates the order in which the decoder tries its
masks and compares it with the architecture's table of patterns.

Memory: `GbaBus` tags each byte with the cell it came from or the lane of the
register it was stored from, so that rotation, mirroring and sign are visible
without data. Its prefetch half counts halfwords against the time the cartridge
needs for each. `GbaDma` is one channel with its line triggers and the history of
what it moved; `GbaSound` a FIFO whose samples are places in a stream, and a
generator channel. `GbaBackups` and the clock of `GbaCartridge`: the chip automata under a driver that
spells its commands and may break off; the rest of `GbaCartridge` follows the save and its
side file through starts on either host: `atomic` ones replace a file whole, the desktop may leave a
prefix of the save or an unreadable sidecar (`SaveCutShort`, `MetaCutShort`), and `cut` remembers it until the
next flush. `GbaVideo` has a line of a few pixels
with writes at any cycle; `RenderLayers` a line of sprites with the budget, the
addresses at which backgrounds read, and the priorities and effects of one pixel.

### The DS

`NdsVram` and `NdsMemory` are lookups over register state, compared across
addresses and readers. `NdsCart` runs a block against a CPU that polls, an
interrupt and two DMA channels (`DrainOnce` per word, `DrainAll` as the loop), and
a backup chip whose address width the code has to guess from a driver that
knows it. `NdsSpi` has one command and phase for three devices, as the code has.
Its clock holds the incremental calendar against the closed form that the GBA's chip
uses. `NdsMath` restarts a unit on every write, whatever half is then stale.
`NdsSound`: the ADPCM state is the list of nibbles fed since the header, so a loop
that restores the wrong state shows. `NdsWifi`: the clock is in cycles, which do not divide into
microseconds, and a stop freezes whole ones; pending events are sequences of
cycles, which cannot be taken back. `NdsFrame`: `sealed` and `rendered` number 3D
frames. `GpuStream` to `GpuRender` follow the 3D pipeline: words to commands,
matrices as elements of a group that does not commute, vertices to primitives,
clipping in integers, spans of a scanline, and the passes of a pixel.

## 3. Runs

| Run | States | Shows |
|---|---|---|
| `scheduler` | 28 thousand: four events, times 0..3 | order, conservation, lateness, every event fires, refinement of `TimelineSpec` |
| `serial_reconnect` | 57 thousand: two connections, one cut anywhere | rounds in sequence, no frame overwritten, rounds answered |
| `nds_cores` | 7.5 million: five ticks, one source each way | barrier, one timeline, cause before effect, prompt wake |
| `hosts` | 0.4 million, the six units of `MCHosts` | seeks exact, timeline sound, saves whole, pauses and links as asked, frames reported and sound unbroken, teardown and sleep end |
| `gba_devices` | 1.8 million, the twenty units of `MCGba` | one live overflow, on time, rounds agree, CPU exact, memory coherent, streams unbroken, backups kept, picture exact |
| `nds_devices` | about a million, the twenty units of `MCNds` | every edge raises, words in order, cells have one owner, chips answer, geometry built, pixels drawn |
| `gba_timers_past` | two timers | **violation**: an overflow is scheduled in the past |
| `serial_barrier` | two connections | **violation**: the barrier holds a unit that has started no transfer |
| `rewind_warp` | as `hosts`, rewind | **violation**: a seek lands in a state that never was |
| `session_teardown` | one session | **violation**: a tick runs after the teardown has the core to itself |
| `gpu_last_row` | unit `raster` | **violation**: a surface as tall as the view leaves its last row undrawn |
| `nds_beacon` | unit `wifi` | **violation**: two chains of beacons at once |

Why the bounds are enough:

* scheduler: four events suffice for two ties, one of them created by a handler
  during a dispatch, and an overshoot past both;
* timers: a wrap at two makes a timer overflow on every other tick, so that within six
  cycles it is rewritten, stopped, started, outdated and overflows late several
  times; three timers are the least in which a carry passes through one. Seven
  generations outlast the longest period of four cycles, which `TimersAssumption` asks
  and 2^32 do in the code (the longest period is 2^26 cycles): no event is still
  queued when its generation comes round again. The proof covers the wrap;
* link: three round numbers let the number wrap; two modes are enough for the
  sides to disagree on the mode; two connections for every state a cut can leave behind. `serial_reconnect` has one word, since its
  question is which rounds complete; that the words agree is checked in unit `link` of
  `gba_devices` with one connection and proved for any words and connections;
* rewind: five frames with intervals 1 to 3 and capacities 1 and 2, below and above
  what the frames fill, so that trimming, an interval never reached and a branch
  inside and across intervals all occur;
* saves: a save of two stores with a gap of one frame, quiet after two frames and a
  guard of six: the file can be caught between the stores, and the final flush can
  be cut off by its guard; six stores in the desktop loop, three saves, let a later one be
  forgotten and a game store for as long as the guard; its tape has the frames of the last save, so
  a seek reaches into the one before a write and across it; one save suffices in the
  session, where stores and flushes interleave. The session's link has two connections, enough for a
  new one to replace, outlive or fail before the old;
* run loop: a call of two cycles, a frame of four: a frame ends in the middle, at the
  end and on the first cycle of a call. The proof covers every slice below a frame;
* ring: capacities of four and six samples (even, as the code's `rate * channels / 4` is for the usual rates), chunks and requests of one and two frames: it runs
  full and empty and each side meets a stale index; five source frames at a
  ratio of three fifths visit every fraction;
* ARM: words of four bits have every carry, overflow and shift beyond the width;
  three registers below the program counter give lists with the base first,
  last, absent and alone;
* memory: 6 to 12 cells a region under addresses of at least twice as many, all widths and
  alignments; the prefetch buffer holds three, and the proof covers every size;
* DMA and sound: a blank that begins after two of five lines, jobs of one unit and of two; the FIFO has its
  own sizes, and a generator with one bit for each register. The proofs cover the others;
* chips: a cell in each of the Flash's command sectors and one elsewhere, both Flash sizes, both EEPROM widths, every
  command with a break at every byte;
* picture: two pixels on two of three lines, two writes at any cycles, in one pixel or
  in two; one background turns and the other stands upright, for they are alike; two sprites, the least that overlap;
* cores: five ticks of the ARM9 are two and a half instructions of the ARM7, enough for it
  to overshoot a deadline, halt, and be woken by the ARM9 ahead of or behind it.
  With a cost of one the ARM7 still overshoots, since its step is two. The proofs
  cover every cost;
* queues: depth two and three words fill a queue and overflow it, and send both
  ways. The cores are interchangeable in `Ipc` and in nothing that the other
  units of `MCNds` say, so the run is symmetric in them;
* DS memory: five of the nine banks, each with offsets or uses of its own, two enabled at a
  time, since ownership is a question about pairs; TCM bases below, across
  and at the top of the map, and size fields that wrap;
* gamecard: blocks without data and of three words, two channels, three register writes; backup
  addresses of two digits and four stores;
* maths: words of two bits, double words of four (words of three bits have been
  run too), all values, modes and orders of writes; Wi-Fi: ten cycles at one and a half to the microsecond,
  a beacon period of four, with four writes; sound: eight samples, loops of up to two
  words, a step that skips a position and one that repeats it;
* video: three lines of which two are visible, so the blank is entered, held
  and left, over two frames with three writes;
* 3D: a ring of six entries is full before the longest list ends; vertex memory of seven and two
  polygons fill within a list; a screen of 7 by 5 with vertices of three columns and rows
  has edges of all slopes; three polygons are a front, a back and a shadow's mask.

### Fairness and deadlock

`scheduler` assumes weak fairness of the loop's own steps: an instruction retires,
due events are dispatched, and otherwise the CPU fetches or jumps. That is
`run_until`, which iterates to its target. Nothing is assumed of `Request`.

`serial_reconnect` assumes that each host keeps running its loop (weak fairness of
its steps), that a frame ends now and then (its cycles run out), that the carrier
delivers what stands on a standing connection (TCP, with a host that takes all that
has arrived each time it looks), and nothing of the games or of connecting. The strong
fairness of `Receive` and `Hear` says just the last: a host that
looks for ever is not for ever too early.

`hosts` assumes weak fairness of the emulation thread and of a main thread that is
inside `teardown` or a flush (both are loops and straight code under an operating system's
scheduler; nothing is assumed of the user or the network), and in unit `loop` that the host keeps
calling `run_step` and that a link word is delivered in the end, as the timeout
of `recv_blocking` and the next frame's service make it. A `coreLock` that is released is taken in the
end because the emulation thread, paused by then, does not ask for it again.

Deadlock is checked in the serial runs. In the others the model's timeline ends
(`MaxTime`, `MaxFrame`), a user has left, or all writes that a bound allows are
spent, so a last state has no successor, and the configurations say
`CHECK_DEADLOCK FALSE`.

## 4. Proofs

TLAPS proves the following for all values of the constants that satisfy the named
assumptions. Each theorem `Spec => []P` rests on an inductive invariant that TLC has
checked before it was proved; each proof has one step per action of `Next` and cites
lemmas where several actions share an effect. The bounds of the models (`MaxTime`,
`MaxEvents`, `MaxWords`, `MaxFrame`, `MaxSessions`, ...) are constants like the others, so the theorems hold whatever
they are.

* `QueueProofs` holds what the others need of the event queue and of sequences: where
  `Insert` puts an event (`PositionParts`, `InsertElements`) and that it keeps the queue ordered. `LeastNat`, that a
  non-empty set of numbers has a least one, stands in for induction: a statement
  about all numbers is proved by refuting its least counterexample, with no operator for a parameter.
  `Iterates` says in this way that the function a recursive definition over the numbers names exists.
* `SchedulerProofs`: `TypeOK`, `DispatchOrder`, `Conserved`, `LateByOneInstruction`, and that the
  heap implements `TimelineSpec` (`TimelineImplemented`).
  `DispatchOrder` alone is not inductive: a new event must be shown to come after
  all that have fired. The invariant adds that sequence numbers below
  `nextSequence` are the ones taken, each by one event; that what has fired comes
  before what is pending and is not later than `now`; and that the latest
  instruction began before `now`. For the refinement, the pending events have exactly
  one sequence in pop order (`HasPopOrder`, by adding one event at a time); pushing
  onto the heap is inserting into that sequence behind its equals, because a new sequence number
  is the largest, and popping is taking its head.
* `NdsCoresProofs`: `TypeOK`, `BarrierReached`, `InstructionsInOrder`,
  `DeliveredAfterRaise`, `WokenAtOnce`. The heart is `RunningInOrder` and
  `SleeperInOrder`: a core that runs has its clock at or after the start of the
  latest instruction, and a sleeper that has an interrupt waiting has a wake time
  (its clock or its stamp) that is not before it either. `StartsBefore` bounds
  the latest start by the deadline, `Settled` and `IdleQuiet` say what holds when no core runs,
  `StampBehind` that a stamp is not ahead of the other core's clock,
  `RaisedByThen` that a pending raise came about no later than the stamp or the
  clock, and `ClockBound` the overshoot.
* `NdsProofs`, of `Ipc` and of `MCNds`: `EveryEdgeRaises`, `WordsInOrder`, `CellsHaveOneOwner`.
  * queues (`IInv`), for any depth and number of words. `PrevCurrent` says that the edge
    detector's memory is that of the present queues and enables, so that a true
    condition without its flag must have been acknowledged; `QueuesSorted` that
    queued words increase and are newer than the last one read.
  * memory (`NdsInv`), for any banks, any shape of the cache and any place and size of the TCMs. Video memory
    and the maps need no more than the ranges of their registers: `OneUse` goes through the
    modes of a bank, `InOneRegion` shows that a bank lies in a region whole or beyond
    them all, so that what is assembled by base is what is mapped by address, and
    `SharedHalves` that no two pages of the processors' parts are one. The cache model is
    inductive with its short cut: a line is installed only when no way of its set holds
    it, and the line of the last read is always resident.
* `SerialLinkProofs`: `TypeOK`, `RoundAgreement`, `ParentHeldAtBarrier`, `RoundsInSequence`,
  `OutboundTaken`, for two units, any words, modes and number of connections, and hosts that reconcile or do not. On the
  standing connection a round is in one of four phases: `Idle`, `Asked` (the parent's frame
  is on the wire), `Answering` (the child has completed it and its host has not yet
  taken the reply), `Answered` (the reply is on the wire). So there is at most one frame in flight, and
  it is what its receiver expects; a unit that still owes a frame has none coming, and this, rather
  than when the host polls, keeps the outbound slot from being overwritten. A side that has not yet noticed the
  connection counts as idle (`On`, `Round`, `Slots`, `Owed`, `Last`). When the connection is down
  the phases are gone, and what remains is said of each side alone
  (`ParentSound`, `ChildSound`, `ParentExpects`, `ChildExpects`). There must be more than one round number
  (2^16 in the code), or a new round could not be told from the one before.
* `HostsProofs`, of `MCHosts` and for any values of its constants: `HostsTypeOK`, `SeekExact`,
  `TimelineSound`, `PausesHold`, `LinkAsAsked`, `OutputReachesHost`, `FilesWhole`: all that the run `hosts`
  checks but liveness. `HostsInv` says that the unit of a behaviour stays in its own invariant. Three
  of the six are those of `SessionProofs`, instantiated for the two sessions and the desktop:
  `SavingSession`, `LinkingSession` and `DesktopLoop` show that the instances
  of the specification and of its proofs are the same, `SavingConstants`, `LinkingConstants` and `DesktopConstants` that
  the constants given to them satisfy what the proofs assume. The other three:
  * rewind (`RewindInv`), for any inputs, intervals, capacities and length. `Recorded` says that the keyframes lie on the
    story in increasing order, the oldest at `base`, one at each multiple of the interval since, and that the
    input log is the story from `base` on; `Holds` that the newest frame is the story's end; and the
    machine stands at `cursor` on the story. A seek replays inputs by a recursion over frames, whose function exists by
    `Iterates`; `SoughtExact` shows by `LeastNat` that its turns lead from the nearest keyframe along the story to the target.
  * run loop (`LoopInv`), for any slice and frame. That every frame is reported is not inductive:
    a call that has ended a frame might end a second, and reports one. What
    rules it out is that it then has less of its slice left than a frame takes, by the overshoot of
    an instruction: `left - until <= Slice - Period + 1`. Hence `Slice + 1 < Period`, which
    `HostsAssumption` asks and the hosts keep (`SLICE_CYCLES` is 512, a frame 280896); a host
    that ran slices of a frame or more could miss one. The DMA stall that the V-blank event adds comes
    after the frame has ended, so it does not count.
  * ring (`RingInv`), for any capacities, chunks, requests and ratios. `Rising` says that
    the output frames, made and in the making, lie a ratio apart, and so does
    the one to come, across chunks; `Keeps` that what is heard and in the ring are the
    frames made less the lost, with every loss a pair. What the producer saw free is still free when it
    stores (`Len(ring) + room <= capacity`) and what the callback saw there still is when it
    takes it (`taking <= Len(ring)`), since each side only moves its own index; the rest is parity.
    The turns of the resampler are followed by `LeastNat` (`ResampledContinues`).
* `GbaProofs`, of `GbaTimers`: `TypeOK`, `OneLiveOverflow`, `OverflowOnTime`, and `TimersStepRight`: a stopped timer
  stays silent, a rewrite keeps the count, and a chain counts like one wide counter. Any number of timers, width,
  prescalers and instruction lengths. `AcceptedOnTime` and `OnePerTimer` are what the properties
  say of the queue; what makes them inductive is `AgesBounded`: an event was scheduled at
  most a period ahead and every rewrite of its timer since then has taken a cycle, so the event is
  gone before its generation comes round. Because of a generation that wraps,
  the assumption that `GenMod` exceeds the longest period is needed; the code's
  2^32 and 2^26 satisfy it. The chain is read digit by digit: as far as its timers are full, it held its largest
  number and holds zero after the carry; beyond that it holds one more (`ChainAdds`, by `LeastNat`).
* `GbaProofs`, of `MCGba`: `RoundsAgree`, `MemoryCoherent`, `StreamsUnbroken`. `GbaAssumption` asks what
  the code's numbers satisfy. Each unit has an invariant of its own, and `GbaInv` is their conjunction:
  * link: the proofs of `SerialLinkProofs`, for the instance the sum module has;
  * DMA (`DmaInv`), for any addresses, counts and lines of a frame. At rest every
    transfer that was due has run (`Owes(dev, 0)`), and the registers the channel counts with stand where as many
    units have taken them (`AtItsPlace`); inside a trigger one may be owed. A write of the control
    register, a line start and a blank each go through that state (`Due`);
  * FIFO (`FifoInv`), for any threshold, burst and capacity with room for a burst after a refill's request, and
    any stream longer than a burst. A FIFO in use holds consecutive samples, the first the one that
    is wanted and the last just before what the DMA channel reads next (`InStream`), or nothing, and
    then the channel reads what is wanted;
  * generator (`PsgInv`), for any width of the frequency, length and volume. A channel that is on has a
    DAC that is on and a length that has not run out (`CanSound`); the rest is the range of the
    sweep and of the envelope;
  * prefetch (`PrefetchInv`), for any capacity, wait state and branches. The halfwords
    delivered and in the buffer, times their cost, and what has been spent on the next, are at most the cycles since
    the stream began (`InTime`);
  * memory (`MemoryInv` only says that what is asked is a question): that the widths agree, that a store lands once and on every mirror,
    that a backup keeps to its byte and that a load starts at its address are lemmas about every question a program can ask, by
    region and width, at the cells per region that the module fixes.
* `SessionProofs`: `TypeOK` and every safety property of the session and of the desktop loop that
  speaks of pauses (`Paused`), the link (`LinkFollows`) and the save file (`CleanSession`,
  `WholeFiles`, `LidWaits`; `DeskKeeps`, `DeskWholeFiles`, over writes cut short at any moment and over any seek), for any quiescence, guard and length of
  a save that satisfy `SaveRulesAssumption`, and any set of connections. The pause reasons are a function of who is away
  (`PauseInv`); the intents recorded are the last that were asked for (`IntentInv`); and, for the save,
  a counter that has seen the latest store is not ahead of the frames the game has let pass (`Behind`),
  and a flush has waited no longer than the stores since it began have taken, plus one rest (`Waited`).
  From the last it follows that a flush that gives up at its guard gives up on a game that
  has stored for as long as a whole save.
  "Never truncated", in the Swift source, is therefore true up to the guard and not beyond: a
  game that stores without a rest is cut off in the middle, and the properties say so.

The theorems that name no property of a run state a part that `HostsProofs` or `GbaProofs` puts
together, or an inductive invariant.

Only model-checked, not proved:

* the liveness properties (`EveryEventFires`, `RoundsAnswered`, `TeardownEnds`, `SleepersWake`, ...),
  which rest on fairness and are out of the prover's reach;
* the automata and encodings of the chips, the arithmetic of the CPU, the maths units and the
  renderers, which are folds over sequences whose induction the prover cannot do;
* hence the conjunctions that have such parts: `GbaTypeOK`, `CpuExact`, `PictureExact`, `BackupsKeep`,
  `NdsTypeOK`, `GeometryIsBuilt`, `PixelsAreDrawn`, `ChipsAnswer`;
* the other units without a proof: the CPU's banks, calls and decoder, the GBA's picture, the DS's gamecard,
  SPI devices, maths units, sound, Wi-Fi and scanline events.

## 5. Where the code and its words part

Six disagreements are shown by runs of their own:

1. `gba/src/timer.rs:210`: clearing the count-up bit of a running timer leaves a
   stale `last_sync`, and its overflow is scheduled in the past, which
   `scheduler.rs:131-132` calls "always a bug" (`gba_timers_past`).
2. `gba/src/serial.rs:352`: `set_link(false)` leaves `busy` set (291-300), and after a new connection
   `awaiting_peer` holds the machine with no word in its slots and none sent, though 343-345 speak of a
   connected transfer that has started (`serial_barrier`).
3. `rewinds/src/main.rs:369`: warp runs several frames for one `record`
   (`rewind_warp`), against `rewind.rs:71`.
4. `EmulatorSession.swift:110`: the loop has read `alive` under another lock and may be just before
   its tick when teardown takes the core (`session_teardown`).
5. `gpu3d/src/raster.rs:456`: the bottom of the view is projected to the last row itself
   and the spans are half open below, so that row is never drawn (`gpu_last_row`).
6. `nds/src/system.rs:822`: stopping and starting the microsecond counter within a beacon
   period leaves two chains of beacons running (`nds_beacon`).

Ten more are stated in the modules and in no configuration. TLC refutes each in
a few seconds (`HalfOfDayKept` once the clock's `Modes` include 12, `SharedEdgeHasOneOwner` with
one or two more columns in `Xs`, `ContributesItsData` once the `Modes` of the link include Normal32):

* `ContributesItsData` (`SerialLink`; `serial.rs:230`): the data registers are reset before the word to
  send is read from them, so Normal32 sends all ones.
* `LiveWritesAreWhole` (`DesktopSave`; `main.rs:254`): a seek puts back a backup in the middle of a save, and
  the count of quiet frames goes on from before it, so half a save is written where 406-407 promise a
  complete one.
* `HaltEndsAtOnce` (`GbaRunLoop`; `io.rs:25`): a halt with an interrupt already
  pending jumps to the next event before it wakes (`system.rs:485`).
* `ErasesAreSetUp` (`GbaBackups`; `flash.rs:62-63`): an erase command armed and then
  followed by another command leaves its arm behind.
* `HalfOfDayKept` (`NdsSpi`; `rtc.rs:155-156`): in 12-hour mode the hour is carried from
  its field without the afternoon bit.
* `TcmSizeGrows` (`NdsMemory`; `cp15.rs:238-239`): a size that should saturate wraps to nothing.
* `DataWaitsItsLatency` (`NdsCart`; `cart.rs:438-440`): the completion of a block without data
  releases the block that was started after it.
* `FrontFacesSurvive` (`GpuGeometry`): a face is judged by the first three clipped vertices,
  which may lie on a line, or wind the other way after rounding.
* `SharedEdgeHasOneOwner` (`GpuRender`; `raster.rs:466-467`): vertices and crossings are
  truncated to pixels, which may turn a thin triangle over; it is then drawn over its
  neighbour, on the other side of the edge they share.
* `ReadsStayInside` (`RenderLayers`; `memory.rs:157-159`): a large direct-colour bitmap of the
  DS is read past its view without the guard of the other reads.

Others were met on the way and are recorded here.

The timeline and the loops:

* `scheduler.rs:18-20` says that time never passes a scheduled event; within an instruction
  it does (`gba/src/system.rs:478`). `LateByOneInstruction` is what holds.
* `timer.rs:231-232` says that an overflow reloads at the event's timestamp; it does so
  at the time it is handled (253), so the period stretches.
* `gba/src/system.rs:343`: when a transfer and the end of the frame fall in one slice, the
  completion of the frame is not reported (306-308 promise to resume the same frame).
* `nds/src/system.rs:1642`: events scheduled inside a slice for a time inside it fire at
  its end; the base of a gamecard or Wi-Fi delay is the start of the slice (529, 822, 827), which
  makes the latency shorter than computed.
* A woken NDS core resumes at the stamp of the latest cross-core raise, also when the interrupt that
  woke it is another.
* An NDS timer that leaves the cascade while it runs schedules its overflow from a stale `last_sync`, in the past,
  as the GBA's does (`nds/src/timer.rs:184-204`).
* Each stop of the Wi-Fi counter drops the part of a microsecond that has begun (`wifi.rs:181-182`, 399), so a
  counter that is stopped and started often runs slow; `CountsMicroseconds` bounds it by one a stop.
* The Wi-Fi counter and the clock's second are counted with 33,513,982 ticks to the second
  (`wifi.rs:103`, `rtc.rs:23`), though the master tick is that of the ARM9, twice as fast (`ppu.rs:6-8`,
  `sound.rs:33`).

The hosts and the cable:

* `serial.rs:23-24` says that an unconnected transfer completes at once; one that is in flight when
  `set_link(false)` is called stays busy (291-300), and its game polls for ever.
* The desktop never tells the core of a connection that has ended (`main.rs:449-485`; `link.rs:99` only
  stops reading), so a parent whose peer has gone starts a last transfer and stays at the barrier for good.
* In the normal modes the peer is
  slot `1 - id` (`serial.rs:263`), which a unit with id 2 or 3 underflows.
* `rewind.rs:119`: a seek that lands on a keyframe leaves the facade's `last_input`, which `record`
  reads (78), as it was; and the key commands of the debug client (`debug/src/lib.rs:413-431`) do not
  set it, against `rewind.rs:40`. `bench.frames` and `run.steps` (`debug/src/server.rs:318`) advance the
  machine behind an enabled timeline.
* `main.rs:527-531` overwrites the save in place: an error or a kill inside the write loses the old save with the
  new one. A loop that lives on tries again with its next quiet frame, but a seek to a backup that is not dirty and a
  closed window leave the torn file. A seek does not restore the file either, so a clean backup may be one
  the file has moved on from.
* A console that reports a constant save epoch (the GBA) is flushed as soon as it is dirty for
  the quiet time, so its save may be written half.
* The late `stopListener` of an accept handler cancels the listener of a newer `host()`, and a
  pending carrier that is replaced is never cancelled (`Link.swift`).
* `audio.rs:57`: at 22050 Hz the ring's capacity is odd, and a full ring drops half a stereo pair, after
  which the channels are swapped. The frames a seek replays are pushed to the sink like others.

The GBA:

* `bus.rs:452` and its neighbours say channels run in priority order; a run that triggers another
  nests it. Two channels armed on one FIFO fill it twice.
* `psg.rs`: the left and right fields of NR50 are exchanged, and a byte write to the low half of
  a control register triggers the channel again.
* A prefetch buffer that is switched off and on keeps its old head, and a hit does not advance the
  fetch in flight.
* `ppu/mod.rs:105-106` says that a reference write takes effect from the next scanline; it does from the
  current pixel. Writing one coordinate reloads all four (`video2d/src/latch.rs:32-41`), so the other
  background starts again from its top in the middle of the frame. `ppu/inspect.rs:5-8` says an inspection shows the pixels of the framebuffer; it draws the row again
  from the current registers.
* An EEPROM's first burst fixes its address width even when malformed, and a burst of more than
  130 bits overflows its count.

The CPU:

* LDM with the base in its list writes the base back over the loaded value when the base is
  the lowest, Thumb LDMIA does not. The halfwords `0xB1xx` decode as an adjustment of the stack
  pointer. `reset_to` and `boot_reset` set CPSR without changing banks.

The DS:

* Where video banks overlap the CPU reaches the lowest and the assembled image shows the highest
  (`vram.rs`). VRAM and I/O are looked up before the TCMs, and a data TCM that reaches the top of the map is
  disabled by the wrap of base plus size.
* `dma.rs`: a gamecard channel armed after its block is ready is never triggered; writes of a DMA to I/O are
  dropped except those to the geometry port; a repeating geometry channel stays enabled and does not run again.
* Writing AUXSPICNT alone does not end a backup transfer. A partial write of the clock is
  applied on release.
* The touch converter clamps to 12 bits (`firmware.rs`), which makes the outermost rows unreachable,
  though `firmware.rs:15-16` promises the game gets the pixel back.
* DISPSTAT never reports the H-blank, and its V-blank bit stays set through line 262, against
  `ppu.rs:3` and `read_dispstat` (547). The 3D picture is rendered again only on a swap. Byte
  writes to the block of the 2D registers overwrite the neighbouring byte.
* `math.rs:141` says the upper half is inverted in the modes with a 32-bit numerator; the code inverts it in
  every mode but the one of 64 by 64 bits. `system.rs:945` says that POSTFLG's bit 1 can be
  written both ways; it is only ever set.
* A byte write to W_IF's upper half, or a word write over it, stores where a halfword write clears; writing one
  halfword of W_US_COUNT takes the others from what was last written (`wifi.rs:386-388`).
* A sound loop with no length, or a step longer than the loop, restores an ADPCM state that belongs to
  another position.
* `gpu3d`: crossed quads keep the order of their vertices; polygons that clipping makes longer than the
  limit are cut off; the edge-mark pass reads the alpha bit of translucent polygons; the stencil is
  cleared only where the shadow polygon itself passes.

## 6. Plan

Done: the timeline, the cores, the serial link, the hosts, the devices of both consoles, the CPU and both
renderers; and the proofs of the scheduler with its refinement, of the cores, the queues, the cable,
the GBA timers, and the hosts: timeline, session, desktop, run loop and ring. What is next, in this order:

1. Proofs of what is inductive and first-order: `NoFasterThanCartridge` of `GbaBus`; `CausesReachTheCpu` of `NdsWifi`;
   `NewestFrameShown` of `NdsFrame`; `BanksHold` of `ArmRegisters`.
2. Abstract specifications: a timer as a counter of ticks (for the lazy timers), a round as
   an atomic exchange (for the serial link, whose phases are the refinement mapping), a recording as a
   function from frames to states (for the timeline), a lossy queue of stereo frames (for the ring).
3. The debug client as an actor on `RewindTimeline`, and the FFI's handles.

## 7. Not modelled, and why

The bus and time types and their traits have no behaviour. The GBA's BIOS image is a guest program; traces and logs
change nothing. The NDS timers are line by line those of the GBA (`GbaTimers`); their events are in `NdsCores`. The boot of the DS copies
a header and two programs once. The disassembler, instruction field tables, texture formats, lighting, sample interpolation and
mixing, and the KEY1 cipher are functions of data with nothing to interleave. Window, view, input,
discovery, audio-engine and platform code is I/O; sockets are modelled as the ordered
carrier they provide. The FFI and the debug server are clients of the facade; what their calls do behind
the timeline is in section 5. Within the modelled parts, `components` in `PROJECT.json` says what is left out:
the game-visible error bits of the serial port, VCOUNT match, wait states and contention, coprocessor and
halfword products of the CPU, IPCSYNC, protection units, the Wi-Fi packet memory, and the framing of words on the wire.
