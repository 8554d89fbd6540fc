# OpenDeck: a TLA+ verification project

OpenDeck is the firmware of a family of MIDI and OSC controllers: an application image (`src/app/firmware`), a
bootloader image (`src/app/bootloader`) and code shared by both (`src/app/common`), on Zephyr. This directory holds
TLA+ models of its components, TLC configurations that check them on small instances, and proofs checked by TLAPS that
hold for every instance. `PROJECT.json` lists the components, the runs, the source lines each definition stands for, the
hazards, the findings and the theorems.

    tlc -workers 2 -config System.cfg System.tla      # one run
    tlapm SystemProofs.tla                                # the proofs of one module

Contents: 1 the system; 2 the modules; 3 the runs; 4 fairness; 5 the proofs; 6 the findings; 7 assumptions and what is
left out; 8 the plan.

## 1. The system

### Threads and how the parts meet

| thread | kind | what it runs |
|---|---|---|
| dispatcher (signalling) | cooperative | every subscriber of every signal, one signal at a time: SysEx frames, configuration requests, preset changes, MIDI and OSC events for outputs and switches, refresh and reboot requests, the storage mode |
| system workqueue | preemptible by the dispatcher | one work item at a time: forced refresh, backup, restore, factory reset, reboot, inactivity timeout, start-up resume |
| digital, analog, outputs, touchscreen, I2C | preemptible | a loop around `wait_until_running()`; they read the database and publish signals |
| MIDI, OSC (send and receive), WebSockets client | preemptible | receive and send; an upload runs in the thread of its transport |
| interrupts, Bluetooth and network callbacks, kernel workqueue | | received bytes, subscriptions of a central, changes of the address, the end of a flash of an indicator |
| USB stack and RX thread (bootloader) | two threads | the WebUSB recovery transport |

Parts call each other directly within a thread (upload handler -> stream parser -> writer -> flash area; controller ->
filter and mapper; coordinator -> database -> storage) and publish signals between threads. Shared without a lock: the
coordinator's fields, the selected region of the database, the flags of the I/O gate and of WebUSB, the settings and the
state of inputs, outputs and I2C drivers when a configuration write changes them.

### Components

State, operations, what is hard, and what makes each correct.

**DFU payload writer** (`common/src/dfu/writer`, `flash_area`, `staged_update`, `firmware/src/dfu/staged_update_writer`,
`bootloader/src/dfu/direct_update_writer`). State: active flag, expected and written bytes, block buffer, the sector
erased last. Operations: `begin`, `write`, `finish`, `abort`, with the hooks that erase and write a header. Hard: erase
and program are separate flash operations, any of which may fail or be cut by a power loss; a block may span sectors and
the header may share one with the payload. Correct: nothing is committed that is not in the flash, a header stands for a
whole payload, no cell is programmed twice. `DfuWriter`.

**Stream parser and upload protocol** (`common/src/dfu/dfu_stream_parser`, `upload`, the two `firmware_upload` handlers).
State: stage, status, metadata, byte counts. Operations: Begin, Chunk, Finish, Abort. Hard: any order of commands, any
malformed stream, counters kept twice and reset on different paths. Correct: "finished" is answered only for a package
that is stored in full; every command is answered. `DfuUpload`.

**Bootloader update path** (`bootloader/src/dfu/staged_update_reader`, `bootloader/src/system`). State: the two flash
areas, the marker (the staged header), retained boot mode, the delayed reboot. Operations: `consume()`, recovery upload,
reboot. Hard: a power loss anywhere between staging and the end of the copy. Correct: only whole packages are installed,
an interrupted installation can be resumed, a good one ends with the device running it. `StagedUpdate`; what it promises
is `UpdateContract`.

**WebUSB recovery transport** (`bootloader/src/protocols/webusb`). State: message queue, two atomic flags, the OUT buffers.
Operations: connect, disconnect, receive, cancel, the RX loop, `reset()`. Hard: two threads store the same flags; the
consumer of the queue also puts into it. Correct: no buffer is lost, no upload mixes two connections. `WebUsb`.

**System coordinator** (`firmware/src/system`). State: configuration session and its owner, unlock progress,
backup/restore mode and progress, restore queue, refresh progress, scheduled work, frozen I/O. Operations: every signal
subscriber and every work item. Hard: dispatcher and workqueue interleave in unlocked fields; an item continues work an
earlier one started. Correct: nothing is stranded, I/O resumes, sessions are owned and timed, backups are complete and
end. `System`.

**Database** (`firmware/src/database`). State: storage, its journal and factory page, the selected region (context, preset,
layout), the write mode. Operations: `init`, `factory_reset`, `set_preset`, reads and updates, and the signals that switch
between cached and flushed writes. Hard: power loss during defaults or a factory reset, the mode following signals that lag,
reads from several threads through one selected region. Correct: a valid signature means complete data, the snapshot is the
defaults, what a host wrote is durable when its session has ended, a preset change lasts. `Database`.

**I/O gate** (`firmware/src/io/base.h`, `firmware/src/protocol/base.h`). State: an atomic flag and a counting semaphore.
Operations: `freeze`, `resume`, `wait_until_running`. Hard: a freeze in the middle of a resume, tokens left over. Correct: no
lost wake-up, no iteration that starts in a freeze. `IoGate`.

**Digital inputs** (`firmware/src/io/digital`, with the bounded counters of `util/incdec` and `global`). State: debouncing,
latches and counters of switches, quadrature and direction filters of encoders, their values, the frame being processed.
Operations: a frame, a refresh, settings, presets, values from the host. Hard: a freeze between the change of a latch and
its message; a refresh that runs the code of a press; a value that outlives the mode it was made for. Correct: the host
knows the switches, a refresh changes nothing, a direction turns over only after enough steps, a value fits its message.
`MidiGlobals`, `Switches`, `Encoders`, `Digital`.

**Analog inputs** (`firmware/src/io/analog`). State: the filter of each input, the last value, the scan mask, the frame.
Operations: a frame, settings in three steps (mask and type), presets, refreshes. Hard: deadband, direction hold, endpoint
hold, idle gate and publish policy each drop samples and reset each other's counters. Correct: one outlier reverses nothing,
a control at rest ends near its position, force sensors and switches are known. `AnalogFilter`, `Analog`.

**Outputs** (`firmware/src/io/outputs`). State: per output active, level, pulse and lit; pulse counters; the update
semaphore. Operations: MIDI, OSC, clock, preset and level events, settings, the thread that pulses. Hard: settings take no
mutex; two sources toggle. Correct: what is shown is the level held, outputs of one speed pulse together. `Outputs`.

**Touchscreen** (`firmware/src/io/touchscreen`). State: active page, enabled, what the display shows. Operations: pages,
icons, touches. Hard: a command is sent byte by byte and may be cut by one from another thread; a page and the icons of the
old one overlap. Correct: icons follow outputs, the page shown is the active
screen, no icon of another page is on it. `Touchscreen`; the touches are in `Analog`.

**MIDI protocol** (`firmware/src/protocol/midi`). State: burst buffer, routes, DIN clock and loopback, BLE readiness,
receive queues with their poll signal. Operations: sending, bursts, reading, settings, presets, tempo, a central that comes
and goes. Hard: a signal reset after the poll, routes rebuilt one by one, BLE state that is silent when unchanged. Correct:
order and completeness towards USB, no packet waits for the next, clock and routes follow the settings. `Midi`.

**OSC protocol** (`firmware/src/protocol/osc`). State: queue and wake-up, destinations with backoff, sockets, identity.
Operations: queueing, sending, receiving, discovery, settings, the packet coder. Hard: two threads and the dispatcher share
settings and sockets; socket numbers are used again. Correct: no packet waits, a backoff has a reason, the listener is on the
port of the settings, what is decoded is what was encoded. `Osc`, `OscPacket`.

**mDNS and network identity** (`firmware/src/protocol/mdns`, `common/src/protocols/mdns`). State: host name, the address that
was published. Hard: address events, the rescheduled work and the signal overlap. Correct: OSC and the indicator end up
with the address of the device, under a valid label. `Mdns`.

**Activity indicators** (`firmware/src/io/indicators`). State: lit LEDs, inversion, scheduled ends. Hard: a session that opens
during a flash. Correct: a LED without a flash shows the session. `Indicators`.

**Firmware WebSockets transport** (`common/src/protocols/websockets`, `firmware/src/protocol/websockets`). State: the active
client (socket and generation), its handlers, the session of System it holds. Operations: accept and replace, receive, send,
close. Hard: a socket number kept over a replacement, two closes of one client. Correct: an answer goes to who asked, a
session ends with its client. `WebSockets`.

**I2C peripherals** (`firmware/src/io/i2c`). State: probing and update times, for each of six drivers its registers, data
path and settings. Operations: probe, `init()`, `update()`, settings that call `init()` on the dispatcher. Hard: two `init()`
at once, devices that leave and come back, single failures that are forgiven, display elements changed while they are drawn.
Correct: drivers get initialized and up again, registers follow settings, host and screen show what there is. `I2c` with
`Apds9960`, `Cap1188`, `Bno085`, `TimeOfFlight`, `Display`.

Not modelled: the bootloader's WebSockets transport (the base class is that of the firmware's), the I/O helpers that are pure
functions of their arguments, signalling (an external library, modelled by its effect: one signal is one step of one thread),
MCU services (register access; the reboot and the retained mode are in `StagedUpdate`), start-up (construction and priorities).

## 2. The modules

| module | models | extends / composes |
|---|---|---|
| `DfuWriter` | the payload writer over a flash area, one flash operation a step | |
| `DfuUpload` | parser and upload commands | extends `DfuWriter` |
| `StagedUpdate` | application, MCUboot and bootloader, one image at a time | two instances of `DfuUpload`: `App` (staged writer), `Ldr` (direct writer) |
| `UpdateContract` | what an update promises (abstract) | implemented by `StagedUpdate` (`ImplementsContract`) |
| `WebUsb` | the two threads of the WebUSB transport | |
| `System` | the coordinator: dispatcher and workqueue | |
| `Database` | storage, administrator and a reader | |
| `IoGate` | the flag and semaphore behind "I/O is frozen" in `System` | |
| `MidiGlobals` | bounded counters, MIDI program, tempo | |
| `Switches`, `Encoders` | filters, mappers and controllers | extend `MidiGlobals` |
| `Digital` | frames, the thread, refreshes, settings, presets, sync | extends `Switches`, `Encoders` |
| `AnalogFilter` | the filter of an analog input, as operators | |
| `Analog` | driver, mapper, thread, touches, the signals to the switches | extends `AnalogFilter`, `Switches` |
| `Outputs` | mapper, levels, pulses, thread | |
| `Touchscreen` | pages and icons over the outputs | extends `Outputs` |
| `Midi` | transports, bursts, routes, clock, BLE | |
| `NetworkBus` | what the network components share | |
| `OscPacket` | the packet coder, as operators | |
| `Osc`, `Mdns`, `Indicators`, `WebSockets` | one network component each | extend `NetworkBus` |
| `Network` | the four together, on one dispatcher | extends them |
| `Apds9960`, `Cap1188`, `Bno085`, `TimeOfFlight`, `Display` | what a driver's operations make of its state, as operators | |
| `I2c` | thread, dispatcher, devices; when the drivers' operations run | extends `IoGate` and the drivers |
| `DfuProofs`, `SystemProofs`, `DatabaseProofs`, `FeedbackProofs`, `I2cProofs`, `NetworkProofs`, `MidiProofs` | theorems | extend the module they are about; `DfuProofs` is about `DfuWriter` and `DfuUpload`, `SystemProofs` about `System`, `Digital` and `Analog`, `I2cProofs` about `IoGate` and `I2c`, `FeedbackProofs` about `Outputs` and `Touchscreen` |
| `BootloaderProofs` | theorems | extends `WebUsb` and `StagedUpdate`; two instances of `DfuProofs` |
| `MC*` | values for the constants | extend the module they check |

How state and actions correspond to the code:

- **DfuWriter.** `flash` maps offsets to cells; a cell is a payload byte or a header word, `Erased`, or `Corrupt` once it has
  been programmed twice. `w` holds the members of the writer and, in `pc`, the flash operation a call waits for. `Begin`,
  `Write`, `Finish`, `Abort` run to the first flash operation; `EraseHeaderSector`, `EraseBlockSector`, `ProgramBlock`, `Commit`
  do one each and the code up to the next. A power loss or failure while programming leaves any prefix.
- **DfuUpload.** One `Chunk(x)` feeds one symbol, a header word or a payload byte; how a transport cuts the stream changes
  nothing the parser does. `call` is the call that waits for the writer.
- **StagedUpdate.** `reader` steps through `consume()`; `Restart` is what MCUboot decides from the slot, the button and the
  retained mode.
- **WebUsb.** Each store of a flag, each put and get of the queue is a step.
- **System.** `sys` is the record of the fields and of the set of scheduled work items (`pending`), `worker` the point the
  workqueue is at. A handler of the dispatcher is one step, because that thread is cooperative. An item is split at the
  points where being preempted matters: between the checks of a refresh and its start, between the end of a refresh and the
  resume, between the three steps of the inactivity timeout. Operations are functions from fields to fields (`StartBackup`,
  `SetPreset`, `Obey`, `UpdateSession`), as the code shares them between both threads.
- **Database.** `flash` is durable, `journal` the writes that are visible and may still be lost, `factory` the snapshot. `stage`
  walks through `init()` and `factory_reset()` one write at a time. `calls` are reads preempted inside `select_preset()`.
- **IoGate.** One operation on the flag or the semaphore is one step; `gives` counts the tokens a `resume()` still owes.
- **Switches, Encoders, Digital.** A mapper is a pair of operators: the state after a reading, and the signals. A refresh
  evaluates the same operator with `mutate` off. The thread's steps are the ones between which a freeze, a setting or a
  preset gets in: taking a frame, one switch, its publication, one encoder. Time is a class: `close`, `near`, `far`.
- **AnalogFilter, Analog.** The filter is a chain of operators, one for each stage, from record to record; a sample is one
  step, the publication of its result another. A write of the type or the enable flag has its three steps (driver mask,
  store, reset) apart.
- **Outputs, Touchscreen.** The subscribers are actions of the dispatcher, which runs before any thread goes on; the thread's
  `process_update()` is split before each write to an output (`task`), where a setting can get in. A page turn is split into the
  command, the store of the page and the announcement (`turning`).
- **Midi.** A packet is a record with a number, or is counted where only its presence matters. The reader's steps are the poll,
  the reset of the signal and the reads.
- **Osc, Mdns, Indicators, WebSockets.** A thread's action ends where it reads state that others write: for the sender the
  queue, the endpoint, the result of the send; for the reader the port, the socket, the datagram. Sockets are small numbers
  that are used again. `bus` is the queue of the dispatcher; handlers take its first signal.
- **I2c and the drivers.** A driver module has no variables: its operators take the driver's record and what the device
  answered. `I2c` keeps what the thread is doing (`turn`, `pc`, `work`), the driver whose `init()` the dispatcher is in
  (`handler`), and per peripheral `sched`, `driver`, `settings` and the `device` itself. `init()` and `update()` are two steps
  each, with the transaction between them.

Variables marked "ghost" record what the code does not keep (what the host was told, what was cut off by a freeze); no guard
of an action reads one. Definitions whose name adds a word to the one below them, with a comment beginning "Mutant:", are the
code with a plausible bug. They occur in no specification; they show that a property can fail.

## 3. The runs

| run | states | what it asks |
|---|---|---|
| `dfu_upload` | all streams over two sectors of 2 and 6 cells, two failures | what a finished upload means, erased before programmed, every command answered |
| `staged_update` | one power loss, one failure, anywhere in an update | whole packages only, resumable, installed in the end, refines `UpdateContract` |
| `webusb` | two connections, three buffers, queue of six | buffers accounted for, one connection per upload, buffers come back |
| `system` | five signals of any kind | nothing stranded, I/O frozen for a reason and resumed, session owned and timed, backup complete and ending, reboot taking place |
| `database` | five requests, two presets, with one failure and one power loss or with a reader | start-up, snapshot, durability, defaults, active preset, the selected region |
| `inputs` | two switches or one encoder, a freeze, a change of settings | what the host knows of switches, what a refresh may do, when a direction turns over, ranges |
| `analog` | one input of three types, two touch components | notes, switches, outliers, where the filter comes to rest |
| `feedback` | one output and two icons | what is shown, pulses in step, icons |
| `midi` | three transports, three routes, two presets | order and loss towards USB, received packets, clock, routes, BLE |
| `network` | eight scenarios over four components | OSC queue, backoff, port and packets, the published identity, indicators, WebSockets clients |
| `i2c` | the gate with three threads; sixteen scenarios of one driver each | wake-ups and freezes, drivers up again, settings, what host and screen show |
| `timer_pulses` | until the violation | the finding of section 6 |

**The properties.** A component's safety invariants are conjoined under one name, which its run checks; the conjuncts are
definitions of their own with a comment each, and it is their names that say what is claimed:

| property | conjuncts |
|---|---|
| `WriterSafe` | `BlocksPlaced`, `CommitComplete`, `PackageComplete`, `NeverOverprogrammed` |
| `UploadConsistent` | types of parser and writer, `CountersAgree`, `FinishMeansStaged` |
| `InstallSafe` | types, `OnlyWholePackagesInstalled`, `InterruptedInstallCanResume`, `InstalledInFull`, `NeverOverprogrammed` |
| `TransportSafe` | types, `BuffersAccounted`, `OneConnectionPerUpload` |
| `SystemSafe` | types, `NothingStranded`, `FrozenForAReason`, `BackupComplete` |
| `SessionKept` | of every step: `KeepsTransport` (an owned session is never taken over), `StaysTimed` |
| `WorkEnds` | `IoResumes`, `BackupEnds`, `RebootHappens` |
| `DatabaseSafe` | types, `SignatureMeansComplete`, `SnapshotIsDefault`, `SavedWhenClosed`, `RestoreSaved`, `ResetGivesDefaults`, `ActiveIsStored`, `RegionSelected` |
| `InputsInRange` | types of switches, encoders and thread, `SentValueFits` |
| `HostFollows` | `ForceReported`, `SwitchFollows` |
| `SettingsApplied` | `ClockRuns`, `RoutesApplied` |
| `ClientsKeptApart` | `AnswersToAsker`, `SessionsEnd` |
| `GateWorks` | types, `EnoughTokens`, `NoLostWakeup`, and of every step `StartsRunning` |

A few deserve a word. `OnlyWholePackagesInstalled` depends on a detail nobody wrote down: a header torn by a power loss reads as a
size of 0xFFFFFFFF, which only the capacity check of `begin()` refuses. `NeverOverprogrammed` is the claim that remembering one
sector is enough. `StaysTimed` is about steps because there is one exception, and it is named: a restore packet handled after its
restore has been cut short. `RestsNear` says what the five stages of the analog filter amount to: whatever they dropped on the way,
a control that rests is published within two reversals of the movement gate. `OutlierNeverReverses` and `DirectionHeld` compare the
filters with the samples themselves, not with their own counters; the first is about the preset the device starts in, as selecting
another resets no filter and leaves the level of a switch where the next type has its last value. `BackupComplete` counts which
exports have run, not what the host received of them, and `SensorsHeal` says that a driver is initialized and up, not that its
registers are right, which is `SettingsReachDevice`. `PageIsActive` ties what the display shows to the screen the code believes
active: `set_icon_state()` decides by the latter only, so wherever the two differ it lets icons of another screen through; they may
differ only in the two ways that `crossed` and the steps of `set_screen()` name. Where a property holds but for a race the code
really has, the race is a ghost with a name (`unreported`, `cutOff`, `raced`, `missed`, `strayed`, `late`, `crossed`, `mixed`,
`unnoticed`, `forgotten`, `owed`, `overtaken`), and the property excepts exactly what is in it; section 6 lists them.

**The bounds, and why they are enough.**

- `dfu_upload`: two sectors, of which the header fills the first and reaches into the second, so that it shares a sector with
  the payload; two blocks of two cells; sizes 0 to 5, so that zero, exact, padded and too large occur; two failures, so that
  an abort can fail too.
- `staged_update`: a header that shares the first staged sector with the payload, a slot of two sectors, an image that needs
  padding and differs from the one it replaces; `MaxFaults` = `MaxLosses` = 1, each anywhere.
- `webusb`: two connections, so that messages of the first meet the second; more than `Reserve` messages fit.
- `system`: `MaxInputs` = 5 reaches Open, the unlock word, Backup or RestoreStart and two interfering signals; two presets
  so that a change can be seen; one section, refresh batch and unlock word, since more only repeat the same step; a queue of
  one so that it is full at once.
- `database`: two presets, five requests: open, write, change, close and a restore or factory reset. Either one failing call and
  one power loss, or one thread that reads presets (`Apart`): a reader adds steps to every state, a fault ends most of them. The
  proof leaves `Apart` open, so it covers readers, failures and power losses together.
- `inputs`: two inputs are two switches, or the pair of an encoder. Seven settings of switches that cover each kind of counter
  and latch, two modes of encoders with values of 7 and 14 bits (0..3 and 0..5), a history of two samples, a direction that is
  held for two steps, one change of settings, two presets, one freeze: a freeze between two halves of a press, a preset or a
  write anywhere. Scanning and refreshing are unbounded.
- `analog`: an ADC of 16 steps, gates of 2, 3 and 4 steps, so that a deadband, a turn and a wake-up differ and several fit
  into the range; levels at both ends, next to them and one gate apart. Four scenarios share out moves, freezes, touches and
  writes; samples are unbounded, so `SettleSamples` = 7 counts those a resting control needs at most.
- `feedback`: three speeds, of which two are used, so that the counters get out of step; an output that dims, an icon that
  shares a message with it and one that follows local notes; seven scenarios share out messages, clocks, writes, freezes, touches. One
  has a touch and two writes, so that a page of the thread meets one of the dispatcher and is sent again.
- `midi`: the three routes are a loop (DIN to itself, which is hardware when it is alone), its competitor, and one between other
  transports. `BurstCount` = 3 in a buffer of 4, so that a burst goes out when its count is reached and when it is full;
  queues of two received packets; five scenarios.
- `network`: two destinations, hosts 1 to 3 of which one is unknown, two ports, three sockets, so that numbers are used again;
  an uptime modulo 16 that passes by one or by half of its range, so that it wraps; packets of 40 bytes, so that the longest message just does not fit;
  datagrams cut, extended and of the wrong type; three clients on two sockets, so that a number outlives its client twice.
- `i2c`: one driver in a scenario, as drivers share nothing but the thread; several scenarios for those whose setting is written
  by the dispatcher. `ProbeInterval` 2, three failures to give up, seven ticks: enough for a device to leave, to be found out, to
  come back and to be found again. The scenario of the gate has three threads and three freezes; there is one more way in which
  the gate is used, without bound, in the proofs.

`CHECK_DEADLOCK FALSE` stands where the inputs are bounded by budgets (all runs but the first two: when they are used up and
every thread waits, nothing happens any more) and where a host may simply stop (`webusb`, whose RX thread may also block for ever,
which is what two of its properties are about). `dfu_upload` and `staged_update` are checked for deadlock.

## 4. Fairness

Only what the scheduling of the code gives. Hosts, users, devices and the power supply are never fair.

- `UploadSpec`, `StagedUpdate!Spec`: weak fairness of the handler, reader and loader steps (a thread that has started a
  call goes on) and of the delayed reboot (a scheduled work item runs).
- `WebUsb!TransportSpec`: weak fairness of each thread and of the controller returning cancelled buffers.
- `System!LiveSpec`: weak fairness of the workqueue as a whole, not of each item. That is enough because an item schedules
  another only finitely often and inputs are bounded.
- `Database!LiveSpec`: weak fairness of the thread that initializes or resets, of the dispatcher, and of the restart.
- `AnalogSpec`: weak fairness of the analog thread, of a write that has begun, of the delivery of a signal and of the resume that
  System owes for each freeze. Its run checks no liveness, but `resting` grows only because samples come.
- `FeedbackFairSpec`: weak fairness of both threads and of the dispatcher. It is what makes the counterexample of
  `timer_pulses` count: all threads run, and the output stays lit.

The other specifications state no fairness: "in the end" is said there as an invariant of the quiet states (`SettingsApplied`,
`IdentityFollowed`, `SensorsHeal` after `Settled` ticks, `PacketsRead` when the reader waits), which is stronger, as it needs no
fairness.

## 5. The proofs

All are proved by `tlapm` to the last leaf, from the named assumptions on the constants and nothing else.

**DfuProofs**, the writer (assumptions: `GeometryAssumption` and the other assumptions of `DfuWriter`: contiguous sectors, a block
no larger than `MaxBlock`, distinct words). For every geometry, payload and number of failures and power losses:
`WriterTyped`, `WriterCommitsAll` (`CommitComplete`), `WriterPackageWhole` (`PackageComplete`), `WriterErasesFirst`
(`NeverOverprogrammed`), `WriterPlacesBlocks` (`BlocksPlaced`) and their conjunction `WriterIsSafe` (`WriterSafe`). None is
inductive alone. `NeverOverprogrammed` needs
to know which cells are still erased: the rest of the sector erased last, behind the block; that needs the position of the block
in terms of the bytes accepted, hence the counters; `PackageComplete` needs the header's sector to be erased until the commit.
`IInv` joins these.

**DfuProofs**, the protocol (assumptions: those of `DfuWriter` and `SizesAssumption`). For every stream of commands and symbols:
`UploadCorrect` (the invariant `UploadInv`), `UploadIsConsistent` (`UploadConsistent`: types, `CountersAgree`, `FinishMeansStaged`) and
`UploadKeepsWriterSafe` (`WriterSafe` again, now of the specification in which the parser drives the writer). `UploadInv` is `IInv` with
what the parser knows: `StageInv` ties its members together, `Between` says what parser and writer share when no command is under
way, and `InBegin`, `InByte`, `InFinish`, `InAbort` what is known while a call of the writer is. The writer's steps enter through
`Goes`, the six ways in which one of them can look to the parser, so that the writer's proof is used and not repeated;
`CommitDelivers` is the link to the answer of Finish.

**BootloaderProofs, the update** (assumptions: `FlashAssumption`, both areas have contiguous sectors and room for a header;
`WordAssumption`, an erased cell reads as no word or byte of a package; `FactoryAssumption`, the image a device leaves the factory
with fits the slot). For every pair of areas, every set of images, any number of failures and power losses: `UpdateCorrect` (the
invariant `UpdateInv`), `UpdateIsSafe` (`InstallSafe`) and `UpdateImplementsContract` (`ImplementsContract`: every step of the
detailed specification is a step of `UpdateContract` or a stutter). The module instantiates `DfuProofs` twice, for the
writer of the staged area and for that of the slot, so what is left is what one image relies on when another has run. `FlashInv`
is about both areas whichever image runs: it is what survives a restart. `ImageInv` says which upload handler is where it may be.
`ReaderInv` follows the staged-update reader from step to step: what it has read and what the writer has accepted are together the
beginning of the staged package (`Copying`). `SourceInv` says where the bytes in the slot come from; it holds the key to the
interrupted installation: an unusable slot without a fault behind it means that the package it was copied from is still staged. The refinement
has one lemma for each action; the steps of a writer enter through what they leave unchanged of the area they do not own.

**BootloaderProofs, the transport** (assumption: `WebUsbAssumption`, sizes are positive and the reserve is smaller than the queue). `TransportIsSafe`
(`TransportSafe`) for any depth, reserve, number of buffers and of connections. `BuffersAccounted` counts: what is armed, free, queued and in hand of the
thread is always the number of buffers, hence lemmas on how appending and taking change the number of data messages in a queue.
`OneConnectionPerUpload` is not inductive: the queue may hold data of two connections. `SeparationInv` adds that a control message lies
between them, and before the first of them that is not of the upload's connection; `ClosingInv` that one comes after all that is left
of a connection before the next may deliver anything. The hard step is `reset(true)`, which takes control messages out
and puts them back behind data that came later.

**SystemProofs, the coordinator** (assumption: `SystemAssumption`). For any number of presets, sections, batches, clients, tokens and signals:
`SystemTyped` (`TypeOK`), `SystemNothingStranded`, `SystemFrozenForAReason`, `SystemBackupComplete`, their conjunction
`SystemIsSafe` (`SystemSafe`), and two action properties, `SystemSessionOwned` and `SystemSessionKept` (`SessionKept`). The
invariant is `Good(sys, worker)`: types; for each kind of work, the item that continues it or the point the workqueue is at; the
reason for a freeze; and what a backup has exported so far, phase by phase (`Exporting`), because completeness at the end follows
only from the count on the way, and the type of the section and preset counters needs the phases too. Since the operations are
functions of the fields, there is one lemma for each (`StartBackupGood`, `HandleGood`, ...), used for the dispatcher and for the
restore item alike, and then one lemma for each work item. `SessionKept` needs no more than the types: the lemmas
(`KeepsTimer`, `UpdateSessionTimer`, `QueuedMode`, `DispatcherTimed`, `WorkqueueTimed`) follow what each operation does to the
scheduled timeout of an open session.

**SystemProofs, the inputs** (assumptions: `GlobalsAssumption`, `SwitchAssumption`, `EncoderAssumption`, `DigitalAssumption`,
`SwitchIndexAssumption`, `AnalogAssumption`: settings are of their types, there is a preset and each preset has a setting for every
input, the digital inputs begin at 0, and no two analog inputs or touch components share a switch). `DigitalSwitchReported` (`SwitchReported`),
`DigitalRefreshChangesNothing` (`RefreshChangesNothing`), `DigitalSwitchTypes` and `DigitalDirectionHeld` (`DirectionHeld`) hold for any switches,
encoders, settings and presets; `AnalogHostFollows` (`HostFollows`) for any analog inputs and touch components, and for any filter: it
does not use what the filter computes. `SwitchesInv` adds to the property what the thread and the refresh rely on: a message that
waits to be published was made from the state that the mapper has since (`Waiting`), and what a press, a release or a refresh makes
of a switch tells the host that state for every message and mode (`BuildFacts`, `Made`, `Truthful`). `EncodersInv` is small: the
counter of the filter never exceeds the run of the shaft itself, a ghost that no pause and no reset touches, so a full counter
means a full run. `AnalogInv` follows the queue of the dispatcher: the last signal for a switch that is on its way, or the state of
the switch when there is none, is what its input or component is (`Heading`). Of a switch
input the mapper keeps the value that the last signal carried, of a force sensor the press that the message in hand will tell.

**DatabaseProofs** (assumption: `DatabaseAssumption`, there is a preset and the bounds are numbers). `DatabaseIsSafe`
(`DatabaseSafe`) for any number of presets and readers, with readers, failures and power losses in any combination. The invariant
joins six parts. `StorageInv`: a signature means complete data in the flash and after each entry of the journal, because the power may go
after any of them; each entry therefore carries what the storage holds after it. `StageInv`: how far a factory reset has come is what
the storage looks like (`Partial(n)` after `n - 1` defaults), from which "the snapshot is the defaults" follows. `SelectionInv`: what each
reader is about to store is the active preset, as long as no reader has been overtaken. `ActiveInv`: the active preset is the stored
one. `SavingInv`: what a host wrote is durable or a signal that flushes it is on its way; because a flush happens only in
cached mode, which other signals switch, it follows the queue: `CachedAt(i)` is the mode when the i-th signal is handled.
Finding `SavingInv` was most of the work: "a pending end flushes" is false without the order of the signals before it.

**FeedbackProofs** (assumptions: `OutputsAssumption`, indices are numbers and the speeds divide a group of values; `TouchAssumption`,
each preset has a page and says whether the touchscreen is enabled). `FeedbackInvariant` (`FeedbackInv`), `OutputsShowTheirLevel`
(`ShownIsHeld`), `OutputsPulseTogether` (`PulsesTogether`), `IconsAreDrawn` (`IconsShown`) and `PageStaysActive` (`PageIsActive`), for
any outputs, drivers, presets, icons and messages. `ShownIsHeld` needs `HandInv`: what the thread has read of an output and not
written yet is what it will show, unless a write has raced it. `PulsesTogether` is not inductive, as a toggle reaches one output
after the other: `TogetherInv` says, at each point of the loop, that those of the speed in hand that it has passed are as the pulse is
(`PassedToggled`), that those still to come are alike (`RestAlike`), and so are those of other speeds (`OthersAlike`). `IconsInv` follows the
queue: the last level on the bus is the one that is shown (`Foretold`), and an icon that is wrong has its level on the bus behind it, or
a screen that makes the outputs write all levels, or the announcement of one in the thread. `PageInv` strengthens `PageIsActive` by the
time between the command of a page and its store, when the page is the one to be stored, and by the time the touchscreen is
disabled; a command of the dispatcher that gets into it leaves it only through `crossed`. A preset or a screen writes many levels
at once, hence lemmas on a sequence that lists each member of a finite set once (`Nth`).

**I2cProofs** (assumptions: `GateAssumption`, no more workers than `Io::Count` and a limit of at least that; `I2cAssumption`, a
positive probe interval and update intervals, a display and a motion sensor that hold back for no longer than the probe interval (30
and 4 ms of 1000), an address for each peripheral and exactly one for the APDS9960, and frames of numbers; `ZoneAssumption`,
one resolution is the widest). First the gate: `GateTyped`,
`GateEnoughTokens`, `GateNoLostWakeup`, `GateStartsOnlyWhenRunning`, together `GateIsWorking` (`GateWorks`). `EnoughTokens` is what
makes `NoLostWakeup` inductive: a running gate has, or still owes, a token for every worker that has seen it frozen. Here freezes
and resumes repeat without bound. `I2cUsesGate` shows that every step of the thread, of the dispatcher and of the devices is a step
of the gate or leaves it alone, which makes the gate's theorems available for the thread: time counts only while the thread can run,
and that it is not asleep then is `NoLostWakeup`.
`I2cSensorsHeal` (`SensorsHeal`) and `I2cSettingsReachDevice` (`SettingsReachDevice`) hold for any peripherals, probe and update
intervals, addresses and settings, however often devices are unplugged and settings written. `I2cInvariant` is the invariant:
`ThreadInv`, where the thread is; `CalmInv`, that a calm device is there, I/O runs and the dispatcher is not in its `init()`;
`HealInv`, that the driver of a calm device is healthy, failing, missing or being entered, and when its next update or probe is
due, counted against the calm, so that `Settled` ticks are shown to be enough; and `RegistersInv`, that a device whose driver is up
holds what the settings make of its registers, and that the settings `init()` has in hand on the thread come to the same registers
(`Alike`). They except what the model names: `mixed` and `unnoticed`
(section 6), a chip behind another one at a lower address, which is the only one asked, and a display of no supported type.
`I2cZonesAccounted` (`ZonesAccounted`) counts the places of the zone grid. `ZonesInv` has the filter between what was heard and what
is shown: a zone has a distance in it exactly while it is heard of, its count of invalid frames is that of the frames since, and no
zone outside of the resolution has one while the driver is up. A frame maps these zones one to one into the grid (`TargetsDiffer`), since
division by the width can be undone and every rotation and inversion is a permutation of the points; so the two sets are of one size.
The frame that was read under one setting and is processed under the next, and the resolution that is stored before `init()`, are cases
of the proof.
`I2cHostUpToDate` (`HostUpToDate`) and `I2cScreenShows` (`ScreenShows`) say what the thread gets done once a device is left alone.
`HealInv` brings the driver to be healthy; `Attention` goes on from there: as long as a healthy driver has something to tell or to draw
(`Wanting`), its next update is at most so many ticks off (`Pressing`), and it told or drew nothing for as long as its device has been
calm (`Lately`), so that no minimal interval can hold it back once more. The rest is what connects the ends: `TouchState` that the host
believes of each pad what the driver read last, and that what was read while it is calm is what there is; `MotionState` that each
enabled output was told as the driver remembers, and that the address is right unless the device was away; `ScreenState` that the
screen shows what is not to be drawn or is being drawn (`Looks`), and that what is being drawn is all that is pending. Each step of
the system is the step of one peripheral or leaves this one alone (`Whose`).

**NetworkProofs** (assumptions: `OscAssumption`, `MdnsAssumption`, `IndicatorAssumption`, `WebAssumption`: what the database and
requests may contain, sizes are numbers, a host name is bytes, a prefix and target are labels, socket numbers and clients are not
0). `SenderIsAlwaysSound` (`SenderSound`), `ListenerFollowsPort` (`ListensOnPort`), `IdentityIsAlwaysFollowed` (`IdentityFollowed`),
`IndicatorsAlwaysSettle` (`IndicatorsSettle`) and `ClientsAreKeptApart` (`ClientsKeptApart`), for any number of destinations, sockets,
clients, addresses and packets of an answer, and a dispatcher queue of any length. The invariant has two halves.
`DeviceInv` joins the components, which share only the bus, so each action is proved once against its own part and the others
follow from what it appends. `SenderInv` ties a retry time to its reason; `ListenerInv` says for each point of the reading thread what
its socket and port are worth; `IdentityInv` that the last identity on the bus is right or another event or work will correct it;
`LightsInv` and `SessionInv` do the same for the LEDs and the last session signal. `WebInv` is about connections.
A socket number says nothing, as it is used again; so the parts count generations: `ThreadInv` holds what the client thread may know of
a client that has been replaced, `SendingInv` that what is queued is for the active client only, `RequestInv` that a request
or answer whose session is current was asked for by the active client. `EndInv` is the promise that a session ends: whoever holds it
is active, or its end has been announced, is on the bus behind it, or was overtaken. `PartsInv` and `AnswerInv` are needed for
answers of several packets: they are next to each other on the bus, and as many have been gathered as were taken off it, so none
is mixed with another's and none is left when a client goes. `MessagesKept` is about the packet coder, a fold over bytes, and
stays with TLC.

**MidiProofs** (assumption: `MidiAssumption`, the presets are sequences of settings, none is empty, and a request writes what a
setting may hold or selects a preset that exists; sizes are positive, a burst has room for a packet of two words, tempos are not 0).
`PacketsAreDelivered` (`BurstDelivered`), `NoPacketWaits` (`PacketsRead`), `SettingsTakeEffect` (`SettingsApplied`) and
`BleFollowsCentral` (`BleReadiness`), for any number of packets, any list of routes, any presets and any queue of a transport. The
invariant `MidiInv` has six parts. `BusInv` says which signals can wait together; `BurstInv` that a burst is active from its start
to its stop, and that what is left in the buffer without one has packets of a response behind it that send it. `StreamInv` is
about numbers: those on the wire rise, those in the buffer follow them, those on the bus follow both, and together with the lost
ones they are `1 .. published`. `ConfigInv` holds what every operation on a transport keeps (BLE, loopback, the reader with the one
transport it may leave unread); `AppliedInv` is the property with the signals that will see to it. `setup_thru()` is a loop over the
routes, each of which may restart the UART, so it is a recursive function; that it ends with the routes of the settings
(`ThruSetUp`) needs induction over their number, which comes from the least element of a set of numbers (`LeastNatural`).

**Only model-checked.** Liveness (`CommandAnswered`, `StagedUpdateInstalled`, `WorkEnds`, `Starts`, the buffers of `WebUsb`); the
five stages of the analog filter (`RestsNear`, `OutlierNeverReverses`: divisions of unknowns, and a bound on how many samples bring
an input to rest); `InputsInRange`, whose `SentValueFits` holds for the settings of the run only (7-bit limits, see below); and `MessagesKept`
of the network. What the folds over bytes, samples and registers compute is not proved for every input.

## 6. Findings

One finding is a run of its own. `timer_pulses`: in timer mode, the default, nothing wakes the thread of the outputs every 50 ms,
as "periodic output update cycle" (outputs.h:156) promises; an output told to pulse stays lit until another signal comes.

### Disagreements a definition describes

Each of these invariants is kept in its module, with the text it comes from, and is in no run. Added to the configuration named,
in place of the properties there, it is violated.

| definition | configuration | what happens |
|---|---|---|
| `ConsumedMeansInstalled` | `MCStagedUpdate.cfg` | when the staged area cannot be read back, `consume()` clears the marker and returns `true`; the bootloader reboots into a slot it has begun to overwrite |
| `BuffersReturned` (a PROPERTY) | `WebUsb.cfg` | the RX thread puts control messages back with `K_FOREVER` into the queue only it empties; when the USB thread fills it meanwhile, buffers stay in it for ever |
| `EveryComponentRefreshed` | `System.cfg` | a preset change during a staged refresh does not start it over; components already visited keep the values of the previous preset |
| `AnnouncedStateHolds` | `System.cfg` | the inactivity timeout publishes Closed after a frame that has reopened the session in between |
| `BackupFaithful` | `System.cfg` | the preset that is exported may change between two sections of a backup |
| `ActiveStaysStored` | `Database.cfg` | a read preempted in `select_preset()` puts the previous preset back |
| `BackoffHasReason` | `MCNetwork.cfg` | a `retry_at_ms` of 0 stands for "no backoff" (osc.cpp:586) and is compared as a time: after 24.8 days of uptime, and for as long, nothing is sent to destinations that never failed |
| `BpmInRange` | `MCInputs.cfg`, with a `BpmDec` switch in `MCSwitchSettings` | `IncDec::decrement()` (util/incdec) takes only a value below the steps to the smallest one: the tempo goes below `BPM_MIN_VALUE`, down to 0, by which `bpm_to_usec()` divides |

### What the exceptions in the properties stand for

- `unreported`, `cutOff`, `unheard`: a freeze between the change of an input and its message drops the message
  (switches.cpp:166, analog.cpp:284); the host has the old state until the next refresh or the next press.
- `raced`: `sys_config_set()` of the outputs takes no mutex (outputs.cpp:666); the thread writes the level it computed before.
- `missed`: two threads write commands to the display without a lock and one is destroyed, or a freeze drops the signal.
- `strayed`, `crossed` (touchscreen): a page is on the display before `_active_screen_id` is stored (touchscreen.cpp:289). An icon
  that a level draws between the two is one of the screen before and stays until the next page (`strayed`). When a command of the
  dispatcher lands in `set_screen()` of the thread, it either destroys the page of the thread, whose number is stored all the same, or
  its own page is shown and the thread stores the number of the other one. Page and active screen then differ, and icons of the wrong
  screen are drawn, until a page is sent undisturbed (`crossed`), whatever "don't allow setting icon on wrong screen"
  (touchscreen.cpp:329) intends.
- `late`, `crossed` (OSC): `ListenPort` written while the reader is between two sockets, a destination written while a packet is on its
  way to the one before (osc.cpp:721).
- `stale`: BLE switched off and on while its central stays subscribed is not ready again (ble_service.cpp:53).
- `overtaken` (WebSockets): a client that was replaced closes the session of its successor's request when that was opened first.
- `mixed`: `init()` of an I2C driver on both threads at once, with different settings; the one that ends last leaves its registers.
- `unnoticed`: a device that was unplugged and came back between two reads keeps its default registers; BNO085, the display and an
  idle APDS9960 never find out, though deps.h says of `update()` "`true` if the peripheral is still usable".
- `forgotten`: `init()` of the CAP1188 clears the touched pads (sensor_cap1188.cpp:153); the release is never sent.
- `owed`: an element changed while it is drawn loses its change bits (elements.cpp:54), be it by a signal, a setting or the preset that
  `init()` writes; a second `init()` of the display clears the screen and not the elements, and one that takes over another layout while
  the display does not answer does not even clear the screen. The code clears the bits of each element when its own drawing is over, the
  model those of all at the end of the update: the elements drawn first are excepted for slightly longer than the code needs.

Observed while modelling, without a property: the first screen shows a zero-based preset where the comment says "One-based preset
number to display"; `ROW_MAP` has no entry for a 128x32 display; a type without a value leaves the value of the message before;
`sys_config_set()` of the display accepts `Count` as controller and resolution; both threads may use the `_u8x8` buffer during a
second `init()`; probing stops at the first address that acknowledges, another chip's or not.

### Further hazards, not covered

- WebUSB: OUT buffers that `receive()` refuses are not armed again before the next connection (webusb_hw.cpp:472); when not all
  buffers can be enqueued, the error is only logged (webusb_hw.cpp:513).
- Coordinator: `start_restore()` cancels the timeout, so a host that dies in the middle leaves I/O frozen (system.cpp:618); a packet
  that does not fit into the restore queue is dropped and the restore goes on (system.cpp:632); a scheduled refresh replaces the kind
  of one that waits (system.cpp:681); the workqueue sends through the same SysExConf that the dispatcher decodes with
  (system.cpp:463); a backup does not look at whether the preset could be selected (system.cpp:475), nor a factory reset at whether it
  succeeded (system.cpp:1066).
- Database: a preset that is selected and could not be stored (database.cpp:287); presets selected by a backup, unflushed when the
  session is closed in it (hwa_hw.h:148).
- Encoders: the limits of a setting have 14 bits in every mode, and a value is clamped to them after the step (encoders/instance/impl/mapper.cpp:144):
  a lower limit above 127 makes a 7-bit mode send a value that does not fit; so does a value of 14 bits that outlives the selection of
  another preset. `SentValueFits` is about neither.
- Inputs and outputs: a type of an analog input that is stored between its filter and its mapper (analog.cpp:376); a preset that the
  outputs ignore while frozen (outputs.cpp:136); the receive buffer of the touchscreen, which nothing bounds before a
  terminator comes (nextion.cpp).
- VL53L5CX: the dispatcher may store a setting or reset the frames between two zones of `process_results()`, which reads the orientation
  of each zone when it comes to it (sensor_vl53l5cx.cpp:416): two zones may lie on one place until the next frame. In the model the
  whole frame is one step; a setting comes before it or after it.
- Network: a send that blocks holds the locks of the WebSockets transport (websockets.cpp:402).

Each needs a part that section 7 leaves out: the answers to the host, the bytes of a protocol, long failures.

## 7. Assumptions, and what is left out

- Flash: a sector erase is atomic with respect to a power loss and leaves the flash as it was when it fails; a program
  operation that is cut leaves a prefix. MCUboot, the retained boot mode (lost with power) and the USB stack are external.
- Emulated EEPROM is an external library: writes become durable in order, at the latest when flushed; formatting and page
  copies happen or fail. Between a factory reset and the restart the host is silent, and the delay of the reboot is long
  enough for the published signals.
- Time: in `System` a scheduled item may run at any later moment, so no property depends on a delay. Inputs see classes of
  intervals, I2C counts ticks longer than an iteration, OSC has an uptime that wraps. Of priorities the models keep
  "the dispatcher is cooperative, the others can be preempted"; `Outputs`, `Midi` and `Network` use the rest of it: a thread goes
  on only when the dispatcher has nothing to do.
- Data is abstracted to what the properties tell apart: one value for all data of a preset in `Database`, one packet for one SysEx
  frame, frames decoded, answers to the host left out of `System`. MIDI channels are one (inputs) or two (protocol). OSC packets are
  bytes, because lengths and padding are the point; floats are their raw words.
- The active preset starts at 0 in `System` because the setting that preserves it is off there; `Database` has it.
- `System` sees I/O only as frozen or not; `IoGate` shows what that is worth to the threads, and `Digital`, `Analog`, `Outputs` and
  `I2c` what a freeze does to each. Shutting threads down is left out everywhere: only tests do it.
- Network: a send succeeds exactly for hosts that can be reached; a datagram is whole; the network stack reuses socket numbers.
- I2C: a device that leaves has lost its registers when it comes back, and is away for longer than one call of a driver lasts. Vendor
  drivers, their ports and packet formats are external: a driver sees whether a transaction succeeded and what was measured.
- Left out of modelled parts: the start-up animation of the outputs, brightness and bytes of the touchscreen protocol, the reads of
  settings, `deinit()` and shutdown, the wording of messages, fonts and the welcome message.

## 8. The plan

1. **Recovery over two transports**: WebUSB and the bootloader's WebSockets transport share the slot writer; what an upload on one
   does to one on the other.
2. **The upload as a whole**: answers of `System` and of the upload handlers to the client that asked, over `WebSockets`.
3. **Abstract specifications** of the configuration session (owner, open, closed) that `System` implements, and of the
   database (a map of durable values) that `Database` implements.
4. **Proofs**: `MessagesKept`, once the packet coder is written as functions of the index of a byte, and `SentValueFits` for settings
   whose limits fit their modes.
