# Verification of the ART-Pi examples

The repository holds nineteen small Zephyr examples for the ART-Pi board
(STM32H750), one out-of-tree device driver (`driver/gt1151`) and a script that
builds all examples (`all_building.py`). Paths below are relative to
`src/art_pi_example/`. This directory models the parts whose behaviour is more
than straight-line code, checks them with TLC and proves the most important
results with TLAPS.

    tlc -config GT1151.cfg MCGT1151.tla        # model-check one run
    tlapm GT1151Proofs.tla                     # check the proofs of one module

## The system

| Part | State | Operations | Talks to | What is hard | What makes it correct |
|---|---|---|---|---|---|
| Touch driver, `driver/gt1151/input_gt1151.c` | I2C address in use, work item, INT pin armed or not | `gt1151_init`, `work_handler`, `isr_handler` or `timer_handler` | controller over I2C, GPIO interrupt, system work queue, input subsystem | edges lost while INT is disabled; two reads per frame; ignored and failing transfers; probing | frames whole, in order, none skipped, repeated only after a failed acknowledgement; all of them get out |
| Touch console, `10.touch_gt1151/src/main.c` | slot table, current slot | `touch_cb`, `print_timer_cb` | input thread, timer interrupt | unsynchronised table | no update is lost; the console ends up right |
| HID keyboard, `17.hid_keyboard/src/main.c` | queue of two, report, readiness | `input_cb`, main loop, readiness callback | gpio-keys, USB stack, host | drops, suspend and unplug at any step, blocking submit | host sees the keys that are held; a press wakes the host |
| HID mouse, `18.hid_mouse/src/main.c` | static report, queue of two, readiness | the same | the same | movement and buttons after a drop | movement counted once, buttons heal |
| WebUSB echo, `16.webusb/src/sfunc.c` | one transfer buffer, enabled bit | enable, disable, request handler | USB stack, host | late completions, refused enqueues | the buffer comes back, echoes are the packets |
| UVC bridge, `19.uvc/src/main.c` | buffers at two devices, poll signal | set-up, loop | video source, USB video class | completions between dequeue and reset | no buffer lost, order, progress |
| SDRAM test, `3.fmc_sdram_speedtest/src/main.c` | the memory under test | quick test, benchmark | memory | faults that mask each other | what passes is sound, what fails is faulty |
| Batch build, `all_building.py` | state file, commands file, build directories | one run of the script | developer, compiler | edits while it runs, interruptions, whole-second times, shared build directories | a skipped target is up to date and its build is where its command puts it |
| RS-232 and RS-485 echo, `6.rs232/src/main.c`, `7.rs485/src/main.c` | the time of the last PING, the direction of the transceiver | `main`, `rs485_send_buf` | UART registers, transceiver, peer | a receiver of one byte polled between sleeps, a half-duplex line, the turn of the line | nothing is cut off, echoes answer the peer's bytes in order, PING lines keep coming |
| SD benchmark, `4.sdmmc_sd_speedtest/src/main.c` | position in a benchmark, one mount, one open file | mount, preallocation, write, remount, read, unmount | FAT file system, card | results handled in one place and ignored in the next, full cards, resets | everything is released; what is reported as read is what was written |
| LVGL counter, `11.lvgl/src/main.c` | `count`, a label | main loop, button interrupt, click callback | LVGL, GPIO interrupt | an unsynchronised increment | the count is that since the reset; the label keeps up |
| Ethernet (8, 9) | none | calls of the network stack | Zephyr's net_mgmt and DHCP client | restarts from two threads, inside the stack | - |
| Boot images (1, 2), beep (5), LVGL demos (12), mass storage (13, 15) | none | straight-line start | libraries | nothing | - |

## The modules

Every module is translated from the source; what is outside the repository (the
touch controller, Zephyr's work queue, input subsystem and USB stack, the host,
the developer) is modelled only as far as the code uses it. Definitions called
`Mut...` are bugs for comparison: each run's properties fail when the
definition they stand next to is replaced by them.

**GT1151** - one driver and the controller it talks to. The controller latches a
frame only when the previous one was acknowledged (`Latch`), and raises an INT
edge which is seen only if the pin is armed and the callback attached
(`EdgeIsSeen`). `pc` walks through `gt1151_init` (`InitPins`, `InitInt`,
`ProbePrimary`, `ProbeAlt`, `Attach`, every early return as `InitFails`) and
then through `work_handler` and `gt1151_process_frame`: one action for each I2C
transfer and each of its failures, because the thread sleeps in a transfer.
`ReportFrame` is one step: the puts do not wait and the work queue thread is
cooperative. The mode, interrupt or polling, is one of the constant `Modes` and
fixed at the start; the alternative address and the build-time limit are
constants. The results of the two
`gpio_pin_interrupt_configure_dt` calls in the work handler are ignored by the
code and so they are here; the write of
`REG_REQUEST` at the end of initialisation is part of `Attach`.

**FrameChannel** - the abstract specification of the driver: a channel of frames,
delivered cut at a limit, in order, and repeated only against `spare` credits
that failed acknowledgements pay in. `GT1151!ImplementsChannel` is the
refinement: `sent` is what was latched, `delivered` what was reported, and at
most two frames are in flight (one in the registers, one read).

**TouchApp** - `touch_cb` in its stores. An update is two plain stores (the state,
the mark), and the timer interrupt may run between them. Because the variables
are neither volatile nor atomic, C leaves the order of the stores open; the
constant `MarkFirst` chooses it. **TouchConfig** declares the constants the driver
and the console share, since both are built from one devicetree. **TouchSystem**
composes GT1151 and TouchApp over the bounded queue of the input subsystem,
which drops events: their actions are the components' own, conjoined with what
they do to the queue.

**HidKeyboard, HidMouse** - the input callback, the queue of two, main's loop with
one `pc` value per check, and a submit that blocks until the host fetched the
report or the interface is gone; the host attaches, detaches, suspends and
resumes at any step.

**WebUSBEcho** - the callbacks of the echo function and a stack that completes a
transfer some time after it ended. Completions and control requests pass
through one queue, so a transfer that ended before a selection is handled
before it; this is what `BufferComesBack` rests on, since `sfunc_buf_alloc`
resets the buffer before it tests whether there is one (sfunc.c:130).

**UvcStream** - main's set-up with its early returns, then the loop: poll, one
dequeue per device, reset of the signal, with both devices running in between.
Where a device refuses the buffer that was just dequeued from the other one, main
returns with it (`CarryFails`), so from then on one buffer may be in no queue.

**SerialEcho** - both serial programs as one module with the constant set `Lines`,
because they are one loop: echo while a byte is there, PING once a second,
sleep. A send is a sequence of bytes `todo`; on RS-485 it is surrounded by the
turn of the transceiver, the busy wait and the two milliseconds of sleep
(`rs485_send_buf`), on RS-232 a newline becomes two bytes. The UART is a
transmit register, a shift register and a receive register. `Tick` is one byte
time of the line: the shift register moves on, the peer may send, a byte that
finds the receive register full is lost, and one that is cut by the turn of the
line may come as noise or not at all. Noise that was received is echoed like any
byte; the noise of the n-th byte is told apart as MaxBytes + n, so that `echoed`
records everything that leaves in answer to the bytes told apart. Code between
two waits takes no time.

**SdBench** - one action for each call into the file system and what the code does
until the next one, with a result for each outcome the code tells apart: an
error, zero, a short count. `length` is what the mounted file system knows of
the file, `entry` what the directory on the card says: a reset keeps the
second only. `Modes` are the two builds of `PREALLOC_MODE`. Clock and printed
speeds are left out.

**LvglCounter** - main's loop with `++count` as a load and a store, the button's
interrupt between any two accesses, and the click callback inside
`lv_timer_handler`. A round of the loop is 10 ms, `Period` of them a second.

**SdramTest** - the three write and read loops, word by word, and the benchmark's
loops, against a memory with an arbitrary decoding of addresses, stuck bits and
tied data lines. A word is a function from data lines to 0 and 1.

**BatchBuild** - a run of the script from loading the state file to the last save,
with its two reads of the commands file (contents, then time) apart; `Truncate`
and `Write` are the two moments of `save_state`. The developer edits, the clock
ticks and runs are interrupted between any two steps. A version number stands
for a content, a second for a modification time. Where a build goes is the
command's affair: the script parses `-d` only to show it (lines 161-181). Each
version of the commands file therefore comes with a build directory for each
target, one of the constant `Layouts` (`Standard` is the one without overrides,
`-d build-<target>`), and `holds` says whose build lies in a directory. A build
wipes the directory it is given, as `-p always` in every command of the
repository and of the guide makes west do. A command that cannot be started
(exit code 127) counts as a failed build.

`HidDevice` declares what the keyboard and the mouse have in common.
`HidKeyboardState`, `WebUSBEchoState` and `LvglCounterState` hold the variables of
a program and its invariants, apart from its steps, so that a proof module can
extend several of them and still name each invariant as the runs do.

The modules `MC...` give the constants their values for TLC; the modules
`...Proofs` hold the proofs.

## The runs

| Run | Question | Bounds |
|---|---|---|
| `gt1151` | `FramesWhole`, `NoFrameSkipped`, `RepeatsAreNacks`, `TalksToController`, `EveryFrameReported`, `ImplementsChannel`, in both modes | 3 frames of 0 to 3 contacts with a limit of 2, 2 failing transfers, five boards |
| `touch_system` | `LastContactShown`, `NoUpdateLost`, `ConsoleSettles`, driver in polling mode | 2 frames, 1 failing transfer, a queue of 7: one frame of two contacts fits, a second one is truncated |
| `hid_keyboard` | `HostSeesKeys`, `FreePressWakesHost` | 2 keys and an unknown one, queue of 2, 5 edges |
| `hid_mouse` | `MotionConserved`, `HostSeesButtons` | all inputs, queue of 2, 4 edges |
| `webusb_echo` | `EchoInOrder`, `BufferComesBack`, `EchoReturns` | 3 packets of 2 kinds for each selection, any number of selections, 2 failures |
| `uvc_stream` | `BuffersKept`, `FramesInOrder`, `FramesArrive` with the 1 ms timeout | 3 buffers, 6 frames, 1 failing call |
| `uvc_stream_signal` | `StreamNeverStalls`, violated | 2 buffers (prj.conf), 4 frames |
| `sdram_test` | `PassMeansSound`, `FailureLocated`, `WindowRefilled` | 4 words, window of 3, 5 data lines, every decoding of the window, one stuck bit, tied lines |
| `batch_build` | `SkipIsCurrent`, `FailuresRebuilt`, `BuildsCatchUp` | 2 targets, 2 edits of any kind, 3 seconds, 1 interruption; commands files of three layouts: no override, the repository's, and the two overrides of the guide, which share `build` |
| `serial_echo` | `NothingCutOff`, `EchoInOrder`, `PausedBytesFit`, `PingsKeepComing` | both lines, 3 bytes of the peer told apart, one of them a newline, with their noise, more of them without an identity; waits of 1 to 5 byte times, lines of 2 and 3 bytes |
| `sd_bench` | `Released`, `ReadsAllBack`, `BenchEnds` | a file of 5 in chunks of 2, both builds, cards of two sizes, an older file shorter or longer, 2 faults, 1 reset |
| `lvgl_counter` | `CountsFromReset`, `LabelKeepsUp` | a second of 3 rounds, a counter that wraps at 8, no bound on presses and clicks |

The bounds are enough for the cases that matter: three frames let one be
reported, one wait in the registers and one be repeated; five key edges overflow
the queue of two while main is blocked and let it recover; three buffers more
than fill what one wake-up moves; a stuck bit, a wrong decoding and tied lines
occur together, so that they can mask each other; two edits and an interruption
suffice for a target edited during its build and again after an interrupted one.
The serial waits keep the order they have in the code (at 115200 baud a byte
takes 87 us: 100 us, 1 ms, 2 ms, 1 s), the turn of the line is longer than the
two bytes a UART holds, and a peer may send without a pause for ever. A file of
5 in chunks of 2 has a short last chunk; a card with room for 4 is full before
it is complete, one with room for 9 is not, also with the older file in the
way. 8 is no multiple of 3, as 2^32 is none of 100, so the wrap shows.
`CHECK_DEADLOCK FALSE` stands where the system really stops: an initialisation
that failed, a main function that returned, a self test that failed, or no more
frames within the bound.

### Fairness

Thread steps (the work queue, the input thread, main, the USB stack's thread, the
running script) are weakly fair: these threads are scheduled and sleep only in
calls that the models make explicit. The periodic timers fire. A USB host polls
an endpoint while it is attached and not suspended; it resumes only when a
wakeup was requested. The developer starts the script again and again. Nothing
makes a finger touch, a host select a configuration, a device appear or a person
edit. One assumption is about hardware: in interrupt mode the controller repeats
the INT pulse of a frame nobody read (`Repulse`). `EveryFrameReported` needs it:
an edge in the window where `work_handler` has INT disabled, or before
`gpio_add_callback`, is lost, and nothing in the driver reads the status again.
With `Repulses = FALSE` in `GT1151.cfg` it fails; in polling mode (`Modes` without
`"interrupt"`) it holds without: the next tick of the timer reads the status.

In `serial_echo` main runs and time passes; nothing makes the peer send or
pause, so `PingsKeepComing` has a case for the peer that never does. In
`sd_bench` main goes on, and no call is forced to fail; calls that fail
and resets are bounded, a full card is not (`BenchEnds` has a case for it).

### What the violated run shows

`uvc_stream_signal`: after two completions between the dequeues and
`k_poll_signal_reset` main sleeps for ever with both buffers done. A source
without a signal gives the loop a 1 ms timeout, and then every frame arrives
(`uvc_stream`).

### What the code does not give

Some properties are stated with an exception because the code does not give
more; the first three are disagreements with the documentation:

- `LastContactShown` is about the contact reported last. One BTN_TOUCH closes a
  frame and is applied to the slot selected last, so of two fingers only one is
  shown as DOWN, although `docs/10.touch_gt1151.md` speaks of five points. With
  a limit of 1, the default of Kconfig, there is one slot and no difference.
- `SkipIsCurrent` is about edits that get a second of their own. A file removed,
  an older one moved in, a second edit in the same second and an edit of the
  commands between their read and their `stat` leave the newest second as it
  was, and the target is skipped.
- `SkipIsCurrent` and `BuildsCatchUp` say that a target's build lies in its directory
  only of targets that have the directory for themselves. `all_building.md:69-70`
  says that the script recognises the directory and that without `-d` it is
  `build-<target>`, where no target overwrites another; but the command is run as
  it stands, and west without `-d` builds into `build`. The two overrides the guide gives
  (`all_building.md:84-86`: `1.with_mcuboot` without `-d`, `19.uvc` with `-d build`)
  share that directory with `-p always`. The later build wipes the earlier one,
  whose record still says OK: `1.with_mcuboot` is then skipped with the build of
  `19.uvc` in its directory, for ever and without any edit. Without the exception
  (`Alone`) TLC finds just that behaviour. The file in the repository,
  `commands_build.txt`, has no colon in its line for `1.with_mcuboot`, so
  `load_special_commands` ignores the line and only `19.uvc` goes to `build`.
- `EchoInOrder` has the '\r' that `6.rs232/src/main.c:64-69` sends in front of a
  newline, and so not what the head of that file says (`:7`, "the received bytes
  are echoed unchanged"). On RS-485 the bytes are echoed as received, which may be
  the noise of a byte that the turn of the line cut.
- `EchoReturns`, `PingsKeepComing`, `BenchEnds` and `ReadsAllBack` except a case each
  where the code does not recover: a function left without a transfer, a peer
  that never pauses, a full card, and a file whose sync and close both failed.
  `FreePressWakesHost` excepts a press while main is blocked in a submit.
- `BufferComesBack` assumes that the stack handles the end of a transfer before a
  selection that comes later (the guard of `sfunc_enable`).
- `CountsFromReset` excepts a reset between the load and the store of `++count`,
  which is undone by the store.

## What is proved

| Module | Theorems | Assumptions |
|---|---|---|
| GT1151Proofs | `TypeCorrect`, `FramesStayWhole`, `FramesInOrder`, `RepeatsAccounted`, `AddressIsController`, `Implementation` | those of GT1151: the sizes are naturals, a frame is a sequence of contacts |
| TouchSystemProofs | `ConsoleTypeCorrect`, `PathCorrect` | there is a slot, a display and a queue; a contact has 16-bit coordinates |
| | `ConsoleKeepsUpdates`, `UpdatesAreKept`, `LastContactIsShown` | in addition, the stores in program order |
| UsbProofs, the bridge | `TypeCorrect`, `FramesKeepOrder`, `NoBufferLost` | there is a buffer; the bounds are naturals |
| UsbProofs, the echo function | `EchoTypeCorrect`, `BufferAlwaysBack`, `EchoesArePackets` | the bounds are naturals |
| SerialEchoProofs | `TypeCorrect`, `LastByteIsOut`, `PausesSuffice`, `EchoesKeepOrder` | the wait after the last put is at least two byte times |
| SdBenchProofs | `AlwaysReleased`, `ReadLineIsWhole` | a chunk is not empty; the bounds are naturals |
| BatchBuildProofs | `TypeCorrect`, `SkippedIsCurrent`, `FailedIsRebuilt` | the targets are a sequence of directories; each commands file gives each target a build directory; the clock runs, the bounds are naturals |
| ButtonProofs, the mouse | `MouseTypeCorrect`, `MotionIsConserved`, `ButtonsReachHost` | the queue has room for a report; the bound is a natural |
| ButtonProofs, the keyboard | `KeyboardTypeCorrect`, `KeysReachHost` | the same |
| ButtonProofs, the counter | `CountIsSinceReset`, `LabelIsCurrent` | a second has rounds, the counter wraps after more than one second |
| SdramTestProofs | `PassedMemoryIsSound`, `FailuresHaveCause`, `WindowIsRefilled` | the sizes are not 0, the benchmark's window is not larger than the test's; a bit is not stuck both ways; a word is wide enough for an index of the window |

*GT1151.* None of the properties is inductive. The invariant adds to the types
what is true between the transfers of one frame (`Between`): from the read of
the count to the acknowledgement the controller holds the very frame whose
number is in the buffer, because it latches nothing while the status is set; and
to the history how the frame in hand relates to the last one reported
(`Reporting`): it is the next one, or the same one after a failed
acknowledgement, counted by `nacks`. The four safety theorems follow, and each
step that reports is a delivery or a paid repetition of the channel, every other
step a stutter or a latch: `Implementation`.

*TouchApp.* `NoUpdateLost` needs that the pending mark of an interrupted update is
for the slot just stored; the timer clears marks only together with showing
the slots. *TouchSystem.* The same holds in the composition, whatever the driver
reports and the queue drops. `PathHolds` adds to the console's types that between the two reads
the controller still holds the frame whose count was read, that the buffer then
is that frame contact for contact, cut at the slots there are (`DriverReads`),
and what the queue holds (`QueueHolds`). For `LastContactShown`, `Arriving` follows the
frame reported last from the report to the console: as many of its events as
still wait are the last ones in the queue (`InQueue`), and the others have done
their part (`DrawnUpTo`): with three events left the slot is selected, with two X
is set, with one Y, with none the contact is down. Events that were left of
earlier frames are taken before and may draw anything. `FrameFacts` says which
events these are, `EventDraws` that each does its part, `ArrivedIsShown` that a
console at rest shows the table. With the mark first the property fails, as
`NoUpdateLost` does, and nothing is claimed.

*WebUSBEcho.* The invariant `Owner` says who has the buffer (the pool, or the stack
on an endpoint, never both and never neither), `Progress` relates its contents
and direction to the packets taken and echoed since the selection.

*UvcStream.* `Ordered` numbers the frames on their way: those received, those at the
USB class and those main has not carried yet follow each other up to the last
one produced; when main returns with a frame the last part ends, and main
carries nothing any more. `Whole` says that no two places of the four queues hold
the same buffer and that their lengths add up to what was allocated, less the
buffer main may have returned with; every step adds a new buffer, moves the head
of one queue to the end of another or takes it away (`AddKeepsApart`,
`MoveKeepsApart`, `TakeKeepsApart`).

*BatchBuild.* The script compares seconds and means contents. `Sound` says of every
record, in the file and about to be written, that if it agrees in both seconds
with the present directory and commands - or with the commands the script has
read - and is of a build that succeeded, then that build is of these very
contents, and if the commands give the target a directory for itself, it lies
there: since that build every run that got far enough to build used the same
commands. `Handled` says the same of the target in hand, whose directory was
looked at before its build and may have been edited since, and that its build
stopped counting as good the moment it was started. Both rest on seconds that
only grow, so they are claimed until the first untimely edit. `Honest` is the
invariant of `FailuresRebuilt`: a record may call a build good only if it is, the
target in hand excepted until its record is written.

*HidMouse.* The types and `MotionConserved` do not need each other's help, except
that the static report holds no movement between two callbacks (`Cleared`); that
a queue gives up the movement of its head and nothing else is a fact about
cardinalities (`Units` counts each unit of movement in the queue). `Newest` says
which buttons the host will hold once everything on its way has arrived: those
of the last report in the queue, else the one in main's hands, else its own.

*HidKeyboard.* Events of one key may wait behind each other, so the report says how
a key is held only if no event of it waits; `Known` says that the last event of a
key is how it is held, for every key that missed no edge.

*LvglCounter.* `count` and the seconds it has passed wrap at different places, so the
label's second cannot be read off `count` after a wrap. `Aged` bounds the rounds
since the label was set by what `count` is past a full second, `Labelled` says
what the label shows at each place of the loop.

*SerialEcho.* `Draining` relates how far the last sleep of a send is to what the UART
still holds: a UART holds two bytes, one leaves in each byte time, so two byte
times after the last put it is empty, and only then the transceiver is turned.
`InTime` bounds the time since main last looked at the receive register by what
main still has to do before it looks again (`Left`): the rest of the line, its
sleep and its turn. A byte still in the register is younger than that. For
`EchoInOrder`, `Rising` says that the peer's bytes get larger from the echoes over
the UART and the bytes still to be put to the receive register, each counted as
the byte it is or is the noise of; `Clean` that on RS-232 none of them is noise;
and `Paired` that along this way a doubled newline, and nothing else, follows a
'\r'.

*SdBench.* `Handles` says at which calls a file may be open and the volume mounted.
For `ReadsAllBack`, `Amounts` keeps the quantities in their ranges, and
`Complete` says how much of the file there is at each call: what was written so
far, all of it when the benchmark succeeded, and after the unmount as much in
the directory, unless the file could not be flushed.

*SdramTest.* A word that reads back as its pattern says something of the fault for
ever: which bits of its cell are not stuck, and that tied lines carry equal
levels in it. The invariant collects this for the passes that are over and for
the words read in the current one. That no two addresses share a cell follows
at the end of pass 3 only: all words of the window hold their own index at the
same time, and equal cells would give equal indices. The statement is exact
about what is not found: lines tied together of the same parity above the bits
of an index carry the same level in every pattern, and a bit stuck at 1 on such
a line is pulled down with it. With the default 4 MiB these are the data lines
20 to 31. The converse, `FailuresHaveCause`, needs that a word no other address
overwrites is kept until it is read (`Located`). For `WindowRefilled`, `Filled`
follows the copies: they start at multiples of the chunk's length, so the word
at n is the one at n modulo that length of the chunk, and the last copy is cut
at the end of the window.

ButtonProofs and UsbProofs hold the proofs of several programs. The first one is
extended; of the others the state is extended and the steps are instances
(`Keyboard`, `Counter`, `Echo`), since each program has its own Init and Next.

Every safety property that a run checks is a theorem. Only model-checked is what
is temporal beyond the refinement, since fairness is out of the prover's reach:
`EveryFrameReported`, `ConsoleSettles`, `FreePressWakesHost`, `EchoReturns`,
`FramesArrive`, `BuildsCatchUp`, `PingsKeepComing`, `BenchEnds`.

## What is not modelled

- Single-threaded start-up code around libraries: 1, 2, 5, 12, 13, 15 and the
  descriptors and vendor requests of 16; LEDs, logging and timing everywhere.
- Of 17 and 18: output reports, idle and protocol callbacks, which log or drive
  a pin. That 18 never requests the wakeup its README describes can be read off
  main; `FreePressWakesHost` says for which presses 17 does.
- Of 3: the read-only loop of the benchmark, its clock and its cache calls. The
  model assumes what the comment on the test asks for (main.c:50), that the
  SDRAM is not cached: the test itself neither flushes nor invalidates.
- Of 4: the time a write takes. The preallocated file is opened again with
  FS_O_TRUNC (main.c:97), which gives the space back, so that the preallocation
  serves no purpose; the model shows only that it does no harm.
- Of 8 and 9: everything. main and the net_mgmt callbacks call `net_if_up` and
  start, stop and restart DHCP, print, and keep no state; what a restart by main
  and one by a link event can do to each other happens inside Zephyr's DHCP
  client, which the repository does not hold.
- Of 11: the encoder's arc and the keypad's button matrix, which no configuration
  in the repository enables.
- Of the script: parsing of build logs and the Markdown summary. Its guide calls
  the files `build_commands.txt` and `build_summary.md`; the code uses
  `commands_build.txt` and `summary_build.md`, and so do these modules.
- A single line of the touch console may show the X of one frame with the Y of
  the previous one; nothing in the code says otherwise, and the next period
  corrects it.

## Plan

1. Proofs of the safety halves of the temporal properties: that a frame not yet
   reported always has a cause that will report it (an edge, a tick or a pulse to
   come), that a press waiting in the queue finds the wakeup requested, that a
   buffer the bridge holds has a signal or a timeout to move it.
2. A second composition: the keyboard's input path with bouncing keys.
