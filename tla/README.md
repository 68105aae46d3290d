# A TLA+ model of the ARCL frontend for px68k

The repository puts an MCP server around the px68k libretro core: an agent
sends JSON-RPC requests on stdin and thereby runs, stops, saves, rewinds and
debugs an emulated X68000. This directory holds the specifications of the parts
where order matters, the TLC configurations that check them on small
instances, and proofs, checked by TLAPS, of the results that hold for every
value of the constants.

All paths below are relative to the repository root.

## 1. The system

### Components

| Component | Files | State | Operations |
|---|---|---|---|
| Execution control | `windows/arcl_control.c` | `lock`, `resuming`, `resume_thread`, `frame`, ten save slots, the rewind ring, the speed counters | `arcl_status`, `_pause`, `_resume`, `_run`, `_reset`, `_save_state`, `_load_state`, `_rewind`, `_speed`; `arcl_control_run_frames` for the other tools; the worker thread; shutdown |
| Session | `windows/main.c`, `mutex_lock.c` | `gui.stop`, the GUI thread's handle | the MCP thread, the GUI thread (F5), the end of the input |
| Frontend core | `windows/frontend_core.c` | keys, joypads, mouse deltas, last framebuffer, audio capture, `g_core_primed` | callbacks of the core, `run_frame`, `reset`, `serialize`, `unserialize`, `mount`, `eject`, input setters |
| Libretro core | `px68k-libretro/libretro.c` | `firstcall`, the disk image list, the scanline state | `retro_run`, `retro_reset`, `retro_serialize`, the disk-control interface |
| L0 tools | `windows/arcl_l0.c` | none of its own | screenshot, key, type, mouse, joypad, macro, audio record |
| L1 tools | `windows/arcl_l1.c` | the font table | console read, command, mount |
| L2 tools | `windows/arcl_l2.c`, `arcl_watchpoint.c`, `x68k/mem_wrap.c` | the breakpoint table, its count, the latched hit | breakpoint add, remove, clear, list; read and write memory; registers; stack; disassembly |
| L3 tools | `windows/arcl_l3.c`, `arcl_opm.c` | the OPM shadow, key-on frames, event log | `x68k_opm` and register views |
| L4 tools | `windows/arcl_l4.c` | 32 named snapshots | snapshot create, restore, delete, list |
| MCP server | `windows/mcp_server.c`, `mcp_json.c` | none between requests | the request loop |
| Devices | `px68k-libretro/x68k/*`, `px68k-libretro/libretro/*` | interrupt, timer, DMA, floppy, keyboard and video registers | run inside one frame, on the thread that runs it |
| CPU cores, fmgen, libretro-common | `px68k-libretro/m68000`, `fmgen`, ... | | vendored |

### How they interact

Three kinds of thread exist. The **MCP thread** (`run_mcp_mode`) reads one
request at a time and calls the handler; nothing else is read until the answer
is written. The **GUI thread**, absent under `--no-window`, draws the picture
and, on F5, reads the status and then calls `arcl_pause` or `arcl_resume`. A
**worker** is created by `arcl_resume`: it takes the control lock, runs one
frame if `resuming` is still set, releases the lock, sleeps, and repeats.

`control->lock` guards the control structure, and by convention the core: the
core has no lock. The breakpoint table, the OPM shadow and the input state each
have a lock of their own and are entered from inside a frame by callbacks.
`pause_and_join` is the pattern most handlers start with: under the lock clear
`resuming` and take the thread's handle; outside the lock wait for the thread;
then take the lock again for the handler's own work. Between these three steps
another thread can do anything.

### What is hard, and what makes each component correct

| Behaviour | Correctness |
|---|---|
| Two control threads and a worker around one lock, with gaps inside every pausing handler | one thread in the core at a time; no thread leaked, no handle waited for twice; a pause is a pause; replies tell the truth; every request is answered |
| The end of the session | nothing uses the structure after it is freed |
| Labels of saved states, rewind entries and the live counter; the first `retro_run` that executes nothing | a label tells where the machine is |
| A rewind ring with modular indices and captures that can fail | it is a bounded undo history |
| A breakpoint count read without a lock, an edit between the read and the comparison | no breakpoint is silently inactive; the latch keeps the first true hit; a run stops where an entry was touched |
| Named snapshots read and labelled in steps of their own, any of which may fail | a snapshot in use is one moment of the machine and carries its label |
| Disks changed by requests without a lock, by the guest, and by loaded states that do not hold the image | no write is lost; a reply tells the drive; the guest sees every swap |
| The OPM shadow: a reader in three sections, a wrapping log, resets it does not see | the log is the newest history; the parts of a reply follow each other; what is rewritten is right |
| Keys set one by one, sampled one by one, heard as edges between two samples; macros that stop half way | a text arrives as typed; no key stays down; motion is delivered once; what fails touches nothing |
| A PCM ring whose positions meet its end and cannot tell full from empty, filled by lines and emptied by frames; a recorder started and stopped beside a running worker | samples come out in order, none lost or repeated short of a whole ring; a recording is what was played |
| Interrupt lines, pending, mask and service registers that every write and acknowledge changes; a keyboard that waits for its reader | no interrupt is lost or spurious; keys arrive in order; the keyboard goes on |

`PROJECT.json` lists the hazards at their lines with the properties aimed at
each; the few that have none say why.

## 2. The modules

| Module | Models | Extends / instantiates |
|---|---|---|
| `ArclControl` | the execution control with its threads, and as much of the frontend and the core as a frame counter sees | |
| `ArclRewind` | the rewind ring read as a sequence | extends `ArclControl`, instantiates `UndoHistory` |
| `UndoHistory` | what `arcl_rewind` promises, without a ring | |
| `ArclSnapshot` | the named snapshots, composed with the execution control | extends `ArclControl` |
| `Watchpoint` | breakpoints, the bus hook and the poll | |
| `OpmShadow` | the OPM's write shadow, its event log and `x68k_opm` | |
| `Drives` | floppy drive B: `arcl_mount`, the core's disk list, the drive unit, the image formats | |
| `Input` | keyboard, mouse and joypad from the tools to the guest | |
| `Interrupts` | the request lines, the MFP and the keyboard | |
| `PcmRing` | the core's PCM ring, the frame's batch of samples, and the recorder of `arcl_audio_record` | |
| `MCSound` | the run of `OpmShadow` and of `PcmRing` | extends both |
| `MCArclControl`, `MCArclRewind`, `MCArclSnapshot`, `MCWatchpoint`, `MCDrives`, `MCInput`, `MCInterrupts` | constants of the runs | extend the above |
| `ArclControlProofs`, `WatchpointProofs`, `DrivesProofs`, `InterruptsProofs`, `InputProofs` | theorems | extend the module they name |
| `SoundProofs` | theorems about `OpmShadow` and `PcmRing` | extends `MCSound` |
| `ArclSnapshotProofs`, `ArclRewindProofs` | theorems | extend the module they name and `ArclControlProofs` |

`ArclControl` establishes that one thread at a time is inside the core and that
a pausing request leaves a machine that stands still. The other modules build on
that: each has a flag for a running worker and lets it run a frame between any
two steps of a tool that does not take the control lock.

### ArclControl

Granularity: one step is one critical section on `control->lock`, except that a
section which runs several frames is one step per frame. While it lasts,
`lock` holds its owner, so other threads can run between frames exactly as far
as the lock lets them. `pc[t]` says where the control thread `t` is:

    idle --> pause --> join --> body --> idle
                                 |
                                 +--> frames --> idle | report --> idle

`PauseEnter` and `Join` are the two halves of `pause_and_join`; `body` is the
handler's own section; `frames` the loop of `arcl_run` and of
`arcl_control_run_frames` (request `"advance"`), whose caller reads the status
in one more section, `report`. `stopGui`, `done` and `gone` belong to the end
of the session.

| Variable | In the code |
|---|---|
| `lock`, `resuming`, `resumeThread`, `speedStart`, `frame`, `saves`, `ring` | the fields of `struct arcl_control` |
| `worker[w]` | thread `w`: not existing, at the top of its loop, inside a frame, returned |
| `joining[t]` | the local variable `thread` of `pause_and_join` |
| `call[t]`, `left`, `reply` | the request, the loop counter, the answer |
| `machine`, `primed` | how many frames the machine has executed; `g_core_primed` and `!firstcall` |
| `guiStop`, `freed` | `gui.stop`; the structure after `arcl_control_shutdown` |

A machine state is abstracted to *booted or not* and *frames executed*: that is
all a label can be compared with. A failed allocation, `CreateThread` failing
and an early stop of `arcl_run` are nondeterministic.

### ArclRewind and UndoHistory

`History` reads the ring, oldest label first, by the index arithmetic of the
code. `UndoHistory` knows a position and a bounded sequence of positions;
advancing may append (and stops at a bound of the model, `MaxPosition`), undoing restores the k-th newest and drops it with the
newer ones, a jump (reset, load) moves the position only. `UndoSpec` states
that the ring under the refinement mapping implements it.

### Watchpoint

A bus access is two steps: `Touch` looks at the count without the lock, `Check`
compares under it. The MCP thread edits the table (`Add`, `Remove`, `Clear`)
between them while the worker is inside a frame. `core` says who is inside the
core: `arcl_run`, the worker, or a debug tool, whose reads go through the same
hooks. That at most one is inside is `CoreExclusive` of `ArclControl`; here it
is built in. `fired` is a history variable: an active entry was touched in the
current frame of a run. Addresses are taken modulo the bus, ranges modulo the
word, as `uint32_t` arithmetic and the 24-bit mask do. The frame in a latched
hit is likewise history; the code does not store it.

### ArclSnapshot

`arcl_save_state` works in one critical section; `arcl_snapshot` does not. It
calls `arcl_control_run_frames(0)` — here the request `advance` of
`ArclControl` with no frames — and then reads or writes the core and takes the
label in separate steps. `tool` is where the handler is; while it is at work
the `report` section of the control does not answer (`Control`). A blob is
`torn` if the machine moved, or a worker was inside a frame, while it was read:
`SerializeBegin` notes the machine, `Serialize` compares.

### OpmShadow

`regs`, `key_on`, `key_on_frame`, `event_log`, `event_count` and
`current_frame` are the statics of `arcl_opm.c`. A frame is the hint
(`FrameBegin`), any writes, and the count (`FrameEnd`). `reader` is a request
between its three critical sections; the worker's frames go on between them.
`history` (every event) and `fresh` (what was written since the last reset or
load) are history variables; `chip` is what the chip was last told, which a
reset silences and a load sets back, neither of which passes the hook.

### PcmRing

`rp`, `wp` are the two positions, `pcm` the ring, `pre` the fraction of a sample
left over between lines. A sample is its number in the order they were made.
`Line` is `DSound_Send0`, `FrameDone` what `retro_run` does after the lines:
`Taken` is `raudio_callback` with its two layouts and the jump from one to the
other, and the recorder gets the batch. Its size is free in every frame, as the
guest may change the video mode. `RecordStart` and `RecordStop` come at any
time. `heard`, `lost` and `played` are history variables: what was handed over,
what was skipped with a whole ring, what a recorder should hold. The core's
option to discard the backlog is never set by this frontend.

`MCSound` runs one half of the sound or the other: what is written to the chip
(`OpmShadow`) and what comes out of it (`PcmRing`) share no state.

### Drives

`drive` is what `fdd.c` keeps and saves (type, protection, the countdown after
a change), `img` what each format has in memory, `file` the last write in each
file. An eject is two steps, `WriteBack` and `Drop`, as a worker may let the
guest write between them. XDF and DIM behave alike here and are one kind,
D88 is the other. A loaded state sets the drive back and leaves the images:
`overlaid` names those whose drive it then does not describe.

### Input

A handler is a list of calls (`Set`, `Run`, `Move`, `Clear`) performed one by
one; `Keystrokes` is the list for one character of `arcl_type`. A frame is
`Poll`, `MouseEvent`, one `Sample` for each key, `FrameEnd`; `Translate` is the
walk over the key table in its order (`Walked`, row by row). `Keys` and
`KeyTable` are constants: the keys by number, as the core samples them, and rows
of a key and a code, so that a key may have no row or several and a code several
keys. `guest` is what the guest was told: the codes held, and what a text made
it hear. Mouse buttons and the other joypad buttons are sampled as keys are and
add nothing.

### Interrupts

A source of the MFP is its number, so `First` is the loop of
`MFP_IntCallback`. `Offer` is `IRQH_Int` and `IRQH_IRQCallBack`: the level and
then the highest level left. The guest is anything that writes the registers
(`Write`, `WriteVR`), changes its mask and reads the data register. When a
timer expires is open: any source may interrupt at any time. `Load` installs one
of the states in `Loadable`, each of which fits itself, and leaves ring and
flag, which `MFP_StateAction` does not hold.

## 3. The runs

| Run | Question | Instance | Bounds and why they are enough |
|---|---|---|---|
| `control_headless` | Does every pausing request leave a paused machine, are replies true, is every request answered, are named snapshots whole and rightly labelled, with one control thread? | 1 worker, 1 numbered slot, ring of 1, 1 named entry for 2 names, no window | 2 frames, runs of 1: a run, a session, a saved state and a snapshot on both sides of each other; the entry is filled, created again, full for the other name, deleted and used again. Without a window only one worker exists at a time (`control_window` has two) |
| `control_window` | The same machine with F5 at every instant: exclusion, ownership of threads, shutdown, draining of workers | as above with a window and the requests that differ in how they lock | a worker being waited for while F5 starts the next needs two identities |
| `rewind_history` | Is the ring a bounded undo history? | ring of 3, interval 1, no window | 3 entries, and 3 frames that loads and rewinds let the machine run again: the ring fills, wraps, is taken back across the wrap, and captures fail at any frame |
| `watchpoint` | Is the table what the hook thinks it is, and the latch the first true hit? | 2 table entries, 2 bus addresses, a word of 4, 3 ids, 3 breakpoints | a slot is reused after a remove, the table fills, two entries overlap, and ranges reach the end of the word |
| `sound` | Is the OPM's log the newest history, do the parts of a reply fit, what is shown after a jump? Do samples pass the ring in order, is a recording what was played? | 2 channels, 2 masks, 1 register, log of 2; a ring of 5, batches of 2 and 3, lines of 1.5 and 3 samples, a cap of 3 | 3 events wrap the log; 2 frames put events of one frame, of two and of none between the reader's sections, and a load takes the counter back. 12 samples go round the ring twice with every layout of the positions, let the backlog reach its size, and fill the recorder with a batch that fits, fits exactly and does not fit |
| `drives` | Are writes kept, replies true and swaps seen? | 3 disks (a buffer, a D88, a read-only D88), a path that does not open, a list of 2 | the list fills by one playlist and by two mounts; 1 write shows in which file it ends; the worker runs frames between any two steps |
| `input` | Does the guest hear what was typed, and nothing for ever? | the key `0` with its two rows, typed with and without shift; the shift key; the joypad's L2 (the menu); a character without a key | texts of 2: a repeat, both orders of shift; macros of 2 steps and a budget of 1: one step before the failing one; every order of setting and sampling three keys; loaded states with any codes held |
| `interrupts` | Does the line agree with what is pending, do keys arrive, does the keyboard go on? | a timer before the keyboard, ring of 4, 2 codes, 4 states to load | the ring fills (3 codes) and drops; two sources are pending, masked and in service in every combination |
| `session_hang` (violation) | Does `arcl_run` always return? | window, F5 and `run` | finding 1 |
| `rewind_after_jump` (violation) | Does the ring stay ordered? | ring of 3, resets and loads | finding 2 |
| `first_frame` (violation) | Is every counted frame executed? | no window | finding 3 |
| `stale_breakpoint` (violation) | Does a run stop only for a hit of the frame it ran? | 1 breakpoint | finding 4 |

`MaxFrame`, `MaxRun`, `MaxId`, `MaxEvent`, `MaxWrite`, `MaxText`, `MaxMove`, `MaxSample` and `MaxPosition` are bounds of the model, not of the code: no
request is accepted, no id given out beyond them. `Tick` saturates at
`MaxFrame` for frames run by the worker, so that resumed sessions have finitely
many states; frames at that bound capture nothing, as equal labels would say
nothing of their order. The code's own bounds (`ARCL_REWIND_MAX_DEPTH`, `ARCL_WATCH_MAX`,
the number of slots, `ARCL_SNAPSHOT_MAX`, `ARCL_OPM_EVENT_LOG_MAX`, `MAX_DISKS`,
`KeyBufSize`, the macro limits) are parameters. `Loadable` bounds the states
that can be loaded in `Interrupts`; each of them is one the module can reach.
`HostReadOnly` is empty in the run: such a disk only exercises an exception of
`WritesSaved`, and the theorem covers it.

Deadlock is checked in every run; at the end of the session `Finished`
stutters.

Every property of a passing run has a mutant in `PROJECT.json`: a plausible
mistake in one mapped definition (a handler that forgets `pause_and_join`, a
wait left out, a frame outside the lock, a label read too early, a write
position not taken back, an id or a count not advanced) under which TLC finds
the property violated. The mutant operators stand in the modules before the
definition they alter, marked as such.

### What the properties say

* `CoreExclusive`, `PausedIsStill`: the core is entered by the owner of the
  lock only, and not by a worker once the session is stopped.
* `HandleOwned`: a worker that exists is the session's, or somebody has its
  handle and will wait for it; no handle has two owners.
* `FreedIsQuiet`: nobody is left when the structure is freed.
* `SynchronouslyPaused`, `ReplyTruthful`, `NoSpeedWrap`: without a window a
  pausing request ends paused; each reply, also the hard-coded `"paused"` of
  save and load, tells the state of its moment; the unsigned subtraction of
  the speed measurement never wraps. With a window these do *not* hold: F5 can
  resume between `pause_and_join` and the handler's section.
* `FrameIsPosition`: every label is the number of frames executed, or one more.
* `Answered`, `WorkersDrain`: the MCP thread never waits for ever; workers leave.
* `UndoSpec`, `OrderLostOnlyByJump`, `RewindGoesBack`: see above.
* `SnapshotsFit`, `SnapshotsWhole`: without a window a snapshot that can be
  restored was read from a machine that stood still and has its label, also when
  its entry held another one before or a step of its creation failed.
* `LogIsNewest`, `KeyIsLastEvent`: log, mask and frame are functions of the
  unabridged history. `RepliesInOrder`: the three parts of a reply belong to
  three moments in the order they are read, so an event that explains a mask is
  in the reply's log or older than all of it. `RewrittenIsRight`: after a jump
  exactly what was written since is right. `EventCarriesItsFrame`: the frame
  hint is right across resets and loads.
* `RingIsWhole`, `BatchInOrder`: each batch goes on where the last one ended,
  whether its samples were made ahead, made up or left over, but for a whole
  ring that is skipped when the backlog reaches its size. `ClipIsPrefix`: a
  recording, and each answer to stop, is what was played since the start up to
  the cap, and `truncated` exactly if there was more.
* `WritesSaved`: the guest's writes are in the file when an image leaves memory,
  however it leaves, with the exceptions it names: a write between the two
  halves of an eject, an image a loaded state did not speak of, a file the host
  lets us read only. `RepliesTell`: while no worker runs, the reply of
  `arcl_mount` tells the drive. `SwapIsSeen`: the guest comes from one disk
  to another only over a drive that was not ready to the end of a third frame.
* `TypedArrives`: a text typed with every key up is what the guest hears, with
  shift and repeats, whatever a worker sampled before the first frame of the
  text stopped it: for each character the codes of all the rows of its key, in
  the table's order, each with the shift it was typed with. `NoStuckKey`: a code
  the guest holds has a key that was down in the last sample, unless a loaded
  state brought it along. `MouseConserved`, `FailsUntouched`: see section 1.
* `LineIsPending`: level 6 is requested exactly while a source is enabled,
  pending, unmasked and not in service, so the message at `mfp.c:58` is never
  reached. `KeysInOrder`: nothing the ring took is lost, swapped or read twice.
  `KeyboardNotStuck`: a latched key has its interrupt pending or accepted,
  unless the guest or a loaded state dropped it.
* `ActiveIsCount`, `IdsUnique`, `OldestHitKept`, `HitWasWatched`,
  `StopsWhereFired`: see section 1.

### Fairness

Liveness is checked under `Fairness` of `ArclControl`: strong fairness for the
steps of the MCP thread, of the GUI thread and of each worker. Strong, because
each of them waits for a lock that others take and release for ever. The code
justifies it in that every holder releases the lock after a bounded number of
frames and the worker sleeps *outside* the lock after each frame
(`windows/arcl_control.c:117-133`), so a waiting thread meets it free again and
again. A Windows critical section gives no formal guarantee of fairness; the
assumption is that a thread that waits is not starved by one that sleeps
between its turns. Nothing is assumed of the environment: no request need ever
come, F5 need not be pressed, stdin need not end, and nobody need accept a
request while none is there. `SnapFairSpec` of `ArclSnapshot` is the same with
the handler's steps added to the MCP thread's. The other modules state safety
only: what must happen in them happens if the guest cooperates.

## 4. What is proved

All theorems hold for every value of the constants that satisfies the named
assumptions: `WorkerAssumption` (the special values are distinct from threads
and data), `BoundAssumption` (the bounds are natural numbers), and
`NullAssumption`, `SizeAssumption` in `Watchpoint` (sizes are positive; the
last bus address plus the longest range a client asks for stays within the
word, as 24-bit addresses do in 32-bit arithmetic), `OpmAssumption` (the log
has a place, zero is a mask and a value, channels and registers differ),
`DrivesAssumption` (paths that open and paths that do not are disjoint, the
special values are no paths), `InterruptsAssumption` (the keyboard is one of
the sources 0 to 15, the ring has at least two places), `InputAssumption` (the
shift key has a row and sends one code, F12 has no row, and the keys of
characters are neither and do not send shift's code, as in `char_to_retrok` and
`KeyTable`) and `PcmAssumption` (a
batch is smaller than the ring and a line makes fewer samples than it holds: in
the code a batch is at most 795, a line about 2, the ring 48000). The theorems of `ArclSnapshotProofs`
assume `~Window`.

**ArclControlProofs.** `TypeCorrect`, `CoreIsExclusive`, `HandlesAreOwned`,
`PausedMachineIsStill`, `NoUseAfterShutdown`, `LabelsFit` hold of `Spec`;
`HeadlessRepliesPaused`, `HeadlessSpeedIsSane` and `HeadlessRepliesTruthful`
assume in addition `~Window`. None of the safety invariants is inductive by
itself:

* `Safe` joins `CoreExclusive`, `HandleOwned` and `PausedIsStill` with
  `HandleInUse` (the session's handle, and one that is waited for, names a
  thread that exists, so `CreateThread` cannot hand it out a second time, and a
  handle is held during the wait only), with the fact that the GUI thread never
  keeps the lock, and with `Ending`, which records what each stage of the
  shutdown has already established: the GUI thread gone, then no session. Only
  together do they give `FreedIsQuiet`.
* `Labelled` adds `Unstarted` to `FrameIsPosition`: before the first
  `retro_run` every label is zero and the ring is empty. Without it a state
  saved before that frame could be given any label by the restore.
* `HeadlessPaused` follows a pausing request through its sections: from the
  wait to the reply no session exists, because no second thread can start one.

The steps are proved one action at a time and put together with PTL.

**WatchpointProofs.** `WatchTypes`, `CountIsExact`, `IdsNameOne`,
`FirstHitIsKept`, `HitsWereWatched`, `NoBreakIsMissed`. The inductive invariant
adds to the count and the ids two facts: a run has frames left and an access in
progress belongs to a thread inside the core (`Busy`), and an active entry touched in the frame of a
run has either been latched or is about to be compared (`Seen`). The last is
what makes `StopsWhereFired` true in spite of the look without the lock: during
`arcl_run` the MCP thread, the only one that edits the table, is the one in
the core. Cardinalities are handled by the theorems of `FiniteSetTheorems`.

**SoundProofs, the chip.** `OpmTypes`, `LogGivesNewest`, `KeysAreLastEvents`,
`RepliesAreInOrder`, `RewrittenIsShown`, `EventsCarryTheirFrame`. The invariant
reads the log by places: event `i` of the history, if it is one of the last
`LogMax`, stands at place `(i - 1) % LogMax` (`LogHolds`). That the next event
overwrites none of those that stay newest is the lemma `PlacesDiffer`: two
numbers less than `LogMax` apart have different remainders. `RepliesSoFar`
keeps, for a reader between its sections, the moments its parts belong to; and
`HintIsFrame` ties the hint to the counter while somebody is inside a frame.

**DrivesProofs.** `DrivesTypes`, `RepliesTellDrive`, `WritesAreSaved`,
`SwapsAreSeen`. `TrayKnown` relates the drive to its image when no loaded state
has come between; `Progress` says for each stage of a mount what the earlier
ones left behind when no worker runs; `Clean` that an image is its file's
content unless the guest wrote to it or a state overlaid it; `Waiting` that
until the guest has waited the drive still has its old disk or is not ready.

**InterruptsProofs.** `InterruptsTypes`, `InterruptsArrive`, `KeysArriveInOrder`,
`KeyboardGoesOn`. The three properties are inductive together with the types;
the work is in the acknowledge, where one source leaves and the line is
recomputed, and in the registers, where a write may drop several at once.

**ArclSnapshotProofs.** `SnapshotTypes`, `SnapshotsAreWhole`,
`SnapshotLabelsFit`, `SnapshotRepliesPaused`, `SnapshotSpeedIsSane`,
`SnapshotRepliesTruthful`, all under `~Window`. `HandlerIsAlone` is the argument:
while the tool is at work the only control thread is inside its call, the
session is stopped, and no worker is inside a frame, so nothing comes between
the snapshot's steps. `ToolAtWork` records which stage has established what
(the slot emptied, the blob read, the label taken), `EntriesFit` and
`MachineFits` that what is restored carries its own frame. The steps of the
execution control are those of `ArclControlProofs` once more (`ControlKeeps`),
as snapshots change its frame and machine in between.

**ArclRewindProofs.** `RingImplementsUndo` is the refinement of `UndoHistory`;
`RewindsGoBack` the action property. The invariant is the type invariant with
`RingFilled` (the slots in use are the `count` before the write position).
`CapturedEntries` and `RewoundEntries` say what the code's index arithmetic does
to the sequence read from the ring, for every capacity: a capture appends and
drops the oldest of a full ring, a rewind takes the tail off. `OrderIsKept`
builds on them: if the labels read from the ring rise, they still do after a
capture (whose label is above all of them while the machine is not behind its
newest entry) and after a rewind, so only a reset or a load of another state
can lose the order (`Rising`, `RisingAppended`, `RisingPart`).

**SoundProofs, the ring.** `PcmTypes`, `RingStaysWhole`, `BatchesAreInOrder`,
`ClipsArePrefixes`. `SentWhole` and `TakenOldest` are the two halves of the ring
for any positions; `BatchIsOlder` relates the last sample handed over to what
waits, which gives the order of batches across a skipped ring.
`HalvesAreIndependent` carries the results over to the run of both halves.

**InputProofs.** `InputTypes`, `TextArrives`, `NoKeySticks`, `MotionIsConserved`,
`FailureLeavesInput`: every property of `Input`, for every keyboard, every table
of rows and every text.

* *Induction.* The walk over the table (`Walked`), what a key sends (`Sends`)
  and what a text spells (`Spelled`) are recursive functions. `Stepping` is
  induction in the form the provers take: a set that holds 0 and with each
  number the next contains the interval. It follows from the existence of a
  least element (`LeastNumber`, from `WFMin`); the theorems with an operator
  parameter are not needed. `StepsExist` gives the recursive functions their
  existence; `WalkedSteps`, `SendsSteps` and `SpelledSteps` their values.
* *The walk.* `WalkDown`: a code is down afterwards if one of its rows is of a
  key that is down, or if nothing happened to its rows. `PressedDown`,
  `ShiftUnheard`, `KeyHeard`, `WalkReleased` say what one key going down, and
  all going up, comes to, however many rows and shared codes the table has.
* *`Basic`* joins the four simple properties with `Framing` (a frame that is
  begun is a worker's or was asked for, so a count never drops below zero),
  `Failing` (a request that failed has nothing left to do) and `Fresh`.
* *`Typing`* is the inductive invariant of `TypedArrives`. `Striking(c, p)` says
  of every place `p` in the keystrokes of a character which keys are down
  (`Down`), what the last sample saw (`Seen`, or already the first key, if the
  worker sampled it before it was stopped: `OldIs`), and which part of the text
  has been heard (`HeardIs`). `Edges` lists all a frame can then find between
  two samples: nothing, shift alone going down, the key alone with shift as the
  character needs it, all going up. That shift and the key never go down in one
  sample is what `Keystrokes` is arranged for, and where the proof needs it.

**Only model-checked.** The liveness properties (`Answered`, `WorkersDrain`),
out of the prover's reach. Every safety and action property of a passing run is
also proved; those of `ArclSnapshot`, and the replies of `ArclControl`, under
`~Window`, as the code has them only then.

## 5. Findings

1. **F5 can hang the MCP session** (`session_hang`,
   `windows/arcl_control.c:155`). `pause_and_join` clears `resuming`, leaves
   the lock and waits. If F5 resumes in that gap, `resuming` is set again
   before the old worker has looked; the old worker runs on, the wait does not
   end, and `arcl_run`, which should "always return paused and synchronously"
   (`arcl_common_spec.en.md:126`), never returns.
2. **A reset or a load leaves the rewind ring** (`rewind_after_jump`,
   `windows/arcl_control.c:545`). The entries now lie ahead of the machine and
   later ones are filed behind them; a rewind jumps forward. The comment at
   `:333` and the tool's text at `windows/main.c:342` promise an undo stack.
   `OrderLostOnlyByJump` shows that this is the only way.
3. **The first frame is not executed** (`first_frame`,
   `px68k-libretro/libretro.c:2377`). The first `retro_run()` of a process only
   initialises; the control counts it. `windows/frontend_core.c:546` says every
   call executes exactly one frame. `FrameIsPosition` shows that labels are off
   by one at most.
4. **A breakpoint can stop a run that never touched it** (`stale_breakpoint`,
   `windows/arcl_control.c:497`). The latch is taken only by a run with
   `until_break`. A hit of an earlier run without it, of the worker or of a
   memory read by the debugger, also for a breakpoint removed since, stops the
   next such run after its first frame. `windows/arcl_watchpoint.h:57` promises
   a hit "during that frame".

### Observations

Found while modelling and not given a run of their own. They are reported here
with the place where they can be seen.

* **A snapshot beside a window.** `arcl_snapshot` and `arcl_mount` use the core
  without `arcl_control_lock`, which `windows/arcl_control.h:83-92` asks of
  every handler that does. With the GUI thread F5 can start a worker after
  `run_frames(0)` (`arcl_l4.c:126`, "ensure paused, consistent state"): with
  `Window = TRUE`, TLC finds `SnapshotsWhole` and `SnapshotsFit` violated.
  `WritesSaved` needs its exception for a guest that writes between the
  write-back and the release of an eject for the same reason.
* **The OPM shadow after a load** keeps what was written before; `main.c:316`
  and `arcl_l3.c:273` say that it "reads back all-zero".
* **The macro budget** counts `run` steps only (`arcl_l0.c:854-865`);
  `main.c:138` says it caps "total frames across all run/tap/type steps". The
  number in `steps_completed` includes the step that failed
  (`arcl_l0.c:882-894`).
* **A mount of a path that does not open succeeds**: `set_eject_state` ignores
  the outcome of `FDD_SetFD`, so the error at `arcl_l1.c:511` can only come from
  a full list — with the old disk already ejected. After ten mounts no disk can
  be inserted any more. `px68k_frontend_get_mount_path` names the selected path
  also after an eject, unlike `frontend_core.h:68-71` says.
* **A read-only file** is opened and used; what the guest writes to it is
  dropped at the eject without a word (`disk_xdf.c:65-67`).
* **A loaded state and the disk**: `FDD_StateAction` restores the drive's type
  and protection (`fdd.c:40-58`), the image stays. An image whose format the
  loaded type does not name is neither used nor written back.
* **Keys the core does not know.** `char_to_retrok` accepts `:`, `*` and the
  grave accent, for which `libretro.c`'s `KeyTable` has no entry: `arcl_type`
  reports success and the guest hears nothing. The comment at `arcl_l0.c:143`
  says `:` and `*` are unmapped.
* **The key `0` has two rows** in `KeyTable`, 0x0b and 0x34 (`libretro.c:1945`,
  `:1989`): whoever types `0` also presses the underscore key. `Spelled` in
  `Input` counts both.
* **The joypad's L2 and R2** are F12 and ScrollLock to the core
  (`libretro.c:2466-2470`), the two keys that `arcl_key` blocks.
* **`tap` and `type` with a key held** release it, and the guest hears no new
  press (`AllUp` in `Input`). Two keys with one code, as the shift keys, share
  one held state in the guest.
* **A load can silence the keyboard.** `KeyIntFlag` and the ring are not in a
  saved state; if a key was latched at the load, the restored guest may have no
  key interrupt pending, and no further one comes until it reads the data
  register or is reset (the disjunct `forgone` in `KeyboardNotStuck`).
* **The sound skips a second.** In the high-resolution mode the lines make 795.17
  samples a frame and 795 are taken (`libretro.c:88`, `:2327`); the rest piles
  up, and when the backlog reaches the ring's 48000 samples, after some 86
  emulated minutes, the positions meet and the whole of it is skipped
  (`dswin.c:76-77`, `:98`). The core's option against it is off here. `lost` in
  `PcmRing` counts these samples.
* **A stop that says silent.** `px68k_frontend_audio_capture_stop` answers with
  the clip's length also when its copy could not be allocated
  (`frontend_core.c:633-640`); `arcl_audio_record` then takes every sample for
  zero and reports `"silent":true` (`arcl_l0.c:969`).
* **Level 1** has one callback slot for the FDC, the drives and the hard disk
  (`irqh.c:74-81`), and the slot is not in a saved state.

## 6. What is not modelled, and why

* Drawing, the interactive mode and its pacing; JSON and text formatting, PNG,
  WAV and base64 output, the disassembler; screenshots, the input state, the
  register views, peak and loudness of a recording: they read or format, one
  after the other, and keep nothing.
* The MCP request loop: one thread that reads a line, calls a handler and writes
  a line. `ArclControl` has it as `Accept` and the reply.
* `arcl_command`'s scan for the prompt: what appears on the screen, and when, is
  up to the guest's program.
* The floppy controller's command phases, the DMA channels, the hard disk and
  the serial port; the timing of the scanline loop. They are register-level
  protocols with a guest on the other side and stay a possible extension of
  `Interrupts` and `Drives`, which leave their effects open (any access, any
  interrupt, at any time).
* Pixel and sound processing (ADPCM, FM, mixing): arithmetic on data, with one
  thread. The live audio output hands each batch to SDL.
* The vendored and generated code: the CPU cores C68K, Musashi and Cyclone (with
  a floating-point library), fmgen, libretro-common. It is most of the
  repository's lines, so the mapped share of all lines stays small; of the
  frontend's own code in `windows/` the stateful part is modelled.

What could follow, most useful first: the floppy command phases with the DMA
channel; the serial port's mouse packets behind `Interrupts`; one invariant for
`Drives` and `Interrupts` together with a state that holds both.
