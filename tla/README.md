# TLA+ specifications of OPad

OPad is a two-key osu! keypad: ESP-IDF firmware (C, `firmware/main`), a PC
daemon (Rust, `desktop/daemon` and `desktop/crates`), and a GUI and a CLI that
talk to the daemon. This directory holds TLA+ models of the parts where tasks,
messages, power and storage meet, the TLC configurations that check them, and
TLAPS proofs. Line numbers refer to the sources; `PROJECT.json` maps each
definition to the code it stands for.

* [Inventory](#inventory): the system's parts, their state, what is hard in them
* [Plan](#plan): what is written, what composes what, what is left
* [Modules](#modules): what is modelled and how it corresponds to the code
* [Runs](#runs): what each run checks, its bounds, the fairness assumed
* [Findings](#findings): where code and documentation disagree
* [Proofs](#proofs)
* [Not modelled](#not-modelled)

## Inventory

### On the pad

**Runtime and counters** (`runtime/runtime.c`, `counters/counters.c`,
`counters/counter_sync_rules.c`). State: `s_state` (IDLE, PLAYING, COOLDOWN),
lifetime presses per key and their generation in RAM, what was last saved, the
NVS entries, a lock, the flags for a requested checkpoint and restart.
Operations: `counters_init`, a press from the key interrupt,
`runtime_notify_gameplay` (HostStatus), `counters_sync_from_host`, the
supervisor's 100 ms loop with its timeouts, `counters_checkpoint`,
`restart_now`. Hard: the interrupt counts through a CounterSync; two tasks move
`s_state` without a lock; a checkpoint is several NVS writes and power may go
between two of them; NVS may not open. Correct when: each press counts once;
what is believed saved is in flash; an accepted CounterSync is in flash; no
flash write in a map; presses reach flash at last; what a reset replaced stays
replaced.

**Frame parser and USB** (`protocol/frame_parser.c`, `usb/usb_cdc.c`). State:
the parser's buffer and its stale timer. Hard: junk, cut frames, two framings.
Correct when: a frame sent whole is handled once the junk before it is gone.

**Configuration and layout store** (`config/device_config.c`,
`config/config_validate.c`, `ui/ui_store.c`). State: the configuration and
layouts in use, their dirty flags, NVS. Operations: set, flush at IDLE. Hard:
the protocol task sets while the supervisor flushes; the two sides of the wire
validate by rules of their own. Correct when: clean means saved; the last thing
set is in flash at last; what the PC believes is what the pad uses.

**Owner** (`config/owner.c`): the PC a pad belongs to, claimed over the wire.

**Boot slots** (`app_main.c`, the partition table, the bootloader): two app
slots, two otadata sectors, a trial boot that the firmware confirms once the
host has configured USB.

**Pin detection, board test, module watch** (`diag/board_test.c`,
`input/keypad.c`, `input/module_watch.c`). State: the key mode, a scan, a test,
the module seen at boot. Hard: both drive the same pins, and their answers
carry no number. **Hall effect calibration and live view**
(`ui/he_cal_ui.c`, `input/he_cal_runner.c`, `protocol.c`): a run with a mailbox
of one report; a stream with a lease.

**Key input and HID** (`input/keypad.c`, `input/key_event.c`,
`input/debounce.c`, `usb/usb_hid.c`, `input/he_rt.c`), **display rendering**
(`ui/core`): see [Not modelled](#not-modelled).

### On the PC

**Daemon event loop and mode machine** (`daemon/src/runtime.rs`, `main.rs`).
State: `DaemonState` (counters, device info, connected), `RuntimeMode` (Idle,
Playing, Cooldown, Sync), timers, the unsaved tap attempts, the automatic
backup. Operations: one arm of `on_event` per event, which returns actions run
after it (`TriggerSync`, `SetWriteGuard`, `SaveTapAttempts`, ...). Hard: an
action runs after the mode it was decided in; syncs end late; the database is
reopened in a map. Correct when: SQLite takes writes exactly outside maps; Sync
always has a sync to end it; attempts reach SQLite in order and once; a backup
follows a play session.

**Counter synchronisation** (`daemon/src/sync.rs`, the counter requests of
`ipc_handlers.rs`, `reconcile_counters` and `save_device_state` of
`opad-storage`). State: the snapshot and reconciled record of the
`perform_sync` that runs, the pad's row, `PendingOperations`. Operations:
snapshot, wait for IDLE, load, reconcile, save, up to three CounterSyncs, save,
drain, publish; ResetCounters, RestoreDeviceFromPc, ImportPcFromDevice,
ForceSync. Hard: locks are released between all of those; answers are late or
lost; the pad goes on counting; the daemon or the pad's power dies. Correct
when: no press is counted twice; the row never forgets one; both sides end up
equal; a reset is neither lost nor undone.

**Ownership, takeover, replacement** (`runtime.rs`, `ipc_handlers.rs`,
`owner.c`). State: the pad plugged in, the prompts, `pad_guard`, known pads and
their rows. Hard: the pad changes under an open prompt or a running sync; a
claim is lost. Correct when: a foreign pad is left alone until it is taken
over; no pad gets counts its own keys never made.

**Serial worker, flash pause, device actor** (`opad-device`, `ipc_handlers.rs`,
`device_actor.rs`, `telemetry.rs`). State: the port, the Hello handshake, the
pause flag, a bounded command queue, a bounded broadcast of events, the values
the pad was told. Hard: full queues drop what is in them; the pause is one flag
for all clients; a pad may hang. Correct when: a pad that listens is seen, one
that went is dropped, and what it shows catches up.

**Configuration around maps** (`ipc_handlers.rs`, `sync.rs`): what a map
postpones. **Firmware update** (`firmware_update.rs`, `opad-update`,
`opad-device/flash.rs`, `opadctl`): plans, writes, verdicts, and which port is
the pad in the bootloader. **Updates of tosu and of the app** (`updater.rs`,
`tosu.rs`, `opad-feed`): feeds, downloads, the swap of tosu's files, the result
of an app update told after the restart it caused. **Tap statistics**
(`runtime.rs`, `tap_rate.rs`, `opad-storage/tap_stats.rs`): whose presses
count, rates, the history. **Backups** (`backup.rs`). **Storage schema**
(`opad-storage`): sixteen migrations.

**GUI** (`gui/src`): one instance and its window and tray, forms and pages kept
up to date by polls, the designer, dialogs, logs, calibration, the update
panel, and the Diagnostics page's monitors of switches and Hall effect keys
(`diagnostics.rs`, `he_monitor.rs`), which read queues and files that others
fill. Hard: answers that were asked for before an edit arrive after it. Correct
when: what the user typed or confirmed is neither undone nor done twice.

**CLI** (`desktop/cli`): single requests, and flashes of its own.

### How they interact

The key interrupt and the protocol task share the counters with the
supervisor. Pad and daemon exchange frames over one serial line: Hello/HelloAck
(with the counters), HostStatus, Status, CounterSync and its response, the
configuration, layouts, calibration and checks. In the daemon a serial worker
turns frames into events on a broadcast channel, which the event loop and every
waiting request hear. The event loop starts `perform_sync` in a task of its own
and gets its result back as an event. IPC handlers run in a task per client and
write the same `DaemonState` and SQLite rows. The GUI polls over IPC. Flashers
take the serial port from the worker. The update worker stops tosu, whose
frames tell the daemon of maps.

## Plan

| # | Modules | State |
|---|---------|-------|
| 1 | `PadRuntime`, `PadRuntimeProofs` | checked and proved |
| 2 | `CounterRules`, `CounterSync`, `CounterSyncProofs`; `MCCounterSyncWatch` | checked; the safety proved |
| 3 | `DaemonRuntime`, `AttemptLog` (abstract), `DaemonRuntimeProofs` | checked and proved, with the refinement |
| 4 | `PadLink`, `PadConfig`, `FirmwareUpdate`, `KeysLive`, `CableProofs` (run `cable`) | checked; the safety proved |
| 5 | `PadOwnership`, `PadOwnershipProofs`, `UpdateWorker`, `TapPlay`, `TapRate`, `BackupImport`, `GuiShell`, `GuiDesigner`, `GuiDialogs`, `ConfigRules`, `BoardTest`, `LayoutRules`, `FrameParser`, `DeskProofs` (run `desk`) | checked; the safety proved but for `TapRate` and `FrameParser` |
| 6 | `TapHistory`, `StorageSchema`, `GuiForms`, `GuiLogs`, `Calibration`, `PadPorts`, `ReleaseFeed`, `GuiUpdates`, `PadChecks`, `SwitchTester`, `HeMonitor`, `SettleProofs`, `ChecksProofs` (run `settle`) | checked; the safety proved |

Composition: `CounterSync` extends `CounterRules`, `MCCounterSyncWatch` extends
`CounterSync` with history variables. `PadRuntime` is what the one step
`PadSync` of `CounterSync` looks like from inside, and `CounterSync` what the
one step `SyncEnds` of `DaemonRuntime` does. `DaemonRuntime` implements
`AttemptLog`. `TapPlay` decides what an attempt counts, `TapRate` its rate,
`DaemonRuntime` how it is saved, `TapHistory` how it is shown.

All modules to prove about have no recursive operators, one action per step and
invariants that are conjunctions of named parts.

## Modules

The comment at the head of each module lists what it leaves out; this section
adds how the state corresponds to the code where that is not evident.

### The pad: PadRuntime

One action per step between which another task, the interrupt or a power cut
can come. `sup` and `proto` are the places of the two tasks: the supervisor
reads `s_state` in one step and stores what it decided in the next
(`SupCooldownOver`, `SupStoreIdle`); `counters_sync_from_host` is
`SyncReceive`, `SyncAccept`/`SyncReject`, `SyncRebase`, `SyncCheckpoint`, the
NVS writes and `SyncWritten`, with `s_lock` held from `SyncAccept` on. A
checkpoint is `BeginWrite` (the snapshot), `WriteGeneration`, one `WriteKey` per
key, `Written`. Press is the interrupt's, at any time, before
`counters_init` too.

Time is what the code derives from it: `quiet` for 3 s without
HostStatus(playing); the cooldown's 5 s and a dirty checkpoint's age are over
whenever the supervisor finds them so. The histories `ledger`, `peak`, `heard`
and `genLost` are read by properties only.

Simplified: a CounterSync that meets a held lock waits (the code's wait has no
end that matters); the NVS sets succeed once NVS is open; the two counts of a
key kept by the pad (lifetime and map) are one, since only the lifetime one is
stored and synced; the writes inside `rebase_lifetime_presses` for the keys are
one step, which loses no interleaving because each press commutes with the
addition for the other key.

### Counters between pad and PC: CounterRules, CounterSync, MCCounterSyncWatch

`CounterRules` has `reconcile_counters`, the pad's acceptance rule,
`counter_reset` and the new baseline of a restore or import, on records
`[gen, k]`. `CounterSync` is the pad, the link, the daemon's loop,
`perform_sync`, an IPC handler and the SQLite row. The place of `perform_sync`
is `sync.at`, that of the counter request in progress `ipc.at`; every lock they
release and every await is a step boundary.

| Code | Here |
|------|------|
| `DaemonState.counters`, `device_info`, `device_connected` | `mem`, `known`, `connected` |
| `RuntimeMode` | `mode`: `"idle"`, `"playing"` (with the cooldown), `"sync"` |
| the pad's `device_state` row | `row` (`NoRecord`: no row) |
| `PendingOperations.pending_device_push` | `pending` |
| `last_synced_counters` | `synced` |
| callers that wait for `SYNC_LOCK` | `wanted` |
| `SyncCompleted` events to come | `done` |
| the broadcast channel and the wire to the PC | `toHost` |
| CounterSync frames on their way | `toPad` |

Simplified, and why:

* The pad takes a CounterSync and answers in one step, and writes it to flash in
  that step: `PadRuntime` proves that an accepted one is written, and shows
  what a torn write does.
* `toHost` is one queue that loses nothing; an event that finds the channel full
  (`Lagged`) is in `PadLink`. A response that is lost (`PadSync(FALSE)`) is lost
  for the event loop and for `perform_sync` alike.
* PLAYING and COOLDOWN refuse the same requests and are one mode. The storage's
  write guard moves with the mode; that it does is `DaemonRuntime`'s
  `GuardFollowsMode`.
* One pad, ours: `PadOwnership` has the others. Storage is always open.
* `on_event` holds the state lock over an event, so `mem` is one variable.
  HelloAck's Counters and Connected events, which follow each other, are one
  step, and so is the first save of a new pad.
* Callers that want a sync of the same kind wait as one.
* A queued reset names the pad it is for, or none when no pad was known yet;
  with one pad both are `pending`. The two differ only when a second reset is
  queued for a pad that became known in between, which no run has.
* Sequence numbers: one that no frame on its way has and no sync waits for
  (`FreshSeq`). In the code they are a counter, so a number is never used twice
  while a frame is on its way.
* A missing row has generation 0; the code takes zeros in the snapshot's
  generation, which reconciles to the same record.
* `SyncNotIdle` may happen whenever the pad is busy or away: the 3 s are not
  counted. An answer later than 2 s is `SyncTimeout` while the frame is still
  on its way, counted in `bounds.lost`.

`MCCounterSyncWatch` adds two histories (`Alone` is `CounterSync` without them): `missed`, a sync failed or a connect got
none since the last sync began; `cleared`, the last reset of a connected pad and
the presses since. It carries the fairness and the properties that need them.

### The daemon's loop: DaemonRuntime, AttemptLog

The loop takes one event, moves `mode` and returns actions: `todo` is what is
left of them, and each is a step (`Action`). Syncs, IPC handlers and the
reopening of the database run between any two. `db` is the database (open, or
not yet) with its write guard; `cooldown`, `backupTimer` are "off", "running" or
"over"; `unsaved` the queue of attempts.

`AttemptLog` is the abstract promise about that queue: a log with the attempts
that wait in order, the ones saved, and the ones lost, which only newer ones
push out. `LogSpec` in `DaemonRuntime` is that specification under the mapping
waiting = those in a save action still to run, then the queue.

### The cable: PadLink, PadConfig, FirmwareUpdate, KeysLive

* `PadLink`: the worker's loop cut at the pause check, before each write and
  before a read; the handshake with its two framings and its reopen after two
  unanswered Hellos; the bounded command queue and what a drop asks for
  (`ResendRequired`); `Lagged`; the flashers' pause. A pad that listens answers
  a Hello before the next read; one that does not is "stuck" (closing the port
  helps) or "hung" (only unplugging does).
* `PadConfig`: one configuration and one layout in their five places. The pad
  writes from two tasks. A request over IPC, and what a sync drains, are one
  step each.
* `FirmwareUpdate`: the plan from which slot runs, the erase and the write of
  each otadata sector, the bootloader's choice, the trial boot, the
  confirmation, the rollback, the verdict of `flash_and_verify`, and opadctl's
  ways. The bootloader is external and modelled from what the code relies on: it
  boots the selected slot and gives up a trial that was not confirmed. espflash
  is external too, and taken to erase and write one otadata sector after the
  other.
* `KeysLive`: poll, keep-alive and lease in half seconds.

### The desk

* `PadOwnership`: two pads with the PC's rows, prompts and guard; claims and
  counter pushes may be lost. `made` is what each pad's keys really made,
  `choice` what the user chose for it. `StaleAnswer` (a pad exchanged under its
  prompt) and `SwapInSync` (within a sync) are constants, FALSE in the run: see
  [Known gaps](#known-gaps).
* `UpdateWorker`: one worker step per await; the tosu supervisor beside it, with
  the order in which `pause` and `supervise` set and read their flags; the two
  files VERSION and REVISION around the swap of the binary; the app's Install,
  its mark in SQLite, the restart, `resolve_interrupted`.
* `TapPlay`: whose presses an attempt counts, out of tosu's state frames, tosu's
  key counters and the pad's timed presses. The epoch the daemon infers for a
  press is taken to be exact. `TapRate`: the window, totals, breaks and peak of
  one channel against a reference that has the list of all presses; the song's
  clock rate is 1 and the cap of `recent` is what the window needs.
* `BackupImport`: writing, renaming and pruning backups; pick, preview, confirm
  and apply in the window.
* `GuiShell`: bind, listen, connect and unlink of the one instance's socket as
  system calls of two launches; window, tray, the timer that stands in for a
  tray. `GuiDesigner`: layouts being edited against loads and applies in any
  order. `GuiDialogs`: clicks made in one view and handled in the next.
* `ConfigRules`: one configuration in its four forms with each crossing's rules.
  `LayoutRules`: both validations, frames, acknowledgements.
  `BoardTest`: every wiring of module, cable and one fault, measured and judged.
  `FrameParser`: both ends' resynchronisation. These four are mostly functions
  from the code, checked over all their small inputs through short behaviours;
  the first three are also proved.

### What settles

* `TapHistory`: loop, request and window around a state and a storage lock of
  which no one holds both. `StorageSchema`: each migration's statements, the
  commit, kills and refusals between any two. `GuiForms`, `GuiLogs`,
  `GuiUpdates`: what a window shows of a daemon that answers out of order.
  `Calibration`: a click through daemon and pad and back, with the epoch that
  tells answers apart. `PadPorts`: discovery and the way into the bootloader,
  with a second board. `ReleaseFeed`: releases, policy, the signed feed, stale
  servers, the install. `PadChecks`: pin detection and the board test.
* `SwitchTester`: the thread that watches the keys, the kernel's queue of their
  changes, and the window that counts presses and chatter from stamps.
  `HeMonitor`: the daemon that appends and rotates a log, and the thread of the
  window that follows it by file, offset and length and judges each press by the
  pad's clock, which wraps.

## Runs

| Run | Shows |
|-----|-------|
| `pad` | `TypeOK`, `LedgerExact` (each press once), `CleanMeansSafe`, `AcceptedSyncIsWritten`, `PressesReachFlash` under fairness |
| `sync` (of `Alone`) | `TypeOK`, `NoPressInvented`, `SyncedPadHasIt`, `QueuedResetIsPushed`, `RowNeverForgets` |
| `sync_watch` | `BothSidesEqual` under fairness |
| `daemon` | `TypeOK`, `GuardFollowsMode`, `SyncModeHasSync`, `BackupsFollowPlays`, the refinement `LogSpec`, and under fairness `ModesEnd` (no mode but IDLE lasts without a map) and `PadToldOfMap` (the pad is told the truth at last) |
| `desk` | `DeskTypeOK`, `CountsAreThePads`, `ForeignPadsStay`, `FilesAreWhole` (updates, backups), `UpdateResultsAreTrue`, `PlaysAreYours`, `WindowHolds`, `RulesAgree` (configuration, board test, layouts), `StreamsAreExact` (tap rate, frames) |
| `settle` | `SettleTypeOK`, `StoredWhole`, `EditsStay`, `ChecksAreOwned`, `NeverAStranger`, `InstallsStayGood`, and under fairness `AllSettle` |
| `cable` | `CableTypeOK`, `ConfigIsKept`, `AlwaysAKeyboard`, `VerdictsAreTrue`, `StreamIsKept`, and under fairness `CableSettles` |
| `pad_play`, `pad_torn`, `sync_reset`, `update_in_map`, `fw_second` | findings 1 to 5, one violation each |

**Parts that share a run.** `desk`, `settle` and `cable` each hold several
modules that do not share state: `Init` chooses the `part`, the variables of the
others are 0, and `Next` is that part's. So the state space is the sum of the
parts', not their product, and every behaviour is one of a part alone. A
property such as `RulesAgree` is a conjunction of `part = "..." => ...`; each
conjunct has a mutant of its own in `PROJECT.json`. `AllSettle` and
`CableSettles` are one formula each for all parts, so TLC builds one behaviour
graph: `[]<>CableRests`, and `<>[]Undisturbed => <>[]Settled` where
`Undisturbed` is what a part needs of the world (the pad's app runs; there is a
release to build).

`NeverAStranger` speaks of the step that takes a port. As an invariant of what
has been taken it held only because `MaxPlugs` ended before a board that was
taken could be moved to another socket, as the attempt to prove it showed.

**Bounds.** They are counters in `bounds` variables, given as sets of records
(`Budgets`), so that one run holds several mixes of events, each small:

* `pad`: one key (the proofs are for every set), two presses (one before and one
  within a sync or a write), two generations and two counts a host may name,
  hence newer, equal, older, higher and lower ones; one CounterSync, one cut or
  restart, one NVS fault. HostStatus, timeouts and USB suspends are not bounded.
* `sync`: one key; merge and acceptance take keys one by one. Either one press,
  one user request and one lost frame, at any point of any number of syncs and
  maps; or, from a PC that may not know the pad, a press, two cuts (cable,
  power, erased flash), a daemon crash and a lost frame. The lost frame makes
  the second of three attempts meet a pad that has taken the first; two cuts let
  a power cut fall into the sync that repairs the one before. `MaxQueue` = 1
  bounds statuses and answers, not HelloAcks and disconnects, which queue behind
  them. The safety properties are proved for every bound; this run is their
  smaller, faster check.
* `sync_watch`: a press, a cut, a crash, any maps.
* `daemon`: three attempts against a queue of two (the cap and the requeueing
  meet), or one attempt with a manual sync and a period set over IPC, or two
  attempts with a failing save; the database open or not at the start.
* `desk`: two pads with two exchanges, losses or wipes; one release with a map,
  a death of the daemon and a failure at any step of an update; two plays or
  three presses; two backup ticks against two kept; two launches and four
  clicks; two designer edits between two calls; up to three configuration edits;
  two board tests around a change of the wiring; two layout requests by two
  clients; two frames with noise and a silence. Twelve times two or three actors
  whose order is free.
* `settle`: two polls or clicks of each kind, one or two faults each; a ring of
  three log entries against five written; two sockets, two port names, three
  plugs; five releases with one pre-release and one that is unusable; four edges
  of a key, a log moved aside every three lines, a clock that wraps at 4.
* `cable`: two values, losses, unplugs, deaf pads and flashes mixed; three
  configurations over two maps; three flashes with three cuts; two visits.

**Fairness.** In `PadRuntime`, both tasks of the pad are scheduled, a handler
that began ends, and time passes; a HostStatus is never promised, nor that NVS
opens (the bound ends its faults). In `MCCounterSyncWatch`, the daemon's loop
handles its events, the tokio task of `perform_sync` runs, its timeouts fire,
the serial worker opens a lost port again, the pad answers polls and frames, and
the pad's cooldown ends. Answers to frames are strongly fair because the only
thing that disables them now and then is the bound on the queue. In
`DaemonRuntime`, actions run, time passes and a `perform_sync` ends because each
of its waits has a timeout; the 50 ms tick and the result of a sync are strongly
fair: `select!` takes them among other events that may disable them for a
moment. In `settle` and `cable` every fair action is a thread, a poll or a timer
of the code, weakly fair; `HistoryTick` and `CheckSite` are strongly fair
because a map, or a request in progress, suspends them and ends. A flasher hands
the port back and a map ends at last; nobody has to plug a pad, click, or
publish.

**Deadlock** is checked in `pad`, `sync`, `sync_watch` and the two violation
runs of the pad. In the other runs a behaviour really may stop: every event left
is one of the user, the game or the world, whose bound is used up, and the
program waits. That nothing waits which should not is what the liveness
properties of those runs say.

## Findings

Each is a violation run; `PROJECT.json` quotes the line it contradicts.

1. `pad_play`: the supervisor finds COOLDOWN over, the protocol task stores
   PLAYING, the supervisor stores IDLE over it. The checkpoint behind that store
   writes flash in a map, until the next HostStatus repairs the state.
2. `pad_torn`: a checkpoint stores the generation first. Power lost before the
   keys leaves a reset's generation with the counts it replaced.
3. `sync_reset`: a status sent before ResetCounters is handled after it: it
   names no generation and puts the old counts into the new one in memory. The
   next sync merges them over the zeros of the row and pushes them to the pad.
4. `update_in_map`: the update worker reads the mode (`updater.rs:765`), awaits
   the download (`:824`) and then stops tosu and swaps its files (`:829`). A map
   that began meanwhile loses its tosu, though an update "never happens during a
   map" (`packaging-distribution.md:568`).
5. `fw_second`: an update goes to the slot that is not running, so after the
   first one a pad runs from ota_1; `blockers` (`firmware.rs:134`) then refuses
   it and asks for a full reflash.

### Known gaps

Met while modelling; the properties above except them by name, or no document
says otherwise. They are listed so that nobody reads more into a passing run.

Counters and ownership
* A pad that connects while the mode is Sync gets no sync, and its counters
  count as synced, so the periodic sync sees no reason either (`runtime.rs:874`,
  `:881`); so `BothSidesEqual` excepts `missed`.
* A queued reset is compared by device id only: one queued after the pad
  answered the sync for an earlier one, before that sync drains the queue, is
  removed with it (`sync.rs:475`). A daemon that dies forgets it.
* `counter_reset` takes a generation above its snapshot's. Where the snapshot is
  older than the pad, that can be the generation the pad has; a pad that then
  refuses the zeros sends its counts, and the merge of equal generations brings
  them back. The retries end before the pad's cooldown would let a later one
  succeed, but the model does not count time.
* A replacement prompt outlives its pad, and `perform_sync` talks to whichever
  pad is plugged in (`runtime.rs:830`): with `StaleAnswer` or `SwapInSync` TRUE
  one pad's counters go to another. `ResolveReplacement` does not look at the
  foreign guard; a takeover whose CounterSync is lost is not repeated until the
  next connect; presses between a HelloAck and a forced CounterSync are lost.
* `claim_owner` and `device_config_set` on two tasks may store the older
  snapshot last (`device_config.c:366`, `:407`).

Link, firmware and updates
* Releasing one client's pause resumes the pad under another's flash. A command
  queued on one connection may reach the next.
* Without a daemon opadctl writes ota_0 and reports success also for a pad that
  boots ota_1. The Connected that ends a flash is not compared with the device
  id, and "installed" is said before the image is confirmed. A map may start
  between `still_safe_to_flash` and the pause.
* A pad that runs from ota_1 after a rollback has its only valid entry in the
  first otadata sector. opadctl's flash of it erases that sector before it
  writes it again (`flash.rs:94`); power lost between the two leaves no valid
  entry, and the bootloader takes ota_0, the new image, without a trial, where
  `release-and-updates.md:452` promises the old slot or a trial.
  `AlwaysAKeyboard` excepts a flash that gives up the fallback so (`NoWayBack`).
* In the bootloader a stranger on the pad's USB socket, or a stale `last_port`
  that is now another board's ROM, is taken for it (`lib.rs:1707`,
  `flash.rs:232`).
* A tosu update deferred by a map waits for the feed to change; a write of the
  attempt or its result that a map refuses is not repeated (`updater.rs:930`);
  `upgrade_from_repo` reports success with nothing newer. After the update
  switch was toggled, the next poll answers the worker's cached value.
* One bad newest release stops both feeds (`opad-feed`).

Daemon and window
* `last_failed` stays set from a play before (`runtime.rs:1037`); delayed pad
  frames make the player's own attempt look like a replay.
* With the clock set back, prune deletes the backup just written; an import is
  compared with the counters at the preview only.
* `SaveTapStats` queued with an older period overwrites a newer stored one.
* The log page takes a restarted daemon's first entries for ones it has
  (`gui/main.rs:3103`). An imported layout goes to the screen shown when the
  dialog closes; a drag survives a load, a delete and a change of screen. Edits
  made while a reload runs are wiped. A link dropped and back between two polls
  leaves a calibration "Starting..." for good.
* GPIO8 is offered by the desktop and refused by the pad, and the refusal is
  ignored; 1..30 Hz against the pad's 0..60; a swipe or Hall effect key that is
  cleared is never cleared on the pad.
* The board test fails a healthy Hall effect pad (`board_test.rs:206`), and its
  line test enables the keys the module watch disabled.
* `wait_for_layout_ack` matches only the screen, so two requests take each
  other's answer; a ResetLayout made while the pad is away never reaches it.
* A launch that met a leftover socket may unlink one bound since; two windows
  are the result (`refused` in `GuiShell`).
* The switch tester can count chatter no switch made where keyboard events come
  beside the input device's, or after the page was left, or the pad pulled, with
  a key held. Lines the HE monitor has not read when the log is rotated are lost
  to it; a restart of the pad is not modelled there.

## Proofs

Eight modules hold proofs, each for every value of the constants, under the
assumptions named below and no others. Hardly any of the properties is
inductive; each proof is an inductive invariant (`IInv`, or that of a part,
`FwIInv`, `LogIInv`, ...), its initial case, its step (a lemma per operation or
group of them, in each a step per action), and the theorems that follow from
it. Where several modules share a run, the theorems are about its specification
(`MCCable`, `MCDesk`, `MCSettle`), of which each behaviour is one of a part.
The assumptions on constants are `ASSUME`d there, so TLC evaluates them for the
run's values. Most say that `None`, a model value, is none of the strings,
numbers or sets it is told apart from.

### PadRuntimeProofs

* `TypeCorrect`: `Spec => []TypeOK`, of which "no counter goes below zero" is
  the part that is not evident;
* `PressesCountOnce`: `Spec => []LedgerExact`;
* `CleanIsOnFlash`: `Spec => []CleanMeansSafe`;
* `SyncReachesFlash`: `Spec => []AcceptedSyncIsWritten`;
* `Invariance`: the inductive invariant.

The only assumption is `DomainAssumption` of `PadRuntime`: generations and
counts are naturals, and no key is called `"gen"`, the name of the generation's
NVS entry. `IInv` adds:

* `LockHeld`: which places of the two tasks hold `s_lock`;
* `IdleStays`: between the IDLE check of a sync and its checkpoint the state is
  IDLE. It holds because the supervisor's pending stores were decided outside
  IDLE, only its own store enters IDLE, and the protocol task, the other one to
  leave IDLE, is the one in the sync;
* `Started`: no lock and no sync before `counters_init`;
* `WriteProgress`: entries a checkpoint no longer has to set are in flash as in
  its snapshot, and the generation does not move meanwhile;
* `FlashFollows`: between writes `s_last_saved` is what flash holds, and the
  generation too unless an NVS open failed;
* `BaseCounted`: counts only grow between the base of a sync's difference and
  the addition, so the sum is never negative.

### CounterSyncProofs

* `TypeCorrect`, `NoneInvented`, `SyncHolds`: `Spec => []TypeOK`,
  `[]NoPressInvented` and `[]SyncedPadHasIt`;
* `ResetIsPushed`: `Spec => QueuedResetIsPushed`;
* `RowIsKept`: `Spec => RowNeverForgets`;
* `Invariant`: the inductive invariant.

Assumed is that `MaxCount` is a natural (`CountAssumption`); keys, budgets and
the length of the queues are arbitrary. `IInv` is:

* `FitOK`: every record anywhere, in RAM, flash, SQLite, a frame, an event, a
  snapshot or a request, is *fit*: no count above the presses there were. Merges
  and new baselines take counts from records that are, resets take none, and a
  press only makes more records fit;
* `Delivery`: at most one frame on its way has the number the running attempt
  waits for; it carries what the sync reports and its answer is not there yet.
  Behind each frame a sync has sent there is one of that number (frames are
  numbered afresh and taken in order), so a sync that has its answer has no frame
  of its own on its way. A pigeonhole argument (`Fresh`) shows that a fresh
  number always exists;
* `PadHasIt`: a sync whose attempt was accepted is about counts the pad has,
  unless the pad lost power or took another forced record since;
* `ResetIsQueued`: a sync is forced only while a reset is queued, and once taken
  owes none;
* `RowFollows`: without user requests, what a running sync may save is at least
  the row, and no pad is unknown with a row or with a sync.

### DaemonRuntimeProofs

* `TypeCorrect`: `Spec => []TypeOK`;
* `GuardFollows`: `Spec => []GuardFollowsMode`;
* `SyncIsDue`: `Spec => []SyncModeHasSync`;
* `BackupsArePaid`: `Spec => []BackupsFollowPlays`;
* `ImplementsLog`: `Spec => LogSpec`, the refinement of `AttemptLog`;
* `Invariant`: the inductive invariant.

Assumed: the cap is positive, budgets are naturals and no more than
`MaxAttempts` attempts, the backup periods are a finite set with the default in
it and `None` outside (`CapAssumption`, `BoundsAssumption`,
`PeriodsAssumption`). Each property is about what the actions still to be run
will do, so `IInv` says what the queue of actions may hold:

* `Numbered`: the attempts queued, being saved or saved are older than the one
  being played, and a save takes at most `Cap` of them;
* `OneSave`: one save at a time, and while it waits nothing is queued behind it;
* `GuardDue`: an action that sets the write guard sets it to the mode's, and the
  guard is the mode's unless such an action is due;
* `SyncDue`: in Sync mode a sync is to be started, runs, or has a result
  waiting;
* `BackupsOwed`: a backup armed, timed, due or written is one each for a session
  that settled, and one that is due finds the mode Idle.

The refinement maps the abstract log's waiting attempts to those the save in
flight took, followed by those queued (`Kept`). Lemma `LogStep` shows that every
step is a step of the log or a stutter: the requeueing ahead of newer attempts
moves nothing, and the cap drops from the front.

### PadOwnershipProofs

* `TypeCorrect`: `OwnSpec => []OwnTypeOK`;
* `CountsOwned`: `OwnSpec => []PadCountsOnlyItsOwn`, that is `OwnCountsOnly` and
  `ChoiceHolds`;
* `ForeignAlone`: `OwnSpec => ForeignPadsLeftAlone`;
* `Inductive`: the inductive invariant.

Assumed, as a hypothesis, is `OwnConstants`: `None` is no pad and no record, and
pads are not exchanged within a sync (`SwapInSync`) or between a prompt and its
answer (`StaleAnswer`). With either of them the properties do not hold; see [Known
gaps](#known-gaps). `MCDesk` states it as an assumption. Pads,
keys and budgets are arbitrary. `IInv` is:

* `Types`;
* `Linked`: the daemon's device info is the plugged pad's, and whoever a prompt is
  about is there; a known pad has a row;
* `SyncOK`: a sync that runs is about the plugged pad, with nothing open to ask,
  and what it sends is what it saved;
* `CountsFit`: no record of a pad the user was not asked about shows more than its
  keys counted: its own, its row's, the daemon's memory of it, a sync's snapshot.
  Reconciling takes each count from one of two records that fit (`ReconcileIs`);
* `ForeignKnown`: a plugged pad of another install is guarded;
* `MemFollows`: memory has at least the pad's generation, but for one a wipe adds;
* `ChoiceKept`: what the user chose is in the row, and nothing this PC may
  reconcile it with is of a newer generation.

### CableProofs

* `TypeCorrect`, `Kept`: `ConfigSpec => []ConfigTypeOK` and `[]ConfigKept`, of
  `PadConfig` alone;
* `CableTyped`: `Spec => []CableTypeOK`;
* `ConfigStays`: `Spec => []ConfigIsKept`, from the invariant of the first two;
* `KeyboardStays`: `Spec => []AlwaysAKeyboard`;
* `VerdictsHold`: `Spec => VerdictsAreTrue`;
* `StreamKept`: `Spec => []StreamIsKept`.

Assumed: the queues' sizes are naturals and the events' one is positive
(`LinkConstants`), the keep-alive is shorter than the lease (`LiveConstants`),
budgets are naturals (`FwConstants`, `ConfigConstants`, the latter a hypothesis
of the first two theorems). Flashers, slots' images, flashes, cuts and the
length of the wire are arbitrary.

A configuration's `IInv` is `Types` (None is never stored, flashed or sent) and:

* `Arrives`: for a connected pad, the last configuration on the wire, or without
  one the pad's own, is the daemon's (`Ends`). The lemmas `EndsWithConfig`,
  `EndsWithOther` and `EndsTail` say what a frame sent and a frame read do to it;
  with nothing on its way it makes daemon and pad equal;
* `Stored`: the database has the daemon's configuration unless a map postponed
  one. A drain stores and sends what was postponed and memory follows, so nothing
  is left that only one of the three has;
* `Writing`: what a task is writing, and a layout that waits, is what the pad
  uses, except where both tasks write a configuration at once (`raced`);
* `FlashFollowsRam` itself, which is inductive with `Writing`.

`FwIInv` is the argument for a flash that may be cut anywhere. `Safe` says in
terms of the two otadata sectors what `AlwaysAKeyboard` says of boots: the slot
that would be booted has an image that works, or the trial's fallback does. It is
kept because the writes that are left are the end of the plan (`Follows`) and
what the earlier ones did is still there (`Recording`): the slot that ran is
never written, its own entry is written before the new one, and the new one
last. `Behind` and `RunsIt` say that a trial's fallback is the other slot and
that a running pad runs what the sectors select. A verdict is right because the
pad came back with exactly the plan's entries (`Returned`) and no two images of
flashes are the same (`Distinct`). The theorem leaves out flashes that give up
the fallback themselves (`sacrificed`).

For the stream, `Leased` says that the age of the last request to reach the pad
is what its lease has lost, so a lease cannot run out before the next keep-alive.
The link's invariant is its types with the place the worker is at (`LinkOpen`).

### DeskProofs

* `TypesStay`: `Spec => []DeskTypeOK`;
* `CountsStay`: `Spec => []CountsAreThePads`, and `ForeignStay`:
  `Spec => ForeignPadsStay`, from PadOwnershipProofs' invariant;
* `FilesStay`: `Spec => []FilesAreWhole`, of backups and updates;
* `WindowStays`: `Spec => []WindowHolds`;
* `ResultsStay`: `Spec => UpdateResultsAreTrue`;
* `PlaysStay`: `Spec => []PlaysAreYours`;
* `RulesStay`: `Spec => []RulesAgree`.

Assumed: at least one backup is kept (`BackupConstants`); one widget fits on a
layout and the designer's bounds are naturals (`DesignerConstants`); tosu's
surplus that makes an attempt nobody's is positive (`TapConstants`); the desktop
offers pins above 0, the default ones among them (`RulesConstants`); bounds of
edits and tests are naturals; and `None` is no launch, client, layout, reading
or dialog's state. Plays, presses, configurations, wirings, layouts and clients
are arbitrary.

* Backups: while the clock was not wound back no file is younger than now and
  the one being written is the youngest (`InOrder`), so the prune, which spares
  the youngest `KeepBackups`, spares it. An import that lowers a count was
  agreed to with that very preview in the dialog (`AnsweredRight`, `AskedRight`).
* Window: the socket's file is the one launch's that bound it, unless a launch
  was refused (`ClaimedBy`), so two cannot be up; a launch that is up has a
  window, a tray icon, or is still going to get one or the other (`Kept`), and
  knows of the tray what the stream said (`TrayKnown`).
* Designer: one call at a time, so what is marked as applied is what the daemon
  has, but for the call under way (`OneCall`, `Marks`). Dialogs: no more flashes
  were asked for than consents were opened.
* Updates: `VERSION` is written last, so it names no build that is not there
  (`UpdFiles`), and nothing older is swapped in (`NotBehind`); tosu is paused
  from `pause()` to `resume()`, and a supervisor that has stopped starts nothing
  until then, unless `pause()` gave up after its ten seconds (`PausedWell`).
  `Supervised` is what makes the flag enough: the loop has a child in one place
  only, and says that it has stopped only in others.
* Plays: `TapOwn` says that what an attempt has counted from the pad, and what of
  this attempt is still under way, is together no more than the player pressed,
  and that tosu's counts enter only where the pad is blind or the play is a
  replay; `TapSent`, that presses under way are of this attempt or earlier ones,
  so that a late press cannot be counted in a later play; `TapEarned`, that a play
  that runs, or is armed outside the results screen, was not celebrated yet.
* Layouts: `LaySent` says that the last frame of a screen on the wire is what the
  daemon holds, or without one the pad shows it; `LayAlone`, that a request that is
  alone with its screen has the only frame of it, or any answer for that screen is
  its own, which is why it can be trusted then; `LayTold`, that a client is told
  what the pad said.
* Configuration: `RulPadOk`, what the pad uses passes its own checks; `RulSent`,
  the last frame is what the daemon keeps, and without one the pad reports that,
  but for what no frame says (`Unsaid`), unless the pad refuses one of its pins. The lemmas under them are about the
  crossings: what the pad takes (`RulTakes`), what a merge leaves (`RulMerged`),
  and that a mode's name comes back as the mode.
* Board: a report about one wiring is what that wiring gives, key by key, and its
  overall verdict is the worst of the steps.
* Types: two parts that are evident in code are not by types: there is one file
  per second of a backup, and a launch that is gone has no window.

Definitions of `BoardTest`, `GuiDialogs`, `PadPorts` and `StorageSchema` had a
`CASE` whose guards overlap, where the code takes the first that fits. TLC takes
the first, too, but the language does not say so and no proof went through; they
are `IF` chains now.

### SettleProofs

* `TypeCorrect`: `Spec => []SettleTypeOK`;
* `StrangersStayOut`: `Spec => NeverAStranger`;
* `InstallsStay`: `Spec => InstallsStayGood`;
* `EditsAreKept`: `Spec => []EditsStay`;
* `StoredStays`: `Spec => []StoredWhole`.

Assumed: the two boards differ and `None` is no board, socket, name or mode
(`PortConstants`), the ring and the answers hold at least one entry
(`LogConstants`), at least one poll may be open (`FormsConstants`), `None` is no
state of a database (`SchemaConstants`), and budgets are naturals. Sockets,
names, plugs, releases, days, polls and faults are arbitrary.

* Ports: two boards never have one name (`Apart`), so a name tells its board; and
  of a stranger that was there before the pad was sent to its bootloader, the
  flasher has remembered the name, if the platform tells apps from bootloaders
  (`Awaited`).
* Releases: every feed, being built, deployed, cached or read, holds releases
  that were published and that its policy had not pulled (`GoodFeed`), and the
  feed an install holds has its channel and the pulls it last accepted.
* Panel: `SwitchIsHonoured` is inductive with the types (`PanelTyped`): a switch
  is under way, queued, or has arrived. Forms: so is `KeyEditsStay`.
* Log: each answer under way goes on from the cursor it was asked with without a
  hole (`AnswerGood`), and the window has everything the ring still has up to
  every cursor a poll was sent with (`FetchGood`); so it does not matter in which
  order answers arrive. An answer's cursor is the largest of a finite set of
  entries, or the smallest one less; that these exist is shown by well-founded
  induction on the number of entries above, or below (`Largest`, `Smallest`).
* History: what was read for a period carries it until it is written.
* Schema: for each column and version `ValueAt` says what a row must hold, from
  what it held before the first open. Every migration keeps it, also within
  (`RowWithin` for the fourteenth, whose second statement uses the first), and
  a kill goes back to the version before. At the last version it is what
  `OpenedIsWhole` asks for.
* Types: the open polls are finite and at most `MaxPolls`, and a transaction is
  never past its migration's last statement.

### ChecksProofs

* `ChecksStayOwned`: `Spec => []ChecksAreOwned`, of the four checks a user runs on
  the pad.

Assumed: the pins the firmware and the carrier use are among `Pins`
(`ChecksConstants`); the lengths of bounces, chords and presses are naturals
(`TesterConstants`, `MonitorConstants`); a log is rotated after at least one
line, and the pad's clock does not come round within a behaviour (its ticks are
fewer than `Wrap`), without which a press as long as the clock's period is
a short one to anybody. Edges, clicks, losses and keys are arbitrary.

* Calibration (`CalOwned`): a run that is under way on the pad was started by an
  app, over a cable that is still in, and an unplugged cable carries no command.
* Pins and boards (`ChkInStep`): the numbers of the last request, the scan that
  runs, the finding on its way and the answer awaited are in step, so a finding
  is of the request it is shown for; and while a board test runs, no scan does.
* Switch tester (`TstIInv`): a key's history is what the window has handled
  (`TstKnows`: its counts are those of that part), what the thread has sent it, and
  what the kernel still queues, in that order; the queue leads from what was sent
  last to what is pressed now (`TstMeets`). Where the state is sampled instead of
  read from the queue, presses are missed, and none is made up (`TstSampled`).
* Monitor (`HeIInv`): an argument along the whole way of a press. Strokes are
  younger than the clock's period (`HeClock`), so a difference modulo it is their
  age; the log holds at most one line of a kind for each, in their order
  (`HeLogs`); what the window has not read it has not found (`HeReader`); what it
  remembers of a key is the last line it saw of it (`HeJudge`). So each finding is
  noted once (`HeOnce`), is true of the strokes (`HeTrue`), and none that the
  lines it saw give is left out (`HeFoundOut`).

### Only model-checked

* Liveness (`PressesReachFlash`, `BothSidesEqual`, `ModesEnd`, `PadToldOfMap`,
  `AllSettle`, `CableSettles`): fairness is out of the prover's reach.
* `StreamsAreExact` (`TapRate`, `FrameParser`): the totals and the parsed frames
  are folds over sequences of any length, and what a fold computes is shown by
  induction over the sequence, for which no prover here has a rule.

## Not modelled

* **Key input and HID** (`input/debounce.c`, `input/he_rt.c`, `usb/usb_hid.c`):
  debounce, rapid trigger and the report endpoint run on microseconds and
  samples; an accepted press is `PadRuntime`'s Press.
* **Rendering** (`ui/core`, the GUI's drawing, the designer's preview),
  **sensor signal processing**: geometric and numeric, without protocol state.
* **The CDC FIFO and endpoint**, register writes of the USB reset, hardware.
* **tosu's JSON and reconnect delays**: a frame says what it says in `TapPlay`.
  The song's clock rate.
* **Windows**: the named pipe and the tray of the GUI.
* **Wording, logging, time sync, the diagnostics report**, the settings a backup
  carries.
* **CLI**: its commands are single requests, but for its flashes.
* **Packaging and scripts.** `counters_reset` of the firmware is not modelled
  because nothing calls it.

The age of a dirty checkpoint, the cooldowns' seconds and the timeouts are "due
at some time": properties that compare two durations are out of these models,
except in `KeysLive` and `FrameParser`, which count half seconds.
