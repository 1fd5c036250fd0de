# Clicky Clicker in TLA+

Clicky Clicker lets the user bind physical keys and buttons to macros, remaps
and applications. A background daemon reads the kernel's evdev devices, decides
what each event means and injects input through uinput devices; a GTK window
edits macros and bindings, saves them as JSON and tells the daemon to reload.
This directory models the part of it that is hard to get right: threads,
callbacks, locks, time-outs, files and sockets.

Paths below are relative to `src/src/clickyclicker/`.

## 1. Inventory

| Component | State | Operations | Interacts with |
| --- | --- | --- | --- |
| Macro playback, `RunHandle` (`macros/executor.py`) | stop event, `_held`, iteration count, thread | start, stop, join; the thread loops over passes, actions and primitive steps, then releases what it holds and calls `on_finished` | virtual devices; executor (callback) |
| Executor, `MacroExecutor` (`macros/executor.py`) | registry `_runs` under a lock | start, stop, toggle, stop_all, shutdown, is_running, `_finished` | run threads, sink; called by the reader thread, client threads and shutdown |
| Virtual devices, `UinputSink` (`input/uinput_sink.py`) | open or closed, `_held`, screen size, a lock | key, move, scroll, release_all, open, close | run threads, engine (remaps), executor |
| Engine (`daemon/engine.py`) | settings, macros, bindings by code, `_physically_held`, emergency latch, source and executor | `_on_event`, reload, stop_all_macros, run_macro, start, stop, status, set_screen_size | source (events), executor, sink, store |
| Triggers and playback modes (`models/macro.py`), bindings (`models/binding.py`), settings (`models/settings.py`), actions (`models/action.py`) | data | effective_trigger, iterations, is_valid, effective_suppress, (de)serialisation | read by engine, editor, store |
| Daemon process (`daemon/daemon.py`) | `stopping`, signal handlers, watcher thread | main, request_stop | engine, server |
| Control server (`daemon/server.py`, `services/ipc.py`) | socket file, accept thread, a thread per client | start, stop, dispatch of eight commands | engine; clients |
| Event source (`input/evdev_backend.py`) | open devices, grabs, suppression map, wake pipe, `_running` | listen, stop, set_suppressed, hot-plug, forwarding | engine (callback), kernel |
| Daemon client (`services/daemon_client.py`) | none | requests with a time-out, systemctl | server |
| Macro library (`services/library.py`) | macros, bindings, settings in memory, observers | create, save, rename, delete, import; bindings; settings | store, daemon client, user interface |
| Persistence (`persistence/`) | JSON files | atomic write, load, seed examples | library, engine |
| Recorder (`macros/recorder.py`, `ui/dialogs/recorder.py`) | recorded steps, time of the last event, recording or not | start, feed, stop, discard | recording dialog, editor |
| Validation (`macros/validate.py`) | none | issues of a macro | editor |
| Launcher, autostart (`services/`) | a thread and a process per launch; one desktop file | launch, set_enabled | engine, executor, preferences |
| User interface (`application/`, `ui/`) | stack of editors, their delayed saves, toasts that undo, rows that hold bindings, the draft of the binding dialog | edits of macros, bindings and settings; navigation; closing and quitting | library, daemon client |
| Key names (`models/keys.py`, `keycodes.py`) | generated table | look-ups | everything |

Who runs what: the daemon's main thread is the reader (it sits in
`source.listen` and calls `Engine._on_event`) and also runs the signal
handlers; every macro run is a thread; every client of the control socket is a
thread; a watcher thread waits for the shutdown command. They share the
executor's registry, the sink, the engine's configuration and the suppression
map, each under a lock of its own, and most operations let the lock go before
they have acted on what they read.

What is hard: a run cut short at any point must leave nothing held; stops,
starts and finishes of runs cross each other; the emergency stop must work from
every state; a release must undo what the press did although the configuration
has changed in between; a stop request may come at any moment of the daemon's
start-up; a request may outlive the patience of the client that made it; an
edit is in memory long before it is in a file, and pages, dialogs, timers and
toasts hold on to objects that others replace or delete. `PROJECT.json` lists
each hazard at its line, with the properties that cover it.

What makes each component correct:

* playback: nothing stays held, a stopped run ends, passes are counted right;
* executor: one run per key, every run can be stopped, stop_all spares none and
  does not hang, the registry mirrors the running threads;
* engine: the emergency combination silences everything, a hold or a remap lasts
  exactly as long as its input is down;
* daemon: once asked to stop it stops, whenever that is;
* service: the daemon ends up with what was saved last, and the devices are
  suppressed accordingly;
* persistence: a crash leaves the old or the new file;
* library and pages: what is in memory is in a file, or on its way there, or its
  last save failed; the pages act on the objects of the library;
* form: the user is warned of what playing the macro would do wrong, and what is
  saved loads as it was;
* recorder: what was recorded plays what was done;
* event source: every event reaches the engine, and the session unless it is
  suppressed; a device is never kept from the session for longer than wanted.

## 2. Modules

| Module | Models | State and actions |
| --- | --- | --- |
| `Playback` | `RunHandle` and `UinputSink` | `pc[h]` is where the thread of handle `h` stands: `fresh` (not made), `created`, then alive in `loop`, `play`, `gap`, `cleanup`, `finish`, `exit`, then `dead`. `LoopHead`, `BeginAction`, `EndPass` are `_run` and `_run_once`; `Perform` compiles an action to its primitive steps; `PressKey`, `ReleaseKey`, `Emit`, `Wake*` execute them; `Raise` is an exception; `ReleaseHeld` is the clean-up. `down`, `open` are the sink. |
| `MacroExecutor` | `MacroExecutor` and its callers; extends `Playback` | `runs` is `_runs`; `at[c]` is where caller `c` stands in its call. A call is one step per stretch between two lock operations, so `Register` and `Launch` are two steps of `start`. `LaunchFails` is a thread that cannot be started: its handle stays registered (`Abandoned`). |
| `RunControl` | what the executor promises | one `phase` per key: idle, running, stopping; `RCSafety` is the promise without its fairness |
| `Engine` | `Engine._on_event` and the requests of clients, over `RunControl` | `phys` is what is physically down, `held` what the engine believes; the reader goes through `check`, `stop_all`, `release_all`, `lookup`, `apply`; `pending` holds the bindings of the input that are left to apply, by their place in the configuration, in which order they are applied. `unlaunched` holds the keys whose registered handle has no thread, on which a `stop_all` raises, and the reader is then `ended`; `refused` holds the codes a failed `release_all` has left down. |
| `Daemon` | the main thread of the process, its signal handler, the watcher thread and the shutdown command; `Engine.start` and `stop`, `EvdevSource._running`, the socket file | `main[p]` is the next thing the main thread of process `p` does, from `new` through the probe of the socket, the devices, the listen loop and every clean-up to `exited` or `dead`; `ask[p][w]` is where the handler or the watcher stands in `request_stop`. |
| `EvdevSource` | `EvdevSource` and `_OpenDevice`, between the kernel, the session and the engine | `phys` is what is physically down, `session` and `mirror` what the session has down from the device and from its companion, `reported` what the engine was told. `loop` is where the listen loop is; one action per statement that can fail or that another thread can get ahead of. |
| `Service` | the way of a saved edit: `DaemonClient`, the threads of the server, `Engine.reload`, `_apply_suppression`, `set_screen_size`, `_restore_screen_size` | `client` waits for a reply or does not; `at[t]` is what thread `t` (one per connection, and the main thread that starts the engine) does next; `got[t]` is what it has read. `config` is installed, `source` is the suppression map, `executor` the size the devices scale by; `None` stands for an object that does not exist yet. |
| `Store` | `read_json`, `write_json`, the files of the user | `disk[f]` is what file `f` holds; `write` is the replacement under way, with what its caller does next. A replacement makes a temporary file (`BeginWrite`), fills and syncs it (`FillTemporary`) and renames it (`Replaced`); it may fail before or after it is filled (`WriteAborted`), and the process may be killed between any two steps (`Killed`). |
| `Library` | `MacroLibrary`; extends `Store` | `object`, `listed`, `bindings`, `settings` are the memory; every command changes it and begins one `write`, `FillGoesOn` goes on with it, `SaveDone` and `SaveFails` end it. |
| `MacroPages` | the list of macros, the editor, the window; extends `Library` | `nav` is the stack of editors, `tracked` the one the window knows, `timer` the editors with a delayed save, `undos` the toasts of deleted steps. |
| `MappingPages` | the page of the bindings, the binding dialog, the preferences; extends `MacroPages` | `rows` are the bindings the rows hold, `orphans` the rows whose object is not the library's; `draft` is the dialog; `removed` the toasts of deleted bindings. |
| `Application` | the window as a whole, from start to end and again | composes the three; `Meanwhile` is what happens whatever dialog is open: timers and shortcuts. |
| `MacroModel` | the table of action types, both directions of serialisation, `validate.py`, and what a pass does when it is played | operators only |
| `Recording` | the recording dialog and `MacroRecorder`, a keyboard, a mouse and the focus | `captured`, `last`, `recording` are the recorder; `ignoring`, `keep` the dialog; `down`, `focus`, `clicking` the world. |
| `ActionForm` | the rows of a macro's actions, the choosers, the playback page, the banner | `macro`, `banner`, `dialog`, `removed`; one action per control. |
| `Authoring` | a form and a recording into it | composes the two |
| `PlaybackProofs`, `MacroExecutorProofs`, `EngineProofs`, `DaemonProofs`, `EvdevSourceProofs`, `ServiceProofs`, `ApplicationProofs`, `AuthoringProofs` | theorems about these modules | |
| `MC*` | instances for TLC | |

Definitions called "seeded bug" are variants of the definition that follows
them. No specification uses them; put in its place, each one breaks a property,
which shows that the property depends on that piece of code.

How the modules fit together:

* `MacroExecutor` replaces the free environment of `Playback` (anyone may
  create, start or stop any handle) by the registry and its callers, and
  `RefinesPlayback` checks that it is an instance of that environment. So what is
  proved of `Playback` holds of the executor.
* `ImplementsRunControl` maps the registry and the threads to a phase per key.
  `Engine` is written against that abstraction: its runs are phases. The
  abstraction holds while calls into the executor do not overlap (the run
  `orphan` shows what happens when they do), so what `Engine` shows is about the
  engine's own logic, not about overlapping calls.
* `Daemon` and `EvdevSource` share `EvdevSource._running`: `Daemon` looks at
  when it is set and read, and takes the loop for one place; `EvdevSource` opens
  the loop up.
* The events `EvdevSource` reports are the ones the reader of `Engine` takes up;
  `Engine` assumes of the source what `EngineSees` states, per device, and loses
  the releases of an unplugged device as `EvdevSource` does.
* `Engine` takes `reload` for one step, the installation of what was read;
  `Service` has its steps, and the map it ends with is what `SetSuppressed` of
  `EvdevSource` gets.
* `Application` ends where `Service` begins: at the file. Its `SaveDone` asks
  the daemon to reload and ignores the answer, which is the `Save` of `Service`.
* `ActionForm` says what an edit makes of a macro, `MacroPages` when an edited
  macro is saved; the latter knows actions only as members of a set.
* `MacroModel` states what a pass does to the keys and how long it takes on
  whole actions; `Playback` has the same actions as primitive steps.

### Abstractions

* Macros are sequences of actions, codes are model values, pointer motion and
  scrolling are steps without a payload.
* A pause ends when its time is over (`WakeByClock`, never fair unless a
  property says so) or when the run is stopped (`WakeByStop`).
* A write to the virtual devices may fail, `MaxFaults` times; a failing write has
  no effect, and a `release_all` of `Engine` that fails has released any part of
  the codes. In the code the write may take effect and only its syn fail.
* `iter` is kept for bounded runs only, because nothing reads it otherwise.
* History variables: `leaked` of `Playback` (codes whose release failed in the
  clean-up), `quiet` of `EvdevSource` (every switch of a device found nothing
  down and nothing unread; the code does not wait for that moment), `spoiled` of
  `Service` (operations of one kind overlapped, or one failed), `failed`,
  `deleted`, `undone` of the window (files whose last save failed, macros that
  were deleted, macros with a step brought back after their editor was left),
  `first`, `unheard` of `Recording`.
* Observers and logging are left out. So is auto-repeat of the evdev devices, on
  which `_on_event` returns at once.
* In `Engine`, a device that is unplugged takes the releases of its keys with it
  (the kernel refuses to read them from a device that is gone). Runs and remaps
  are taken to use different codes.
* In `Daemon` one process runs at a time, each finding what the one before left.
* In `EvdevSource` the devices are those the application did not create, and a
  path is its device: the identity in the suppression map does not tell two
  equal keyboards apart, which the model does not need. Motion, scrolling and
  auto-repeat pass like any other event. Creating the companion and grabbing the
  device are one step, since nothing reaches the companion in between. The
  kernel's queues lose nothing while the device is there. python-evdev reports
  an unusable `/dev/uinput` with an error of its own that is not an `OSError`,
  although `start_forwarding` documents `OSError`; the model follows the
  documented error.
* In `Service` all macro files are one value and reading them does not fail; the
  window saves and asks for the reload in one step, because nothing of it runs
  in between. A killed daemon frees its connections at once.
* In the window a name is one of two titles, so that an old file can be told
  from a new one; the other fields of a macro are that title. A command runs to
  its `write_json` in one step: the interface has one thread, and only the
  death of the process, or of the write, can come in between. A dialog that asks
  "are you sure" is merged with its command. Settings other than the master
  switch are one value, because each handler assigns its field and saves.
* A binding carries the macro or the output it had under another kind until it
  is saved: `Saved` is what `to_dict` drops.
* In `ActionForm` a chooser delivers what was chosen by an idle callback; the
  form is covered until then, so both are one step. Durations are 0, 1, or what
  a file holds, below zero included; that is what validation tells apart. What a
  file gives as a duration is a whole number, as a key a name, which may be empty
  (`None`), and as the keys of a combination a list.
* In `Recording` the toolkit follows one mouse button at a time, so buttons that
  are pressed together are not covered; a key that is held repeats, and GTK does
  not mark repetitions. The clock counts whole units, which the rounding of each
  gap (`macros/recorder.py:94`) leaves as they are.

## 3. Runs

All runs but those of `Engine` switch deadlock checking off, because the system
may really stop: every handle has been used and is dead, every process has
ended, nothing happens to any device any more, or the user has used up the
commands of the instance. `Engine` never stops (its clients go on when the reader has
ended), and its runs check for deadlock.

| Run | Instance | Shows |
| --- | --- | --- |
| `playback` | 2 runs; macros with a bare press, a combination with a repeated and an unknown code, and a click at a position; 1, 2 or unboundedly many passes; 1 write error | `NothingStaysHeld`, `EndsForAReason`, `BalancedActions` |
| `executor_one` | 1 caller, 2 keys, 2 handles; any thread may fail to start | while calls do not overlap: `OneRunPerKey`, `AlwaysStoppable`, `StopAllStopsAll`, and `ImplementsRunControl`, fairness included; besides `RegistryHoldsUnfinished`, `RunningStaysRegistered`, `RefinesPlayback`, which are proved for any number of callers |
| `executor_live` | 2 callers, 1 handle | `StoppedRunEnds`, `StopAllEndsRuns`, `StopAllReturns` without the clock, `BoundedRunEnds` with it |
| `engine` | 1 keyboard, a while-held macro, a remap to two codes, a toggle on one device, a disabled input; reloaded at any time with the bindings reordered, the toggle on another key and the input no longer disabled; 1 write error | `WhileHeldStops`, `RemapHeldByInput`, `NoFalseEmergency`, `EmergencyEndsRuns`, `ReleasedHoldEnds` |
| `engine_edits` | 1 keyboard and one combination; reloaded at any time: the macro on press (`one_shot` is the same branch of `_apply`), on release, toggled or while held, the master switch off together with a macro without actions, the macro deleted; 1 unplugging, 1 refused write or release, 1 thread that cannot be started | `EmergencyHonoured` |
| `daemon` | 2 processes in turn, 1 signal, 1 kill, 1 fault | `EndsWhenAsked`, `DevicesClosed`, `StopsWhileListening` |
| `source` | 1 keyboard with 2 keys, 3 suppression maps (one with a code the keyboard lacks), the loop starting with one of two of them and any of the three replacing it, 3 key changes or pluggings, 1 change of the map, 1 fault | `SessionSees`, `EngineSees`, `MapTakesHold`, `GoneIsDropped`, `GivenBack` |
| `service` | 2 connections, a macro, its binding and a remap on one device, 2 saves or reports of a size, 1 request given up, 1 crash | `AcknowledgedIsInstalled`, `ScreenAgrees`, `SavedTakesEffect` |
| `application` | 2 macros of up to 2 actions, 2 bindings, a first start, a library in use and one with broken files, 5 commands | `SavedOrPending`, `RowsAreTheBindings`, `DeletedForGood`, `FilesChangeWhole`, `ClosingSaves`, `EditReachesFile` |
| `authoring` | 3 files (one of another version, with unknown types, parameters and values), macros of up to 4 actions, 2 edits, a recording of up to 3 actions from a key, a key without a name and a mouse button, 3 ticks | `RecordingIsFaithful`, `BannerWarns`, `LoadsAsSaved` |
| `orphan`, `presets` | smallest instances | counterexamples, below |

Bounds. Two handles are enough for the hazards of the executor, which are about
a run and its successor under one key; two keys make `stop_all` go through more
than one handle; two callers are the fewest that overlap. Two runs that share
the code `a` are the fewest that can release each other's keys. One write error
suffices to enter every error path; a second one would only repeat it. Macros
are up to four actions long, and include a disabled step and a step that the
devices do not know. The engine's instance has one code outside the emergency
combination and binds all three. Two processes are a crash and the one that has
to start after it; one signal and the shutdown command are two requests, enough
for one to be lost and the next to be swallowed by the latch.
Three key changes or pluggings in `EvdevSource` are a press, its release and a
press of the other key; a press, its release and the device going; or a key
pressed on a device that goes and comes back before the loop has noticed.
Devices interact there only through the map and the order in which the loop
visits them, so one is enough.

Two connections in `Service` are a request that was given up and the next one,
beside the reload of a starting daemon; two saves are the fewest that can be
installed in the wrong order. Five commands in `Application` are enough to create
a macro, edit it, cover its editor by another, leave and delete it, or to open
the binding dialog, change the draft, save it, and remove and restore the
binding; saves may fail and timers run at any time without being counted. Two
bindings are a row and its duplicate. In `Authoring` two edits reach every pair
of controls on each of the three files; three ticks and a minimum delay of two give a gap that is dropped, one
that is kept, and their sum.

Fairness. A thread that can run eventually runs (`WF` of each run's thread and
of each begun call): they are operating-system threads, and no lock is held
while waiting. Nothing is assumed of the clock: neither a pause nor the
one-second join has to expire. `BoundedRunEnds` states its assumption that the
clock advances in the property. In `Daemon` the main thread, the watcher and
whoever has begun a request go on; the listen loop comes back from `select` for the byte `stop` writes, or after
three seconds. In `EvdevSource` the listen loop goes on and a
thread that has replaced the map writes its byte; neither `select` has to time
out nor three seconds to pass, so `MapTakesHold` and `GoneIsDropped` do not owe
anything to the periodic scan. In `Engine` the reader goes on with an event it
has taken up, and a stopped run ends, which `ImplementsRunControl` and
`StopAllEndsRuns` justify. In `Service` the threads of a running daemon go on;
nobody has to start it, to save, or to give up. In `Application` a delayed save
is made (GLib runs a timer that is due) and a write ends, well or not; the user
need do nothing.

What the properties of the window say, and do not. `SavedOrPending` excuses
a file whose last save failed: the code keeps the change in memory and tries
again only at the next edit. Whether the user is told is not part of the model:
every handler reports a failed save but that of the master switch, see below.
`RowsAreTheBindings` excuses a failed save too: after one the rows may hold
objects the library has not, and nothing repairs them before the next refresh.
`FilesChangeWhole` is about a process that is killed or a step that fails; a loss of
power, against which the code syncs the file but not its directory, is not
modelled. `EditReachesFile` excuses the end of the
process as well: quitting by its shortcut drops a pending edit, which closing
the window does not (`ClosingSaves`), but for an editor the window does not know
any more. `DeletedForGood` excuses the undo of a step after its editor was left,
see below. `SavedTakesEffect` and `AcknowledgedIsInstalled` excuse reloads that
overlap, which the code does nothing about; the window alone avoids them, by
waiting for each reply, until it gives one up or the daemon is starting.

### Disagreements found

Two runs end in a counterexample, each to a sentence of the repository:

* `orphan`: `start` registers a handle and launches its thread later. A
  `stop_all` of another caller in between drops the handle from the registry,
  and its run plays on, out of everyone's reach (`macros/executor.py:14`: "A run
  is always stoppable.").
* `presets`: whoever deletes every macro is given the presets again at the next
  start (`persistence/store.py:239`: "so it cannot resurrect presets the user
  deleted").

Eight more configurations end in a counterexample and can be checked by hand
(`tlc -config <file> <module>`):

| Configuration | Module | Property | What happens |
| --- | --- | --- | --- |
| `MCExecutorStopAllRaises.cfg` | `MCMacroExecutor` | `StopAllNeverRaises` | A handle is registered before its thread is started; if that fails it stays registered, and the next `stop_all` raises on joining it, before it has released anything (`macros/executor.py:300`, 302 and 339; 343: "emergency path must not raise"). |
| `MCEngineTwoKeyboards.cfg` | `MCEngine` | `EmergencyHonoured` | The engine remembers what is held per code and not per device. A fully held emergency combination may go unnoticed (`daemon/engine.py:263` and 285). |
| `MCEngineReloadHold.cfg` | `MCEngine` | `WhileHeldStops` | Press and release are looked up in different configurations when a reload comes in between, and nobody stops the run (`daemon/engine.py:137`, `models/macro.py:204`). |
| `MCEngineEmergencyOff.cfg` | `MCEngine` | `WhileHeldStops` | While the emergency stop is switched off its latch is left as it was, so runs start under it; when it is on again and the combination is still held, every event is dropped, the release of a while-held trigger too (`daemon/engine.py:293` and 298). |
| `MCDaemonStop.cfg` | `MCDaemon` | `StopHonoured` | A request to stop that comes before the listen loop has set `_running` does nothing, and the latch of `request_stop` swallows the next (`daemon/engine.py:97`, `daemon/daemon.py:96`). |
| `MCServiceEdits.cfg` | `MCService` | `EditsTakeEffect` | A save while the daemon starts is acknowledged, then overwritten by what the start had read before it (`daemon/engine.py:109` and 133). |
| `MCApplicationUndo.cfg` | `MCApplication` | `DeletedStaysDeleted` | Undoing the deletion of a step after the macro was deleted writes its file again (`ui/pages/editor.py:412`; `ui/pages/macros.py:258`: "will be permanently deleted"). |
| `MCAuthoringNegative.cfg` | `MCAuthoring` | `FloodWarned` | A duration below zero, which a file or an imported macro may hold and no control of the form gives, counts as a delay where a repeating macro is checked, and is played as none (`macros/validate.py:148`, `macros/executor.py:381`; `macros/validate.py:139`: "Warn about a repeating macro with no delay anywhere in it."). |

The same causes have other effects: a second caller in the middle of `start` can
also bring a second run of the key, or make `stop_all` join a thread that is not
started yet, which raises; a `stop_all` that raises on the reader thread ends the
listen loop (`_pump` catches `OSError` only), and the engine shuts down, which
raises once more and leaves the devices to the end of the process; after a device was unplugged, half of the emergency
combination may trigger it; a remap whose release finds another configuration
stays down.

Met while reading, and excused by the properties or outside the models:

* A save of the master switch that fails is reported to nobody
  (`ui/dialogs/preferences.py:230`); the other handlers catch the `OSError`.
* The question whether to clear all actions stays open over a new macro created
  by its shortcut, and clears the macro it was opened for, whose editor is by
  then covered (`ui/pages/editor.py:435`); in `MacroPages` an edit that leaves no
  action is possible in a covered editor for this.
* "while held" is documented as unbounded (`daemon/engine.py:337`), yet `start`
  takes `None` for the macro's own playback count, and a macro that runs once
  ends while its input is down; playback modes are documented to pin the
  trigger, yet a binding's override beats them.
* A new macro created by its shortcut over a new macro, and left again, leaves
  an editor the window does not know: recordings made for it are dropped
  (`ui/window.py:245`) and closing the window does not save it.
* The binding dialog shows the first macro when its own is gone, and cannot
  choose it if it is the only one (`ui/dialogs/binding_editor.py:203`).
* A broken file of bindings or settings reads as empty, and the next save
  replaces it (`persistence/store.py:204`).
* A change of the trigger or the repeats does not validate the macro again
  (`ui/pages/editor.py:481`), so the warning that it repeats for ever may be
  stale; `BannerWarns` is about the issues that do not depend on them. The
  banner shows the worst issue only.
* A step whose key has an empty name does nothing and does not wait, and
  nothing reports it (`macros/validate.py:70`); no control of the form gives
  one, a file may. It is in the model, and the condition `NamesAreGiven` of
  `Warns` leaves it out.
* A write of a key whose syn fails, an event queue of the kernel that overflows
  while the reader joins runs, a macro with a bare press that repeats and makes
  `_held` grow, an accept that fails and ends the accept loop while the socket
  stays (`daemon/server.py:116`): hazards of the code that no model here reaches.

## 4. Proofs

A theorem holds for every value of the constants: any number of handles, callers,
keys, processes, connections, devices, macros and bindings, any configurations
and files, and any value of the bounds on faults, kills and commands. Assumed are
the named `ASSUME` of each module, which give the constants their types, and the
conditions a theorem names. Fairness plays no part. Every safety invariant and
every action property of the passing runs is proved.

Most properties are not inductive as they stand. The table gives what was added
to make them so; the text below says why it is needed.

| Theorem | States | Strengthened by |
| --- | --- | --- |
| `PlaybackProofs!NothingIsLeftHeld` | `NothingStaysHeld`, `ClosedHoldsNothing` | `SinkInv` |
| `PlaybackProofs!NoPassIsLost` | `EndsForAReason` | `CountInv` |
| `PlaybackProofs!CombinationsAreBalanced` | `BalancedActions` | `BalancedInv` |
| `MacroExecutorProofs!ImplementsPlayback` | `RefinesPlayback` | `CallInv` |
| `MacroExecutorProofs!ExecutorLeavesNothingHeld` | `NothingStaysHeld`, `EndsForAReason` | the refinement |
| `MacroExecutorProofs!RegistryUnfinished`, `RegisteredUntilFinished` | `RegistryHoldsUnfinished`, `RunningStaysRegistered` | `CallInv` |
| `MacroExecutorProofs!OneRunOfAKey`, `StoppableByOne`, `NoneIsSpared` | `OneRunPerKey`, `AlwaysStoppable`, `StopAllStopsAll`, for one caller | `OneCallerInv` |
| `MacroExecutorProofs!RunControlIsImplemented` | `ExSafety => RC!RCSafety`, for one caller | `OneCallerInv` |
| `EngineProofs!EmergencyStops`, `EmergencyIsReal` | `EmergencyHonoured`, `NoFalseEmergency`, under conditions | `LatchInv`, `KnowsPressed`, `KnowsReleased` |
| `EngineProofs!HoldingIsNeeded` | `WhileHeldStops`, under conditions | `Latched`, `PendingInv`, `RunInv` |
| `EngineProofs!RemapsAreKeys` | `RemapHeldByInput`, under conditions | `Latched`, `PendingInv`, `OutInv`, `RemapInv` |
| `DaemonProofs!NeverEndsUnasked`, `LeavesNothing` | `EndsWhenAsked`, `DevicesClosed`, `SocketRemoved` | `SocketInv`, `StopInv`, `CleanInv` |
| `EvdevSourceProofs!EngineHearsAll`, `SessionHasTheRest` | `EngineSees`, `SessionSees` | `DeviceInv` with `Heard`, `Forwarded` |
| `ServiceProofs!AcknowledgedMeansInstalled` | `AcknowledgedIsInstalled` | `ReloadInv` with `Settled`, `Fresh` |
| `ServiceProofs!SizesAgree` | `ScreenAgrees` | `ScreenInv` |
| `ApplicationProofs!NothingLeftBehind`, `RowsShowTheLibrary`, `DeletionIsFinal` | `SavedOrPending`, `RowsAreTheBindings`, `DeletedForGood` | `WriteInv`, `EditorInv`, `GoneInv`, `RowInv`, `IdInv` |
| `ApplicationProofs!FilesAreNeverTorn`, `ClosingLosesNothing` | `FilesChangeWhole`, `ClosingSaves` | the same |
| `AuthoringProofs!LoadsBack` | `LoadsAsSaved` | `ShapeInv` |
| `AuthoringProofs!RecordsFaithfully` | `RecordingIsFaithful` | `RecordInv` with `TimedInv` |
| `AuthoringProofs!Warns` | `BannerWarns`, under conditions | `WarnedInv` |

Each proofs module first shows its type invariant (`TypeCorrect`, `ExTypeCorrect`,
or a part of the inductive invariant), then has one lemma per conjunct or one
proof step per action.

Playback. `SinkInv`: a held code is on the list of some run that still has its
clean-up before it, or has leaked; runs beyond their clean-up have an empty list;
a leak presupposes a fault; closed devices hold nothing. The release of a code is
the delicate step, because removing the first occurrence of a code must not lose
any other code (`RemoveFirstKeepsOthers`). `CountInv` relates the count to the
place of the run. `BalancedInv` says of a run of a macro without a bare press what
it holds in the middle of an action, for which the order of the presses is not
enough: `list.remove` takes the first entry of a code while the releases come in
reverse order, and a combination may name a code twice. While codes are pressed
(`Pressing`) the list is the part of the combination that is pressed and its
releases are all to come; from then on (`Releasing`) what is held is matched, one
to one, with releases that are still to come, and a release that removes another
entry of the same code swaps the two partners (`ReleasingMoves`).

Executor. `RefinesPlayback` holds for any number of callers: each step of a caller
is a step of the free environment of `Playback`, or leaves it alone. What depends
on calls that do not overlap is proved for one calling thread (`OneCaller`), and
the run `orphan` shows that two break it. `OneCallerInv`: every run with a thread is
registered under its key, and so is the handle a start is about to launch; while
`stop_all` goes through its list, a run that plays unstopped is still on it, and
after that there is none. So `NoneIsSpared` owes nothing to the joins: every run is stopped
before the first join can raise. `RunControlIsImplemented` is the safety half of
`ImplementsRunControl`: under the phases of `Phases` each step of the executor is
one step of `RunControl` for one key or a stutter; a `stop_all` is one step per
handle. That a stopped run ends is `StoppedRunEnds`, which only TLC checks.

Engine. The conditions are where the code leaves its promise, and the
counterexamples of section 3 show it does: `OneKeyboard` and `OneCombination` for
`EmergencyStops` (`MCEngineTwoKeyboards.cfg`); `HoldsStay` for `HoldingIsNeeded`
(`MCEngineReloadHold.cfg`) and `RemapsStay` for `RemapsAreKeys`, which let every
edit be reloaded at any moment but one of a while-held binding, or of a remap in
use; `SwitchStays` for both (`MCEngineEmergencyOff.cfg`), which is what they need of
`OneCombination`; `NothingUnplugged`, because
a device takes its releases with it; `OwnIds`, because two bindings of one id
share a run. `EmergencyIsReal` holds for any number of keyboards, `EmergencyStops`
with any number of pluggings, refused releases and threads that cannot be started:
a `stop_all` that raises ends the reader, and the codes a failed `release_all`
leaves down are those of `refused`. The latch is what is hard there: `Latched` says
that nothing plays while it is set, and `LatchInv` that it is set whenever the
combination is believed to be held, but for the steps in which the reader sees to
that; the belief
is related to what is physically down by `KnowsPressed` and `KnowsReleased`. A run or a
remap is right while its input is down, but also while the reader is about to
apply the release that ends it (`HeldOrAhead`). A reload may move the binding to
another place in the list between the look-up and that moment, so the invariants
follow it as a value and not by its place: what the reader has looked up was
usable in some configuration (`LookedUp` in `PendingInv`), and the conditions
carry it into the one that is installed now.

Daemon. One process is alive, and whose socket the file can be (`SocketInv`);
requests get on, the loop is told to end and the clean-up is entered only once a
stop was asked for or something raised (`StopInv`); what the clean-up has behind
it at each place (`CleanInv`). `FindsNoOther` draws from the first that the probe
never meets a live socket, which would end the process unasked.

Event source. Between the kernel and the engine events sit in the queue of the
device and in the batch the loop has read. `Heard` says that the batch leads from
what the engine was told to some set of keys and the queue leads from there to
what is down. `Explains` states this without following the sequence: for each key
its last event in the sequence decides, or it has none and is as it was. So
neither taking an event nor adding one needs induction. `Forwarded` is the same
for what the session has from the device or from its companion.

Service. `ReloadInv` holds as long as reloads have not overlapped. From the moment
a reload of the last edit has begun (`Settled`) the files stay as they are, so
what any reload has read is what is saved (`Fresh`, place by place), until
it is installed and published. `ScreenInv` is the same for the size of the screen:
one operation on it is under way, and what it has done agrees.

Window. One write is under way at a time, and it carries what the memory holds
(`WriteInv`), because nothing of the interface runs in between. An editor is of a
macro of the list and a timer belongs to an editor of the stack or to an undo
(`EditorInv`); so a deleted macro is in none of the places from which it could be
written (`GoneInv`). A row is the library's binding or an orphan of a failed save
(`RowInv`); that an undo does not put a binding over another one is a matter of
ids (`IdInv`). `ApplicationAssumption` says what the files may hold at first and
that the stand-ins for absent and garbled content are no content.

Authoring. `ShapeInv`: every action has exactly the parameters of its type, and so
has every action of the recording and the one a toast can put back; the playback
is within its limits. What a file gives has this shape whatever the file holds
(`LoadedIsLegal`), each edit and each recorded event keeps it, and an action of
this shape is what its entry in a file is read as (`MacroLoads`). A change of type
that kept the old parameters would break it. `Kept` writes the skipping of
entries by rank, the n-th place kept is the one with n kept places up to it: so
that nothing is skipped of a legal macro needs no induction (`HasRank`, `KeptIs`).
`AuthoringAssumption` says what `_as_int` and `bool` make of a file's values, and
that durations are whole numbers and the keys of a combination a list.

What is recorded is compared by what recursive functions make of it: the codes a
recording leaves unreleased (`HeldIn`) and the time it takes (`TimeIn`). `TimedInv`
relates them to the clock: the time since the first event is that of the
recorded waits and at most one dropped pause, shorter than the minimum, for each
event but the first. `RecordInv` adds that an unreleased code is down, or was
released unheard, and that a button pressed on a control of the dialog was not
recorded: if it is unreleased all the same, it was from before and unheard. The
last is what the click that stops the recording is about: it is dropped by its
release, which the recorder then never sees.

`WarnedInv` says that a macro with a fault has a banner. `Faulty` is the part of
the issues that does not depend on the trigger or on the number of passes, whose
edits do not draw the banner (`FormDraws`, `SameFaults`). That every trouble of
a pass is such a fault (`TroubleIsFault`) compares two readings of one list, that
of `validate.py` and that of the executor: the dictionary holds every code that is
left down (`UnreleasedIs`), a pass takes no time only if each step takes none
(`DurationIs`), and a step with a duration sleeps or has no keys (`SleepIs`). Two
conditions are needed, and files that break them have no warning: no duration is
below zero (`MCAuthoringNegative.cfg`), no name is empty.

Induction. The theorems of the library that take an operator cannot be used, so
these proofs do without them. `NatLessThanWellFounded` and `WFMin`, which are about
sets, give every set of numbers that is not empty a smallest (`Smallest`), and that
gives `Induction` over the places up to n, as a statement about a set of places.
`Recursion` then shows that a function defined by recursion along a sequence
exists, so that `HeldIn`, `DownIn`, `TimeIn` and `FlattenSeq` satisfy their equations
for every sequence. For this the model writes them as recursive functions of the
place.

Only model-checked:

* liveness: `EmergencyEndsRuns`, `ReleasedHoldEnds`, `StoppedRunEnds`,
  `BoundedRunEnds`, `StopAllEndsRuns`, `StopAllReturns`, `StopsWhileListening`,
  `MapTakesHold`, `GoneIsDropped`, `GivenBack`, `SavedTakesEffect`,
  `EditReachesFile`, and the fairness in `ImplementsRunControl`.

## 5. Plan

Done: every module of the table of modules and the proofs of section 4. What
could come next are the hazards of section 3 that no model here reaches, and
daemons that overlap.

## 6. Not modelled

* Widgets, layout, the page of the devices, the status bar with its polling, the
  geometry of the window, export: they show or copy what others keep.
* The launcher (`services/launcher.py`) and autostart (`services/autostart.py`):
  processes and files outside the program's control, no state of their own.
  Disabling autostart through systemd leaves an earlier desktop entry
  (`services/autostart.py:103`).
* Key names (`models/keys.py`, `keycodes.py`): a generated table. The modules
  take the set of known codes as a constant.
* Opening the virtual devices, their capabilities and the arithmetic of
  coordinates: calls of a library and a formula. A code the kernel knows but the
  virtual mouse does not advertise passes validation and is never emitted
  (`input/uinput_sink.py:233`).
* Overlapping daemons: systemd starts one. The stale-socket probe takes any
  error for a stale socket, and `stop` removes a socket another daemon may have
  bound meanwhile (`daemon/server.py:88`).
* Labels, the sentences that describe a macro, its estimated duration and the
  report of conflicting bindings: display.
* Error texts, the probing of the environment, build files.
