# A verification project for Fenestra

Fenestra is an addon platform for a game.  A launcher (C#) starts the game and injects a
library, the core (C++), into its process.  The core hooks the game's input, drawing and packets,
draws an interface over it and runs addons, each a Lua interpreter of its own, that see, change,
block and inject packets, register commands, run coroutines and talk to one another.  A package
manager downloads, updates, loads and unloads the addons.

These TLA+ modules model the parts of it that keep state over many calls and are reached from
several places.  Of the core: the frame and the device everything lives with, the packet pipeline,
commands, the scheduler of coroutines, the graph of packages, the addons that are loaded, the events
addons share, installation over a thread of its own, and input on its way through the interface to the
game.  Of the launcher: starting a game, the helper processes it calls, and the update of the
installation.  TLC checks small instances; TLAPS proves the main safety properties of the packet
pipeline, the scheduler, the commands, an installation's waits, the frame loop, the windows and the input, the
launch and the updater for every instance.

Contents: [the system](#the-system), [the modules](#the-modules), [the runs](#the-runs),
[the proofs](#the-proofs), [what the runs found](#what-the-runs-found),
[what is not modelled](#what-is-not-modelled), [the plan](#the-plan).

Paths below are those of the repository, without the leading `src/`.

## The system

### Threads

Almost everything runs on the game's thread, in callbacks of the game: `core::update` once a frame,
`process_buffer` once for every buffer the game receives or sends, the window procedure for every
message.  The core adds the thread of the downloader; a detached thread for each future that is
awaited (`utilities/coroutine.hpp`); and, through the window procedure, whatever thread owns the
window.  A handler of an addon is called synchronously and may call back into the core, so the
hard cases are rather *reentrance* (a handler changes what the loop calling it goes over) and
*continuations* (what follows a `co_await` runs on another thread, later) than locks.  The launcher
is a process of its own, with a helper process where it needs other rights or another word size.

### Components

Modelled, in whole or in part:

| component | state | operations | reached from | what makes it correct |
|---|---|---|---|---|
| packet queue (`packet_queue.cpp`, `modules/packet.cpp`, `packet.lua`) | the queue of delayed and injected packets, the output buffer, the packet under way | `queue`, `process_buffer`, `process_packet`; `inject_*`, `trigger_packet` | the game's network hooks; scripts | no packet lost, doubled or shown twice; output in bounds; a block is final; order |
| scheduler (`addon/scheduler.cpp`; coroutines in `script_base.cpp`) | the tasks and what they wait for, the frame count, two slots of the registry | `schedule`, `run_until_idle`, `reset`; `sleep`, `sleep_frame`, `yield` | `core::update`, through the addon manager; scripts | resumed when due and not before; an error ends one task only; nobody starves |
| package manager (`addon/package_manager.cpp`) | installed and available packages, sources | `load_order`, `unload_order`, `install`, `update`, `update_all`, `uninstall`, `add_source`, `remove_source` | commands; the addon manager | orders respect dependencies; what is not reported is in place |
| addon manager (`addon/addon_manager.cpp`) | the loaded addons, in order | `load`, `unload`, `reload`, `run_until_idle` | commands; the frame; ends of updates, from their threads | what a loaded addon needs is loaded; each is loaded once |
| commands of the core (`command_handlers.cpp`) | none | `/load`, `/unload`, `/reload`, `/install`, `/update`, `/uninstall`, ... | the command manager | the checks they make still hold when they act |
| event and channel (`modules/event.lua`, `channel.lua`, their `.cpp`) | for an event its handlers, local and remote; for a client its event objects | `register`, `unregister`, `trigger`, and the same by name through a channel | scripts, across interpreters | no registration lost; each trigger reaches every handler |
| downloader (`downloader.cpp`, `coroutine.hpp`) | the queue of jobs, each job's files and its status | `enqueue`, awaiting a job, the loop of its thread | the package manager | an awaited job resumes its coroutine once |
| scripts and environments (`script_base.cpp`, `script_environment.cpp`, `addon.cpp`) | an interpreter | construct, reset, `execute`, `run_until_idle` | the core, the addon manager | see scheduler and addon manager |
| command manager (`command_manager.cpp`, `modules/command.*`) | commands in four layers, aliases | register, unregister, `handle_command`, `purge` | the user; scripts, in handlers too; the addon manager | what is typed reaches the first handler that is alive, and none that is gone |
| core and frame loop (`core.cpp`, `wrappers/direct_3d_device.cpp`, `direct_draw_surface.cpp`, `debug_console.cpp`) | whether the frame is updated, functions for the next frame, what the device owns | `update`, `begin_frame`, `run_on_next_frame`; a device made and released | four hooks of drawing; the console's thread | once a frame; nothing runs without the device, queues or packages it needs |
| windows, context, widgets (`ui/window_manager.cpp`, `context.cpp`, `widget/basic_*.cpp`) | windows in slots, the free list, order, the hot and the active window, who holds the mouse and has the focus | `get`, `update`, `activate_window`, `hit_test`, `begin_frame` | the game's window; addons, in every frame | slots neither lost nor doubled; nothing that is gone holds the mouse |
| binding manager (`binding_manager.cpp`) | which keys are down for the core and for the game | key messages, lost focus | the game's window | what the game takes for pressed is pressed |
| settings and settings channel (`settings.cpp`, `settings_channel.cpp`, `Core/SettingsChannel.cs`) | shared memory and an event named after the game's process | the launcher writes and waits; the game reads and signals | the launch; `DllMain`'s thread | the settings are read before the game runs |
| launcher: launch (`Core/Launcher.cs`, `Injector.cs`) | the game process, suspended and patched | create, find, patch, inject, resume, wait, cancel | the profile chosen | the core is in place before the game runs; nothing stays suspended |
| launcher: remote calls (`Program.cs`, `MainViewModel.cs`) | a pipe, a helper process, a named event, three tasks | a call, its answer, its cancellation | the window | the answer is true; a cancelled launch ends |
| launcher: updater (`Core/Updater.cs`) | `version.xml`, two files, their downloads, what is to be deleted | check, download, move, restart, clean up | a start of the launcher | what was replaced can be had back; the core does not stay missing or old |

Not modelled:

| component | what it keeps | why it is left |
|---|---|---|
| textures (`ui/texture_cache.cpp`) | entries with a time to live | one thread, one call a frame; in the plan |
| profiles (`ProfileManager.cs`) | an XML file read at start and written as a whole | in the plan; see the findings for what a torn file does |
| drawing and text (`ui/markdown.cpp`, `text_*.cpp`, `primitive.cpp`) | nothing over a frame | data with little control |
| binding of Lua (`addon/lua.cpp`, `lua.hpp`), other Lua modules | the stack of an interpreter | a discipline of the stack that guards keep |
| hooks and wrappers (`hooks/*`, `wrappers/*`, `scanner.cpp`) | patched code | machine code and forwarding |
| strings and utilities (`unicode.cpp`, ...) | nothing | generated tables and conversions |
| Steam, PlayOnline and views of the launcher | the registry, forms | I/O |

### How they interact

- *calls*: the game's hooks call `packet_queue::process_buffer`, which calls `trigger_packet`,
  which goes over the script environment and then every loaded addon; `core::update` drains the
  functions for the next frame and runs the script environment and the addon manager, which runs
  each addon's scheduler.
- *callbacks*: a handler of a packet, an event or a command, or a coroutine, may schedule, register,
  unregister, inject, give a command, and so load or unload an addon, in the middle of each of these loops.
- *messages*: between interpreters, through channels, synchronously; a registration with a remote
  event takes effect later, in a coroutine of the server.
- *shared state*: `m_installed_packages` and `m_loaded_addons`, both under mutexes that are held for
  a step and not for an operation; the staging directory, under none.
- *awaits*: `/install` and `/update` are coroutines.  They start on the game's thread and continue on
  the downloader's, and on threads made for futures.
- *messages of the window*: go to the interface first, then to the bindings, then to the game; each may
  keep one from the next, and which one does may change between a press and its release.
- *processes*: the launcher, the helper it elevates and the game share a pipe, a named event, a block of
  memory named after the game, and the memory of the game itself; the updater's processes share directories only.

## The modules

| module | models | uses |
|---|---|---|
| `PacketDelivery` | what the packet pipeline promises, abstractly | |
| `PacketQueue` | one direction of the packet pipeline | refines `PacketDelivery` |
| `PacketQueueProofs` | theorems about `PacketQueue` | `PacketQueue`, TLAPS |
| `Positions` | the positions of a vector that an erasure keeps, in order | |
| `Scheduler`, `CoroutineProofs` | the coroutines of one interpreter | `Positions` |
| `PackageGraph` | `load_order`, `unload_order`, `throw_cycle_error` as operators on a dependency graph | |
| `PackageOrders` | one call of either order, for any graph and names | `PackageGraph` |
| `AddonManager`, `PackageProofs` | the loaded addons and the commands | `PackageGraph`; the proofs also `PackageOrders` |
| `RemoteEvent`, `CoroutineProofs` | one event, its server and its clients | |
| `PackageInstall`, `PackageInstallProofs` | installing and updating, with the downloader's thread | `Positions` |
| `CommandManager`, `CommandManagerProofs` | commands, aliases and the interpreters that register them | |
| `FrameLoop`, `FrameLoopProofs` | `core::update`, the functions for the next frame, the device, the console | |
| `WindowManager` | the slots and the order of windows | `Positions` |
| `Interface`, `InterfaceProofs` | the messages of the game's window, widgets, and what the game is told | extends `WindowManager` |
| `GameStart` | one launch: launcher, game and settings channel | |
| `RemoteLaunch`, `LauncherProofs` | the launcher's window and the helpers it calls | extends `GameStart` |
| `Updater`, `LauncherProofs` | launchers that update one installation | |
| `MC*` | the instances TLC checks | the module they name |

Definitions have the names of the source where that is possible, and `PROJECT.json` gives the lines
each one stands for.  A definition whose comment begins *Mutant of* is not part of the model: it is a
plausible mistake in the definition that follows it, there to show that a property notices it.

**Rigid variables.** Some constants of a game differ from run to run: which packages there are,
whether a host has an error handler, whether handlers unregister themselves.  Where one run is to
cover several, they are variables no action changes (`handled`, `updates`, `installed`, `oneShot`,
`world`, `debug`, `echo`), with a choice in `Init`.

### PacketQueue

One `packet_queue`, as the core has one for each direction.  `Receive` is the hook handing over an input buffer (`decode_packet`, `encode_packet`); then
`TakeInput` and `DelayInput` are the two branches of the loop over the input, `TakeQueued` the
loop over `m_queue`, `EndInput` and `EndBuffer` their ends.  `process_packet` is `Start`, one
`Interpret` step for each interpreter (`LeaveAlone`, `Block`, `Modify`), and `Finish*`, the
three ways it ends.  `Inject` is `packet.inject_*`: it goes through `core::run_on_next_frame`, and
`Frame` is where `core::update` queues it.

- A packet is a number (its arrival), who injected it and a size: the properties tell no more apart.
- The interpreters are asked one after the other, each seeing the answer of the one before; an injection
  by a handler comes in between, so the steps of one trigger are separate actions.
- The input is a buffer of packets of `ClientSizes`; the output's size is any of `OutputSizes`, as the
  hooks compute it from the buffer the client gave.
- `HeaderField` is the header's size field with its seven bits.
- History variables (`taken`, `sent`, `dropped`, `vetoed`, `seen`) record what properties are about and
  guard nothing.

`PacketDelivery` knows only that packets arrive, wait, and are then delivered or blocked.  The refinement
maps arrival to `made`, waiting to the packets in the input, the queue, the pending functions and under way.

### Scheduler

`NextFrame` is `core::update` counting a frame and entering `run_until_idle`.  The loop's position,
the end of the pass and the flag `idle` are variables, since a coroutine may change the vector under it.
`Skip`, `StartDelay`, `Enter` are what the loop does with a task; `SleepFor`, `SleepFrame`, `Yield`,
`Return`, `Throw`, `ThrowUnhandled` and `Schedule` what a coroutine does when it has the thread;
`Reset` and `ResetWithin` the end of the interpreter.  The slots `sleep_type` and `sleep_delay`, through which a delay travels, are the
variable `sleep`; they keep their value, as the registry does.

`Leave` erases what is done.  What stays is picked by the one member of `Upwards(kept positions)`, the increasing
enumeration of a set of positions: "there is one" needs no recursion, so the prover can reason about it.  `WindowManager`
erases and frees slots in the same way.

When `emplace_back` moves the elements under the loop, reading the next one is undefined: `Dangle` takes
the model to `"broken"` where nothing more is promised, and the model also goes on as if the old elements
could still be read.

### PackageGraph

A walk is a record: colours, results, the error, the names still to go over, and the stack of what is left to do, which is the C++ call
stack with its loops unrolled.  `LoadStep` is a call of `topological_sort` up to its recursive calls, or its end (`SortStep`), or the next name (`SortNext`);
`UnloadStep` is one round of the loop of `reverse_topological_sort` (`RevSortStep`) or the next name.  Colours, results and errors change in the order of the
code.  `LoadOrder` and `UnloadOrder` repeat the step until the walk is over, as recursive functions on walks.  `throw_cycle_error` is `FirstGray` iterated.
`Dependencies`, `Dependents` and `Acyclic` are reference definitions that know nothing of the walks.

### AddonManager

A command computes an order and leaves it in `work`; each round of the loop in `load`
or `unload` is a step, because `m_mutex` is held for a round only.  There are two threads: the game's, which
gives commands and runs the frame, and an updater's, on which an installation that ended reloads addons.
`Construct` may fail, since constructing an addon runs its main chunk.  `RunAddon`,
`RunFails`, `RunPastEnd` and `EndRun` are the loop of `run_until_idle`, which takes no mutex.

### RemoteEvent

The server's table `handlers` is a Lua table with holes: `Border` says what `#` may answer and `Remove1` what
`table.remove` does.  `count` is the field of that name, which `unregister_by_name` does not change.
`Register` leaves a coroutine in `scheduled`, `RunScheduled` is that coroutine.  A trigger is a loop
of steps (`BeginTrigger`, one of `Delivered`, `UnregistersItself`, `HandlerThrows`, `Unknown`, `Dropped` for each
handler, `EndTrigger`).  A client is an interpreter that is unloaded and loaded again; its closures keep leading to
the interpreter there was when they were made.  The collector may take an event object a client dropped
(`Collect`), and a client may have left before the server's coroutine ran.

### PackageInstall

`op[o]` is one call of `/install`, `/update` or `/updateall`: `pc` is where its coroutine is, `thread` on which thread.
`AwaitReady` and `AwaitSuspend` are the two halves of awaiting a job, `CompleteJob` the
downloader's completing it, each a critical section of the code.  `TakeJob`,
`NotModified`, `Receive`, `Finish`, `Fail` are its thread.  `ApplyIndex`,
`Reload`, `Select`, `Enqueue`, `ApplyPackage`, `Reset`, `Check` are `update_sources` and
`install_or_update`, one step between two accesses to what is shared.  A file's content is
its version, or a part.  There is one source and its contents do not change.

### CommandManager

`commands` is `m_commands` as a set: a layer, a component, a name and a tag make a descriptor, and the sort order, which is
by the first three, is in `Bounds`.  A tag is an interpreter and how many there were of it before; `Expired` is
`weak_ptr::expired`, which is not the same as being gone: handlers under way (`calls`) hold the handle.
`Handle` is `handle_command` up to the call: the alias, `find` from layer to layer with the expired descriptors it removes,
and its answer.  The handler's body is whatever actions come before its `Return` or `Throw`.  `Load`, `Unload`,
`Reset`, `Alias`, `Unalias` are the handlers of the core that change what this module is about.
Where an interpreter is closed under code of its own, or a script's handler fails (`ThrowInScript`), `broken` is set and
nothing more is promised.

### FrameLoop

`Update(hook)` is `core::update` up to its early return on `m_updated`; `RunCoroutines`, `Drain` and `EndUpdate` are the rest,
one step a function popped, since what runs may queue more.  A function is known by what it needs: `Start` is the one core's constructor
queues, `SetUp(d)` the device's, `Inject`, `Text`, `Command` those of scripts and of the console.
`MakeDevice` and `ReleaseDevice` are the device's constructor and destructor with all they own, the packet queues among it;
`fault` says that something ran without what it needs.  It is assumed that a game releases a device between
two frames and after it has presented one, and that a handler queues another function only while fewer than `MaxQueued` wait.

### GameStart and RemoteLaunch

`at` is where `Launcher.LaunchAsync` is: create the process suspended (or find Steam's), the settings channel, patch the entry point with a
jump to itself, let it spin there, load the core with a thread of the game's, put the code back, resume, wait for the window.  Each step asks for cancellation
where the code does, and may fail, with the game running too; a launch that is cancelled ends the game it has in hand, one that failed leaves it.  The game is three variables more: its process, its main thread and the core's thread,
which installs hooks, reads the settings and sets the event.  A game may end at any point.

`RemoteLaunch` puts the window around it.  A profile is chosen, a helper fixes access rights if the user asks for it, a helper checks DirectPlay,
and the launch is made here or in an elevated helper.  `call`, `runner` and `canceller` are the three tasks of `RemoteCallAsync`; `helper` is
`ExecuteAndExit`; `holders` and `signal` are the named event, which lives while anyone has it open.
An exception that is not `OperationCanceledException` leaves an `async void` method, and the launcher is `"broken"`.
`LossySpec` adds helpers that end before they answer.

### WindowManager and Interface

A slot is what the C++ points to.  `GetKnown` and `GetNew` are the two branches of `get`, `Update` is `update`: `Emptied` and `Staying` are what its loop
leaves of the slots and of the order, `Updated` what follows the loop.  `HotAt` is `update_hot_window`, `Activated` with `Raised` is `activate_window`.  `Interface` adds the messages (`MouseMove`, `MousePress`, `MouseRelease`, `KeyDown`, `KeyUp`, `KillFocus`), each all
the way from `core::process_message` to what the game is told, and a frame (`BeginFrame`, `Draw` of each window, `EndFrame`) with what a button and
an edit do when they are drawn.  `taken` is the one history variable: what the interface took the release of.
No binding is modelled, for none can exist: the test at `binding_manager.cpp:248` is inverted and no bind string is accepted.

### Updater

A launcher goes from `"check"` through `"save"` and `"fetch"` to four moves and `"clean"`, as `Update` and `Install` do; `temp` is what it has downloaded,
`got` of what files, `replaced` whether it must restart.  Any move may fail (`MoveFails`), with something in the way or, as a fault, with nothing: then the rest is left
out, as the `catch` at `Updater.cs:310` does, and the cleanup is started, which takes a `windower.exe`.  The directory or any move may be denied (`Denied`): the elevated
helper begins all moves again, with what the first have left of the downloads, and may be refused (`Refuse`).  `EmptyTemp` and `DeletePending` are the two
halves of `CleanUp`, a process that outlives its launcher and knows of no other.  `Kill` ends a launcher at any step.  `pending` says whether there is a `windower.exe` in
`delete_pending`, and `crossed`, a history variable, whether a cleanup was at work when it was put there.  The version of the launcher is that of `windower.dll`, which lies beside
`windower.exe` (`README.md:26-27`) and is not updated.

## The runs

| run | instance | distinct states | shows |
|---|---|---|---|
| `packet_queue` | 2 interpreters; client packets of 8 bytes, injections of 5, results of 4 or 16, an output of 24; 3 packets a buffer, 4 in all | 226 000 | `TypeOK ShownOnce SameView BlockSticks InjectedInOrder DelayedFirst DeliverySpec HandledWhenNoMoreCome` |
| `scheduler` | 3 coroutines, delays 0 and 1, clock to 1, frame to 2; with an error handler and without | 258 000 | `TypeOK NotEarly NothingLeftReady ReadyIsResumed` |
| `package_graph` | every graph on at most 3 packages with manifests of at most 2 dependencies, every name and three lists | 16 464 | `LoadOrderSound UnloadOrderSound` |
| `addon_manager` | 3 packages of three mixtures of kinds, graphs without cycles; updates with fewer graphs | 215 000 | `LoadedOnce DependenciesLoaded NoneOrphaned` |
| `remote_event` | 2 clients, 3 registrations, each loaded at most twice | 288 000 | `NoLostRegistration AllHear RegistrationTakesEffect` |
| `package_install` | 2 packages in four worlds, 2 operations, 1 failed request, 1 uninstallation | 1 084 000 | `InstalledUnlessReported NeverForgotten` |
| `package_install_torn` | the same without uninstallation | | `InstalledWhole` is violated |
| `command_manager` | 2 addons and the scripts, 2 names of which one is the core's, 1 alias, 2 interpreters each, handlers 2 deep | 364 000 | `Reachable AnswersRight` |
| `frame_loop` | 3 devices, 4 functions waiting; with and without the console and an addon that answers lines | 16 120 | `TypeOK FindsWhatItNeeds FrameComplete CommandAnswered UpdateEnds` |
| `remote_launch` | 2 profiles, by process creation and by Steam, elevated or not; games that end, users that cancel, steps that fail | 18 528 | `CoreBeforeProgram NothingLeftBehind AnswerIsTrue CancelEnds` |
| `interface` | a window with a button and one with an edit, overlapping; 2 points, the 2 shift keys | 1 625 000 | `TypeOK SlotsAccounted GameInputReal HolderShown` |
| `updater` | 2 launchers, 2 versions of each file, 1 cleanup at work when another launcher starts, 1 launcher started over another, 1 fault | 233 000 | `ReplacedKept CoreCatchesUp` |

### Why these bounds

- *packet_queue*.  Two packets of 12 bytes with their headers fill an output of 24: the third is
  delayed, and so is a second one that follows a first changed to 16.  A result of 4 leaves room that a
  delayed packet then takes.  Two interpreters are what a block followed by a change takes; injections of 5
  bytes are padded to 8.  Four packets are enough for two to be delayed while one is under way and one is injected.
- *scheduler*.  With three coroutines one can throw in the middle of a pass, one sleep and one schedule another beyond the
  capacity.  Two frames show a `sleep_frame`, one tick a `sleep`, and a sleep of 0 a loop that never returns.
- *package_graph*.  Cycles of two and three packages, two cycles that share a package,
  diamonds over two arcs, missing packages, and optional next to required dependencies all occur on three packages.
- *addon_manager*.  A library in between, a service, two dependents of one; any main chunk may fail, any addon may throw.
  Packages depend on earlier ones only, since the orders on cyclic graphs are `package_graph`'s.
- *remote_event*.  Two clients and three registrations: a handler can be registered, taken back and
  registered again with another one's in between, which is what a hole that is not last takes.  Two loads make a client that came back while its old closures
  are still in the table.
- *package_install*.  Two operations are what sharing the staging directory takes; a package and its dependency are
  what a second round takes; one failure is what the retry of a half-finished download takes.  `Verbose` is true, since
  without the setting a failure is not reported at all (see below).
- *command_manager*.  Two addons with the same name are what ambiguity takes, a name of the core's what hiding takes, a second
  interpreter what a tag that is expired, or alive for another, takes.  Handlers two deep are `/unload` given by the addon that it unloads.
- *frame_loop*.  What a device leaves behind meets the second; a third shows that it is not only the first that differs.
  Four functions are the set-up of a device, an injection, a line and its answer.
- *remote_launch*.  The second launch is what meets the helper, the event and the game the first left; each launch is up to three calls.
- *interface*.  Two windows with one slot between them, since either may be closed while the other opens; the inner point is
  covered by both, the outer by one.  The two shift keys are one key to the game.
- *updater*.  Two launchers are what deletes a download of the other by a cleanup, or takes the place of its file.  A second version can be published at any
  step.  One fault, a launcher that ends or a move that fails or is denied with nothing in the way, comes at each place it can; what is in the way, a cleanup or the other
  launcher, makes moves fail without one.  `MaxCleaners` is asked when a launcher starts anew, so that two cleanups can still be at work.

`CHECK_DEADLOCK FALSE` stands where the system may stop because a bound was reached or all is done: an interpreter that was reset,
operations that have ended, a manager in the state `"broken"`, an event with no registrations left, a launcher that has ended, a game that
has no devices left to make, an installation with no versions left to come.
The packet queue and the package graph are checked for deadlock.

### Properties worth a word

- `SameView` and `BlockSticks` are about the chain of `trigger_packet`: a packet one interpreter
  blocked is still shown to the others, and no later answer brings it back.
- `DelayedFirst` is about `push_front` in the overflow branch: what was delayed keeps its place before
  injections, although (`ClientInOrder`) not its order.
- `NothingLeftReady` is about the passes of `run_until_idle`, which may be cut short by an error.
- `DependenciesLoaded` is asked at every step, between two rounds of a loop too, and `NoneOrphaned` of the three steps of
  `/uninstall`.  Both are asked as long as no update ends meanwhile: an update changes manifests
  without asking what is loaded, and the model has it interleave with everything.  `LoadedOnce` is asked always.
- `NoLostRegistration` is asked with handlers that unregister themselves only for a client that has the event alone:
  with two the compaction loses one (see below).
- `InstalledUnlessReported` compares what was asked for, with all that the index lists for it, with what is on disk once all is
  quiet; packages uninstalled meanwhile and overridden ones are left out.
- `NeverForgotten` is the safety half of "an awaited job resumes its coroutine": the job is
  before the thread, in its queue or in its hands.
- `Reachable` and `AnswersRight` compare the sorted vectors, with weak pointers that expire late, with the handlers each interpreter thinks
  it has: what is typed gets to the one that is there.  An ambiguity is asked about with less (`AmbiguityIsReal`, below).
- `FindsWhatItNeeds` is about an order nobody states: what is queued without a device, and is popped by the first frame of one, finds the queue's
  first function has made what the others need.  `FrameComplete` is that four hooks and a flag add up to one update a frame.  `UpdateEnds` is
  asked unless an addon answers each line of text with another, which keeps a frame from ending.
- `NothingLeftBehind` is about every way out of a launch, errors and cancellation included; a launch that failed late leaves a game, but none that is
  suspended or patched.  `AnswerIsTrue` relates the window to the processes it no longer looks at.
- `GameInputReal` lets the interface keep releases from the game, as it does (below), and nothing else.
- `HandledWhenNoMoreCome` is asked of arrivals that end.  While packets of the client go on coming and fill every buffer, queued and injected ones wait for ever
  (`packet_queue.cpp:128-150`): that is how the code is, and no property says otherwise.
- `CancelEnds` excepts the one way a cancellation is lost, `Unheard`: the canceller leaves the handle of its event to the collector (`Program.cs:362-365`), and it may be
  taken before the helper opens the event (`Program.cs:290-291`).
- `ReplacedKept` says what is left of a `windower.exe` when the second move does not come, for whatever reason: the file in `delete_pending`, as long as no cleanup was there to delete it.
  That no code moves it back is among the findings.  `CoreCatchesUp` is asked of the core, whose version is its own, and names the two ways it can fail: no launcher is left that could run
  (`Lost`), or cleanups delete each download before it is in place (`Robbed`), as the one a restarting launcher has started may.
- Each module has one `TypeOK`; those of `AddonManager`, `RemoteEvent`, `PackageInstall`, `CommandManager`, `RemoteLaunch` and `Updater` are not in a run's
  list, to keep the runs to what could be wrong.  Those of all modules with proofs are proved.
  A module whose proofs share a proof module with another's names its specification after itself (`EventSpec`, `UpdaterSpec`, `OrdersSpec`).
  `OutputFits` is proved and not run.

### Fairness

| run | assumed | why |
|---|---|---|
| `packet_queue` | weak fairness of `Receive` and `Process`, strong of `Frame` | the game keeps sending and receiving, with empty buffers when it has nothing to say; a called handler returns.  `Frame` is disabled while a buffer is handled, and the game's loop draws a frame every time round |
| `scheduler` | weak fairness of `NextFrame`, `Loop`, `Body` | the game draws frames; a resumed coroutine gives the thread back by sleeping, ending or throwing.  None is assumed of the clock or of `Schedule` |
| `remote_event` | strong fairness of `RunScheduled`, weak of `Trigger` | every frame runs the coroutines that are ready, however many triggers there are in between; a called handler returns |

| `frame_loop` | weak fairness of `BeginScene`, `Update("present")`, `RunCoroutines`, `Drain`, `EndUpdate` | a game with a device draws and presents frames, and functions return.  None is assumed of a device being made: a command waits only while there is one |
| `remote_launch` | weak fairness of the steps of the launcher, its tasks, the helper's and the game's threads | threads run, in a game as long as it has not ended.  None of the user, of Steam starting a game, or of the collector |
| `updater` | weak fairness of starting, of cleanups and of each launcher's steps; strong of `CheckServer`, of `Fetch` of each file, of `InstallCore` | processes go on and the user starts the launcher again; now and then a request succeeds, and the user does not refuse the helper |

No fairness is assumed of what scripts, users (but for starting the launcher) or servers do, beyond the last row.  The other runs check safety alone.

## The proofs

| module | for every | theorems |
|---|---|---|
| `PacketQueueProofs` | number of interpreters, sizes, packets | the eight below |
| `CoroutineProofs` | number of coroutines and frames, delays, both kinds of hosts | `TypeOKHolds`, `NotEarlyHolds`, `NothingLeftReadyHolds` |
| | clients, loads and registrations | `EventTypeOKHolds`, `NoLostRegistrationHolds`, `AllHearHolds` |
| `PackageInstallProofs` | packages, worlds, operations, failures, uninstallations | `TypeHolds`, `NeverForgottenHolds`; with `verbose_logging` also `InstalledHolds` |
| `CommandManagerProofs` | addons, names, aliases, depth of handlers, interpreters made | `TypeOKHolds`, `ReachableHolds`, `AnswersRightHolds` |
| `FrameLoopProofs` | number of devices and of waiting functions | `TypeOKHolds`, `FindsWhatItNeedsHolds`, `FrameCompleteHolds` |
| `InterfaceProofs` | windows, points, keys and their aliases | `TypeOKHolds`, `SlotsAccountedHolds`, `HolderShownHolds`, `GameInputRealHolds` |
| `LauncherProofs` | number of launches, profiles, games that end, cancellations | `TypeOKHolds`, `CoreBeforeProgramHolds`, `NothingLeftBehindHolds`, `AnswerIsTrueHolds` |
| | number of launchers, versions, cleanups and faults | `UpdaterTypeOKHolds`, `ReplacedKeptHolds` |
| `PackageProofs` | set of packages, graph (cyclic or not) and names | `LoadEnds`, `UnloadEnds`, `LoadOrderSoundHolds`, `UnloadOrderSoundHolds` |
| | set of packages, games, updates | `ManagerTyped`, `LoadedOnceHolds`; for acyclic games also `DependenciesLoadedHolds`, `NoneOrphanedHolds` |

Each component but the packet queue has one inductive invariant, proved as `InvariantHolds` or under a name of its own, and
laid out as a step for each action; the theorems of the table follow from it.  All of the passing runs' safety and step properties are proved; only liveness is left to TLC.  The assumptions are those the modules state of their
constants (`SizesAssumption`, `SchedulerAssumption`, `WindowAssumption`, ...), and TLC evaluates each of them in the runs.

### The packet pipeline

`PacketQueueProofs` proves, for every number of interpreters, every set of sizes that satisfies
`SizesAssumption` and any bound on packets:

| theorem | statement |
|---|---|
| `TypeCorrect` | `Spec => []TypeOK` |
| `ShownOnceHolds` | `Spec => []ShownOnce` |
| `BlockSticksHolds` | `Spec => []BlockSticks` |
| `DeliveryHolds` | `Spec => DeliverySpec`: the pipeline implements `PacketDelivery` |
| `OutputFitsHolds` | `Spec => []OutputFits` |
| `SameViewHolds` | `Spec => []SameView` |
| `DelayedFirstHolds` | `Spec => DelayedFirst` |
| `InjectedInOrderHolds` | `Spec => []InjectedInOrder` |

These are all of its properties but the liveness one.

`SizesAssumption` says that a client packet's size is a multiple of four its header can give (it was read from one),
that an injection is at most 508 bytes (`verify_packet` refuses others), and of what handlers return only that it is a number.

*Types.*  `TypeOK` is not inductive: `pop_front` needs a queue that is not empty.  `Control` adds that while a packet from
the queue is under way the input is used up and the packet is still at the front.  That is the fact the code relies on when it
pops after the trigger what it looked at before, and it holds because injections append, at the back.  `Typed` is both, and each action keeps it.

*Handled once.*  `HandledOnce` is a partition.  No two packets in the input, in the rest of the queue, in the pending
functions or among those taken are the same (`AllDistinct`), and all were made (`AllMade`).  What was taken is sent, dropped or under
way, and only one of these (`OneFate`).  What was vetoed is dropped, or under way with a verdict of blocked (`VetoKept`).
`ShownOnce` and `BlockSticks` are consequences.  The lemmas about `Tokens` and `Distinct` of
tails, concatenations and appended sequences carry it.

*Refinement.*  With the partition each `Finish*` step takes exactly its packet from `Waiting`; `Receive` and `Inject` are
`Arrive`; every other step moves packets among the places of `Waiting` and stutters.

*Layout.*  `LaidOut` says that `room` is what is left behind the last packet, never negative, and that a packet under way has room for
its unchanged form: `Fits` is asked of a packet before it is shown, and a larger result is dropped back to the original by `ResultFits`.

*Order.*  `View` adds to `SameView` that the packet under way was taken last, which is what an interpreter is shown.
`ClientFirst` says that the delayed packets of the client are a prefix of the queue, that the pending ones are all injected and the input all the
client's: delayed packets are pushed to the front and injected ones appended, so `DelayedFirst` follows at the front.
`InjectedOrder` goes through the places an injected packet passes, pending, queued and taken: each is in order, and what is in a later
place is older than what is in an earlier one.  It needs `HandledOnce`, for a new token to be younger than all others, and `ClientFirst`, for what is
pushed to the front to be no injection.

### The scheduler

`NotEarly` alone is not inductive: that a resumed coroutine has waited long enough depends on what its task was made to wait for, a pass or many
frames ago.  `Awaited` relates the two clocks: what a task waits for is not before what its coroutine asked for, *or* that has come already.  The
second half is needed since a plain `yield` waits for as long as another coroutine last slept, and for that alone the statement "it waits for what
it asked for" (`OwnDelay`) is false; a delay of another's only makes it wait too long.  `Numbered` says that a coroutine has one task, so that the body that runs
changes the wait of nobody else; `EndedDone` that what ended is done.

`NothingLeftReady` is a statement about the pass that ends.  `IdlePass` is its loop invariant: as long as nothing was resumed, the end of the
pass is the end of the vector (only what is resumed schedules), and all before the loop's position is done or was not ready when the pass
began.  The clock may go on in the middle of a pass, which is why it is `passClock` that is compared.

Erasing what is done shrinks the vector between passes.  `Leave` picks the kept positions upwards, and lemmas about `Upwards` and `Picked` say that it
neither doubles nor reorders a task.

### The event

A trigger moves handlers down to its slot while clients unregister, throw and go, and what is between the slot and where it is (`at`) is on its way out: a
handler there may be a copy of one kept, or one that is to be dropped.  So the invariant speaks of what the table holds, `Held`: the positions below the slot and those
not reached yet.  `Registered` says that a client with a handler is led to from a position held (`Leads`), or has its coroutine scheduled; between
two triggers `Held` is the whole table and this is `NoLostRegistration`.  `ToHear` says that a client the trigger has to reach was reached or is led to from where the trigger
is or behind it; at its end there is nothing there, and this is `AllHear`.

`OnwardKeeps` is the argument for all rounds of the loop: the table changes at most at `at` and `slot`, so it is enough to say what becomes of the one client that the
position `at` leads to.  `RemovalFacts` says that `unregister_by_name` takes away a handler of the client that asks and moves the others down, within `count`
if they were, whichever border Lua takes for the length; it needs that `lookup` holds for each client one of its own (`LookupOwn`).  `TruncatedFacts` is about the removals at a
trigger's end: what is before the slot stays.  They are a recursive function of the position, of which first has to be shown that it exists; the steps up to
each position are shown to, by the least position for which they do not.

That a handler which unregisters itself has the event alone (`oneShot` with one client installed) is used in one action, `UnregistersItself`: the compaction there
does lose another client's handler (see below).

### Packages and addons

*The walks end.*  `LoadOrder` and `UnloadOrder` are recursive functions on all walks, and nothing is known of such a function before one is shown to exist.
`LoopFunction` constructs it for any loop, whether it ends or not: a state has an end state if every set that holds the latter and is closed under the loop's steps backwards holds the former.
`LoopEnds` is the induction, for a loop that keeps a set and makes three numbers smaller in their order: a state that is left out with the least numbers
has no next one.  For the walks the three are the white vertices, the names left and the steps on the stack: a step paints a white vertex,
or takes a name, or takes a step away.  `LoadEnds` and `UnloadEnds` say so for graphs with cycles as well, where the colours are what ends them.

*The order to load.*  `LoadInvariant` is about a walk under way.  `Opened` says that the gray vertices are those on the stack; `Emitted` that the results are
the black ones, each once; `Ordered` that a result comes after what it requires.  `Handled` is what makes a vertex that is left ready to be emitted: each of its dependencies is above
it on the stack, or was met and is black, or is gray *above it*, and when it is left nothing is above.  A gray one below would have been met as an error instead, and `Leading`
says that it is then on a cycle.  `Reached` relates what was met with `Dependencies`, the least set that knows nothing of walks.

*The order to unload.*  `reverse_topological_sort` does not paint the package it is called for, and paints a found one black before its call is over, so a package can be emitted
twice, and the invariant cannot be about colours.  `Seen` takes their place: emitted, or to be.  `Asked` says that what depends on a package seen is seen or still to be tried,
`Grounded` that what is seen is a dependent.  `Rising` says that all above a package on the stack depends on it, and `Preceded`, for graphs without cycles, that a package's dependents are
emitted first.

*The manager.*  `ManagerTypes` carries `LoadedOnce` and needs no orders.  `Quiet` is about the game's thread as long as no update ends: what it has still to do
is sound for what is loaded now (`WorkSound`: what is to be loaded has what it needs loaded or before it; a package is removed only when nothing depends on it) and, with `Acyclic`, what is to
be unloaded is needed by nothing loaded that is not unloaded before (`Unloadable`).  Each command establishes this from the orders' theorems, each round keeps it for the rest,
and `ConstructFails` may end it anywhere.

`DependenciesLoadedHolds` assumes `NoCycles`: that the graphs the games begin with are acyclic.  The run assumes the same, and it is needed.  With `1` requiring `2` and `2` depending optionally on
`1` both can be loaded, since `topological_sort` passes over an optional dependency it is in the middle of.  `/unload 2` then has the order `2, 1, 2`, and between its first two rounds `1` is loaded
without `2`.  `LoadedOnceHolds` and `NoneOrphanedHolds` need no such assumption.

### Installing

`NeverForgotten` is about one moment of an operation, its waiting.  The invariant is about every job from the moment it is made: a job that is not complete is in the queue or in
hand (`JobsKept`), whether anyone awaits it yet or not, since `AwaitReady` and `AwaitSuspend` come later than the job is taken and perhaps later than
it is complete.  `AwaitsOne` says that an operation that awaits has a job under its index, and has suspended only on one that was not complete
when it did: that is what the mutex of the two critical sections, `AwaitSuspend` and `CompleteJob`, is for.  What `Select` chooses, and what the
rest of an operation's fields hold, has no part in it: the proof leaves both open.

`InstalledUnlessReported` is about the end, when nothing runs any more; its invariant has to say where everything is before.  It has two layers.

*`Structure`* is what holds whatever fails.  The jobs of an operation are complete up to the one it awaits, and those of one that has reached `reset` all are (`ProgressOf`).  A job
that is complete has no file left to do, and one that is queued has begun none (`HonestOf`); what is queued is not complete and is queued once (`QueueLive`).  A coroutine the downloader
resumed is alone on its thread (`Threads`).  And the operations enter `update_sources` one after the other, so that of two that await the index the later one's job is behind
the other's in the queue (`IndexOrder`): without this the download of an index could find the one another operation
has not applied yet in the staging directory, be answered that it is not modified, and skip it (`IndexNotStaged`).  `TypeHolds` follows from `Structure`.

*`OnItsWay`* is asked until something is doomed to be reported (`Doomed`: an operation has reported something, or a file came to an error in a job that is still owed to its
operation).  A job is owed to an operation until it is applied, and `Seen` says of what files, with what status.  Then each package that was asked for, or that out_of_date comes to from
there by the published index (`Wanted`), is still to be selected, or to be queued, or each of its files is in place or seen on its way (`Served`).  This step from a name to a file has three gaps that
other operations could fall into, and `FilesOnTheirWay` closes them: what is staged belongs to a job that is owed and is torn only while it is written (`StagedWell`); a file that was
skipped, because the server answered that the staged one is not modified, comes with another job (`SkippedWell`); and a package that is listed in its new version, and so not selected, has its other file in place or on
its way (`ListedWell`).  Each step is then shown to keep what it does not report: `Begin` drops a staged index and brings a job for another, `Select` with `NotFound` leaves out nothing silently,
`ApplyPackage` moves what arrived or reports.  The last holds with `verbose_logging` on only: without it `install_or_update` drops a package that failed and says nothing, so
`InstalledHolds` assumes `Verbose`.

What `Select` comes to is computed by recursion over the index's dependencies.  The proof shows that the recursive function is there, and the only one (`VisitsExist`, `VisitsFacts`), by
descent along the ranks of `Acyclic`: `PackageInstallAssumption` asks of the worlds that the index lists no cycle, as `out_of_date` would not end on one.  `VisitedFacts` says that the names given
are among what it comes to.  Of the rest of the recursion nothing is needed, as what is wanted is compared with what is in place by the same function.

### Commands

`TypeOKHolds` adds to `TypeOK` that an interpreter that is there has been made, so that its tag is one; `CommandAssumption` lets one be made at least, as the scripts have one from the start.

`Single` makes `commands` a table under layer, component and name, so `Found` gives one descriptor at most for a full name; `Filed` says under what layer and component an interpreter's
commands are; `Past` that no tag is of an interpreter yet to be made, so that a new one finds nothing of its own there.  `Registered` and `Handled` are the two directions between a live interpreter's
handlers and the descriptors, and with `Single` they are `Reachable`.

`AnswersRight` also needs `CallsAlive`: while nothing is broken, handlers under way are of interpreters that are there.  Without it a tag would be unexpired (a handler holds it) and
not alive, and `handle_command` would call into an interpreter that is gone.  It is the one place `broken` is used for.

### The frame loop

`FrameInvariant` is inductive, the statement of `fault = "none"` is not.  Of the queue it needs to know only which functions wait, so the lemmas about
`Append` and `Tail` say what is in the sequence and not where, but for one: `Start` is at the front until it has run, so that nothing else runs before it.
The device's set-up waits exactly until it has run, which makes `ui` and `manager` the device's own when anything else is popped.  When the device is
released `m_updated` stays as the last frame left it: nothing is popped until the next device's frame clears it, and that is why an injection
that was left in the queue finds packet queues again.  `UpdatedOnce` relates the flag to the count of updates, for `FrameComplete`.

### The interface

*Slots.*  `Lists(list, S)` says that a sequence has each member of `S` once and nothing else.  `WindowInvariant` is that the order lists the slots with a window, the free list
those without, and no window has two.  Its lemmas say what `append`, `pop_back`, erasure and `Raised` (the two `stable_partition`s) make of a list; each
step of `get` and `update` is then a change of the sets.  That a slot is free, or there is room for one more, is counted (`RoomForOne`): the slots are in use by different windows, and the one
that asks for a slot has none.  `SlotsAccounted` with the cardinality it states follows.

*The mouse.*  `HolderShown` is about a frame's beginning, and the reasons lie in the frame before.  `HolderOnScreen` says that what holds the mouse *and was
drawn* has its window on the screen; what was not drawn lets go when the next frame begins.  `HolderHeld` says that the button of what holds it is
held or was released since, and that a release is answered when it is drawn.

*The game.*  `GameInputReal` is inductive with the part of `TypeOK` it needs.  The proof has one step for each message; frames change none of its variables.
It needs `EditListens` as a condition only, so nothing of windows is used: whichever window is active, what is taken from the game is entered in `taken`.

### The launch

The game and the launcher's window are joined by `at` alone, and so is the proof.  `LaunchInvariant` says for each place of `LaunchAsync` what it has done to the game: suspended at its
start, spinning at the entry point, loading the core, released.  `Held(place)` distinguishes the game that was created, whose thread is where the launcher put it, from
Steam's, which runs.  `CoreBeforeProgram` and `NothingLeftBehind` are read off it; the second is why "release" and "kill" have conditions on a game that ended in between.

`CallInvariant` says where the launch may be, by the call that has it done: helpers before the last have answered (`HelpersInvariant`), an answer is
read only after it was written (`AnswerInvariant`), and a launch is under way only in the window, or in the helper, that waits for it (`PlaceInvariant`).  `CallsCounted` keeps the number of
calls within what attempts allow, so that `helper` has a place for each.  It is proved for `Spec`, where a helper answers before it ends; one that is
lost in the middle (`LossySpec`) leaves the game as it had it, and no invariant is claimed of that.

### The updater

`UpdaterInvariant` adds `Kept` to `TypeOK`: as long as `windower.exe` is missing and `crossed` is not set, `delete_pending` has the one that was replaced *and no cleanup is at work*.  The second half
is what makes it inductive, since `DeletePending` may empty the directory.  It stays true because a cleanup is a process of `windower.exe`: `StartCleanup` starts none without the file.  The file goes away in
`MoveOut` alone, which puts it in the directory and notes in `crossed` whether a cleanup is at work, and comes back in `MoveIn`; how a launcher leaves the place between its moves, by `MoveFails`, `Denied` or `Kill`,
has no part in it.

### What stays with TLC

- *Liveness*: `HandledWhenNoMoreCome`, `ReadyIsResumed`, `RegistrationTakesEffect`, `CommandAnswered`, `UpdateEnds`, `CancelEnds`, `CoreCatchesUp`.  The prover does not reason about fairness.
- *Installing without `verbose_logging`*: `InstalledUnlessReported` is not claimed of it.
- *`DependenciesLoaded` and `NoneOrphaned` while updates end*: they are not claimed of it; the runs check `LoadedOnce` there.

## What the runs found

`package_install_torn` states what a line of the repository says, and ends in a behaviour of the code that does otherwise; `PROJECT.json` quotes the lines:
a file left staged by a failed download is answered with 304 on the retry, counted as well and not moved.

Statements that fail, kept in their modules with a comment, without a run of their own:

1. `ClientInOrder` (`PacketQueue`): two client packets delayed by one call are pushed to the front one by one and come out in the reverse order.
2. `InjectedFramed` (`PacketQueue`): `verify_packet` lets through 505 to 508 bytes, whose header then gives a size of zero.
3. `OwnDelay` (`Scheduler`): a plain `coroutine.yield` waits for as long as another coroutine last slept; `yield_impl`, which would clear the slot, is not installed.
4. `CycleErrorEnds` (`MCPackageGraph`): the walk that names a cycle follows the first gray dependency, may enter a cycle its start is not on, and
   never ends.
5. `LoopInside` (`AddonManager`): an addon that throws is unloaded out of the vector the loop is in; the next is skipped, and the loop reads past the end.
6. `AmbiguityIsReal` (`CommandManager`): the command of an addon that is gone counts as a second match as long as nothing removed it.
7. `CallEnds` (`RemoteLaunch`): a helper that ends before it answers leaves its caller waiting (`Program.cs:368-376`), where `DOTNET10_MIGRATION.md:18-19` has it that
   the window and the helper cannot wait for each other for ever; and a launch waits, until cancelled, for a game that has ended to read its settings.
8. `RestartEnds` (`Updater`): with `windower.exe` and `windower.dll` as `README.md:26-27` ships them, the version compared is that of `windower.dll`, which no update
   replaces.  Once a newer launcher is published, each update replaces `windower.exe` and restarts, for ever.

Seen in the models or while writing them:

*Scripts, events, packages*

- a coroutine that schedules another may move the vector under the loop (`scheduler.cpp:160`; the model's `"broken"`);
- a handler that unregisters itself during a trigger makes the compaction drop another client's handler (`event.lua:98-103`);
- unregistering before the server's coroutine ran is refused, and the handler is then registered anyway; registering again
  registers it twice (`event.lua:138`, `165`, `304-318`);
- a client that drops its event object is unloaded, as if its handler had failed, at the next trigger (`event.lua:296-309`);
- a later round of `install_or_update` that finds nothing to do returns an empty list, and what earlier rounds changed is
  not reloaded (`package_manager.cpp:757-760`);
- a failed download is reported only with the setting `verbose_logging` (`package_manager.cpp:800`), and errors in dropped futures are lost;
- `out_of_date` does not mark what it has visited: a source that lists a cycle keeps it going, with the mutex held (`package_manager.cpp:698`);
- the words of the time in a request's header are masked to eight bits (`downloader.cpp`, `add_header`), so that a file in place is always sent again;
- the handler of a script that fails calls `raise_error` with a package there is none of (`modules/command.cpp:104`).

*Input and windows*

- the active window is not looked at when its slot is given back: a closed window stays active, and its edit keeps taking keys;
- a window opened in that slot inherits the focus and its handler, is taken to be active already, and is not brought forward;
- a key pressed for the game whose release an edit takes stays down for the game, and so does a mouse button released over a window or while one is active;
- releasing one of the two shift keys lifts the key for both;
- no bind string is ever accepted (`binding_manager.cpp:248`).

*Launcher*

- `FixAccessControl` names two methods, so that the elevated call always answers with an error, and the launcher ends;
- cancelling an elevated launch throws a plain `Exception` in the window (`Program.cs:390`), and the launcher ends;
- the cancellation's event is named after the launcher: a helper that lingers makes the next launch look cancelled;
- a launch that failed leaves the game it created running, without the core if that was what failed;
- `WaitForConnection` (`Program.cs:339`) takes no token and no time limit;
- a cancellation is lost when the collector takes the handle the canceller left before the helper has opened the event (`Program.cs:362-365`, `290-291`);
- a second move that fails, for any reason, after the first leaves no `windower.exe`: the `IOException` is swallowed (`Updater.cs:310`), the cleanup cannot be started, the launcher ends, and
  no code moves the file back; a launcher that is ended between the moves leaves the same;
- a move of the core that is denied after the launcher's were made lets the helper begin with the launcher's again (`Updater.cs:263-272`): it moves the new `windower.exe` away and has no download to put there;
- a launcher that restarts after an update may find its download, or `delete_pending`, deleted by the cleanup it has just started itself;
- one ended while it saves `version.xml` leaves it torn, and every later start throws (`Updater.cs:184`); a torn `profiles.xml` is read as no profiles,
  which the next save makes true (`ProfileManager.cs:58`);
- a core that is missing is downloaded even without a document, since 0.0 is less than 0.0.0.0.

## What is not modelled

- *Contents*: of packets, files, manifests, settings and messages, except what a property depends on.
- *Drawing, text and its layout*: a frame is computed from its inputs, with state in the context only.
- *The binding of Lua*: a discipline of the stack, kept by guards.
- *Hooks, trampolines, wrappers, scanning, crash dumps*: machine code and calls of the system.
- *Lua libraries without shared state* (serializer, unicode, os), *string tables*.
- *Textures and profiles*; *the launcher's views and lookups in the registry*.

Much of the source by its length is of these kinds: the tables in `unicode.cpp`, wrappers that forward every method of an
interface, drawing, headers of other people's interfaces.  The definitions stand for about a tenth of the lines.

Inside modelled components, left out:

- packets and events: a header that gives more than is left of its buffer, which `process_buffer` goes on from (`packet_queue.cpp:118-121`); proxies and values sent through channels;
- installation: sources that are added and removed while an operation runs; the destruction of the downloader; the removal of
  a package's old files (`package_manager.cpp:796-842`);
- the scheduler: wrap-around of the frame counter, which the comparison of waits is written for and the bounds do not reach;
- commands: what an interpreter does inside another one's handler, through events; the vector that moves under the `std::function` being called; the end of
  `ffximain`, which takes the client's commands back; parsing, which is in the choice of what is typed;
  the dependents that are unloaded with an addon, each by a step of its own in `AddonManager`;
- addons: commands that coroutines give inside `run_until_idle`; the reset of the package list and the start of the reload that follows it are one step (`Updated`);
- the frame: an interface that cannot be made in a device's set-up; `/exec` and `/eval` given in the console before there is a game; a device that is released before its first frame, which would leave its
  set-up dangling; the launcher's viewer, which draws with DirectDraw and never clears `m_updated`, updates once;
- the interface: layers, depth, parents, layout mode and tabbing from window to window; `SetCapture`; more than one button of the mouse, and the message of
  a second click (`context.cpp:765`); windows that let clicks through (`window.cpp:574`); messages of system keys, which an edit does not keep (`edit.cpp:94-98`); bindings;
- the launch: what is in the settings; two launchers with games of their own share nothing here;
- the updater: a download in parts; a server whose version and files disagree; an elevated helper that goes on after its launcher has ended.

Hazards that no property covers have a note in `PROJECT.json`.

## The plan

Done: the packet pipeline, the scheduler, packages and addons, events, installation, commands, the frame loop, the interface's input, the launch and the
updater, with the proofs above.  What is left, in this order:

1. What a manifest requires beyond the index: that a package an operation installed has its required dependencies once all is quiet.
2. An abstract map from names to handlers that `CommandManager` implements.
3. Layers, depth and tabbing in `WindowManager`.
4. `TextureCache`: entries in use and aged.
5. `Profiles`: two launchers that each read the file and write it as a whole.
6. Sources that come and go, as an extension of `PackageInstall`.
7. Bindings, once a bind string can be accepted.

Each module gets one run for its properties; bounds are chosen to keep a run near a minute on two workers.
