# A verification project for wgtf

This directory specifies the concurrent and re-entrant parts of the framework in
TLA+:

* the command manager of `core_command_system`, with its two threads, its shared stack
  of command frames, its batches and its undo history, and the undo data the history is
  made of;
* the environments the command manager keeps its state in, and the reader/writer lock
  of `core_common` that protects them;
* the logging system and the background worker, each alone and as one application
  runs them together;
* the dependency system and the plugin manager: interfaces that come and go while
  plugins are loaded and unloaded;
* the filtered list model, which brings its index map up to date on detached threads.

TLC checks the specifications on small instances, TLAPS proves the results listed below
for all values of the constants.

Paths below are relative to `src/src/core/` unless they start with `src/`.

## The system and its parts

| component | state it keeps | operations | hard part |
|---|---|---|---|
| **command manager** `lib/core_command_system/command_manager.cpp` | per environment: `commandFrames_`, `currentFrame_` (thread local), `pendingHistory_`, `history_`, `index_`, `previousSelectedIndex_`; global: `currentIndex_`, `ownerWakeUp_`, `exiting_`, the worker thread | `queueCommand`, `waitForInstance`, `beginBatchCommand`/`endBatchCommand`/`abortBatchCommand`, `undo`, `redo`, `moveCommandIndex`, `removeCommands`, `getHistory`, `update`, `fini`, the worker's `threadFunc` | two threads push and pop frames of one stack and release the mutex around all user code; calls nest |
| **command instances and undo data** `command_instance.cpp`, `reflection_undo_redo_data.cpp`, `lib/core_reflection_utils/commands/reflectedproperty_undoredo_helper.cpp` | status, error, children, `undoRedoData_`; per data the list of recorded properties | `execute`, `undo`, `redo`, `consolidateUndoRedoData`, `consolidateChildren`, the property listener | data moves to the parent when a frame is popped; the order of merging decides what undo restores |
| **built-in commands** `batch_command.cpp`, `undo_redo_command.cpp`, `compound_command.cpp` | `subInstances_` | `execute` | Begin and End are commands of their own |
| **reader/writer lock** `lib/core_common/wg_read_write_lock.*` | `writer_`, `readers_` | lock and unlock through two guard classes | wake-ups, nested read locks |
| **environment manager** `lib/core_environment_system/env_system.cpp` | environments, component states, the active environment | create, remove, switch, reset, register a component, locked access to a state | callbacks before and after a change, a write lock against long-lived read guards, components that come and go |
| **logging system** `lib/core_logging_system/logging_system.cpp` | message queue, loggers, the logging thread | log, flush, shutdown, register a logger | a wait without a predicate, reads outside the mutex, loggers that go while they are called |
| **background worker** `plugins/plg_editor_interaction/private/background_worker.cpp` | job queues of the worker threads and the foreground | queue, foreground update, destructor | threads that go to sleep while the destructor stops them; jobs that queue jobs |
| **object manager** `lib/core_object/object_manager.cpp` | objects by id, references, listeners | register, look up, deregister from a deleter | two locks, a deleter that removes by id |
| **interface and dependency system** `lib/core_dependency_system/`, `lib/core_generic_plugin_manager/default_context_manager.cpp` | interfaces and listeners of a context, cached pointers, executors | register and deregister an interface, init and fini functions | notifications nest, and change the list of those notified |
| **plugin manager** `lib/core_generic_plugin_manager/` | plugins and their states | load, initialise, finalise, unload, destroy, for a list of plugins at a time | plugins that depend on one another in a circle, and leave work to destructors |
| **signals, thread local values, object pools** `lib/core_common/` | slots; values; free lists | connect, emit; get, set | slots disconnected during an emission |
| **filtered list model** `lib/core_data_model/filtered_list_model.cpp` | index map, filter, detached threads | set the source or the filter, refresh; source events | scans against changes of the source, the filter and the data |
| **reflection, other data models, variant, serialisation** | definitions, items, values | | single-threaded data transformation |
| **Qt bindings, Python, plugins, applications** | | | user interface and start-up code |

How they interact: the application registers commands, calls the command manager
on the owner thread only (`assert` in `queueCommand`, `TF_ASSERT` in `flush`) and
ticks `update`; commands call it back from either thread while they execute. Every call first takes a
`LockedState` of the active environment, that is a nested read guard of the
environment manager's lock. Commands set reflected properties, whose accessors
report to the listener that the executing instance has connected; the listener
keeps the undo data. The history is a collection that views show. When the environment
changes, the manager calls the command manager back before and after, which lets go of
its pointer into the state and takes a new one.

Every plugin reaches the others through the interfaces of the global context. Its own
context forwards the notifications to the holders of its `Depends` bases, which cache
pointers, and to its executors, which call init and fini functions; these register
interfaces in their turn. Jobs of the background worker and the owner thread log; the
logging thread calls the loggers. Views connect to the signals of a filtered list, which
connects to those of its source.

## Modules

| module | what it is |
|---|---|
| `SharedLock` | what a reader/writer lock promises |
| `ReadWriteLock` | `wg_read_write_lock` and its guards, one action per turn of a member function under the mutex; implements `SharedLock` |
| `MCReadWriteLock` | three threads, four guards |
| `ReadWriteLockProofs` | the inductive invariant of the lock, the theorems that follow, and that it implements `SharedLock` |
| `UndoRedoData` | recording, merging, undo and redo of property values, as operators |
| `CommandManager` | the command manager, both threads and the application |
| `CommandProperties` | what it promises |
| `CommandManagerProofs` | recursion by numbers, the undo data, and the frame discipline of the two threads, proved |
| `CommandHistoryProofs` | the order in which commands finish, where the indices into the history point, what enters it, and the type of the state, proved on top |
| `CommandDocumentProofs` | that the history accounts for the document, proved on top of both |
| `MCCommandManager` | the command classes of the runs |
| `EnvManager` | the environment manager over a `SharedLock`, its components and `LockedState`s |
| `MCEnvManager`, `EnvManagerProofs` | two environments and two holders; the invariant and its theorems |
| `MessageChannel` | what the logging system promises: messages reach all registered loggers at once, in order and once |
| `LoggingSystem` | the logging thread and its clients; implements `MessageChannel` |
| `BackgroundWorker` | the pool, the foreground queue and the destructor |
| `Services` | both as one application runs them: jobs log and queue jobs |
| `MCServices` | two workers and one logger |
| `ServicesProofs` | the logging system's invariant and refinement; the same for the composition, and the worker's |
| `ComponentContext` | the dependency system: interfaces, listeners and nested notifications |
| `PluginManager` | the steps of the plugin manager over it |
| `MCPluginManager`, `PluginManagerProofs` | three plugins in a circle; the invariant and its theorems |
| `FilteredView` | what a view of a filtered list may see |
| `FilteredListModel` | the filtered list model, its detached threads and its source; implements `FilteredView` |
| `MCFilteredListModel`, `FilteredListProofs` | lists of three items; ownership of the mutex, that map and view mirror the source and scans keep their place, and the implementation of `FilteredView`, proved |

### `CommandManager` and the code

`workerMutex_` is released and taken again many times during one call, and calls
nest: `processCommands` runs a command, which queues a sub command, which runs
`processCommands`, which waits for the other thread. The state of a thread is
therefore a stack of *activations*, one for each place at which a call can be
suspended without the mutex (the header of the module lists them), and a step
runs from one acquisition of the mutex to its next release.

| state | code |
|---|---|
| `stack` | the call stacks of the owner and the worker thread; `prev` is the local `previousFrame` of `processCommands` |
| `commandFrames`, `currentFrame` | `commandFrames_`, `currentFrame_`; a frame is named by its instance, 0 is the root frame |
| `instances` | every `CommandInstance` ever made, numbered in the order of `queueCommand` |
| `document` | the reflected properties; every write of a command stores the number of its instance, so that values tell their writer |
| `pendingHistory`, `history` | `pendingHistory_`, `history_` |
| `currentIndex`, `previousSelectedIndex`, `index` | the three copies of the position in the history |
| `ownerWakeUp`, `worker`, `exiting` | `ownerWakeUp_`, where the worker is in `threadFunc`, `exiting_` |

| action | code |
|---|---|
| `QueueCommand` | `queueCommand` up to its `processCommands` call; used by every caller |
| `LoopEnds`, `TakeCommand`, `TakeUndoRedo` | one turn of the loop in `processCommands`; `TakeCommand` includes `pushFrame`, `LoopEnds` the owner's transfer of the pending history and `updateSelected` |
| `ExecWrite`, `ExecQueue`, `ExecBatch`, `ExecWait`, `Execute` | what a command does in `execute()`, and its return |
| `SpinProcess`, `PopFrame`, `Rollback` | the wait for sub commands, `popFrame`, and the undo of a failed command, which `popFrame` runs without the mutex |
| `WaitProcess`, `WaitNext`, `WaitStart` | `waitForInstance` |
| `Flush`, `UndoCall`, `RedoCall`, `MoveCommandIndex`, `MoveDone`, `UndoEntry`, `RedoEntry`, `UndoRedoDone`, `UndoRedoFails`, `RemoveCall` | `flush`, `undo`, `redo`, `moveCommandIndex`, `undoRedo`, `removeCommands` |
| `AppQueue` ... `AppFini`, `UpdateDone`, `FiniExit`, `FiniJoin` | the calls of the application on the owner thread |
| `WorkerTurn`, `WorkerWoken` | `threadFunc` and its condition variable |

Data that the properties do not tell apart is abstracted: command arguments,
return values, descriptions and messages are absent, a property is a model value,
and error codes are `"ok"`, `"failed"` and `"batch"`
(`COMMAND_NO_ERROR`, every failure, `BATCH_NO_ERROR`). A command is described by
what the manager asks it (`threadAffinity`, `customUndo`, `canUndo`) and by what
its `execute()` does: at most one write, any number of sub commands, batches and
waits within the bounds, success or failure. Custom undo data is modelled as
data that restores what the command itself has set and that is never merged.

`undo()` and `redo()` of an instance stop at the first entry that fails, and a reflected entry
stops at the first property that does; what was written back by then stays (`Stopped`,
`StoppedUndo`, `StoppedRedo`). `UndoRedoFails` is such a step of `undoRedo`, after which the
index stays where it got to; in `Rollback` the undo may stop half-way too, since `popFrame`
ignores its result (`Undoable`).

### `EnvManager` and the code

Every call but the ones that return a `LockedState` is made on the main thread, so the
call in progress and its stage are one variable: `pre` (before `firePreEnvChange`), `lock`
(before the write guard), `locked` (under it), `post` (before `firePostEnvChange`), `erase`
(environments still to be taken out of `envMap_`, which happens without the lock). The
lock is an instance of `SharedLock`.

| state | code |
|---|---|
| `created`, `active`, `states` | `envMap_`, `activeEnv_`, the component states each environment holds |
| `components`, `ready` | `envComponentMap_`; those between `initEnvComponent` and `finiEnvComponent` |
| `epoch` | how often the states of an environment were destroyed, so that a stale pointer is told from a fresh one |
| `held` | what each `LockedState` refers to |
| `told` | the last callback about a change each component got |
| `selected` | the command manager's `previousSelectedIndex_` and what it points into |

`CommandManagerImpl::fini` (286-309) does not reset `previousSelectedIndex_`, nor does the
environment manager when it deregisters the component: from then on the pointer dangles, in
the model too. `PointerFollows` is about the time from `init` to `fini`.

### `LoggingSystem`, `BackgroundWorker` and `Services` and the code

A step ends where a thread releases a mutex, sends a notification or reads something it
does not hold the mutex for. `at` says where `LoggingSystem::process` is, `client`
which call each thread is in; `loggerMutex_` is held exactly while `at` is in the loop over the
loggers. `flush` is one step to the wait and is released by `NotifyFlush`, because the wait
has no predicate; `shutdown` is four: it finds the queue empty, stores `running_`, notifies
and joins. In `BackgroundWorker`, `runner` says where `backgroundUpdate` and
`foregroundUpdate` are, `queuing` where the two queue functions are, whose test of `exit_`
is not under the mutex of the push. A job is taken under the mutex (`TakeJob`) and called after
its release (`CallJob`), also when `exit_` has been set in between. `Services` lets jobs log and queue jobs, and
the owner do everything `LogListener` and the plugins do.

### `ComponentContext` and `PluginManager` and the code

All runs on one thread, but calls nest: an init function registers an interface, whose
notification calls another init function, and so on. `active` is the stack of these calls:
a `registered` entry remembers who was called (`called` in `onInterfaceRegistered`, which
repeats until the list of listeners is stable), a `deregistered` entry the copy of the
listeners it has still to call, `init` and `fini` entries are functions of executors.
`agenda` is what is left of a step of the plugin manager: each turn is a
`PLG_CALLBACK` of one plugin, and has to wait until `active` is empty.

| action | code |
|---|---|
| `registerInterface`, `deregisterInterface`, `RegistrationDone`, `DeregistrationDone` | the functions of `DefaultComponentContext` |
| `HolderRegistered`, `HolderDeregistered`, `Holds` | `DependsImpl` and its constructor |
| `ExecutorRegistered`, `ExecutorDeregistered`, `Execute`, `InitFunction`, `FiniFunction` | `WGTCallbackExecutorImpl` |
| `runLoadStep` ... `runDestroyStep` | the steps of `GenericPluginManager` |
| `LoadPlugin`, `CreatePlugin`, `PostLoad`, `UnloadPlugin`, `DestroyPlugin`, `DestroyContext` | one plugin's turn: its context, the constructor of its `PluginMain` with static executors, the functions that register and deregister, their destructors |

### `FilteredListModel` and the code

`Main` owns the model; a refresh that does not wait starts a detached thread out of
`Refreshers`, which runs `remapIndices` (`CountUp` to `FilteringEnd`, one `ScanItem` per turn
of the loop). `eventControl` is the owner of `eventControlMutex_`, which the pre handler of a
source event takes and the post handler releases; so a source event is two actions
(`preItemsInserted`, `postItemsInserted`, and so on) between which threads run but do not
scan. `view` is what a client shows that applies every signal it is sent; the model's own
`item` and `size` are read through `indexMap`. Item indices wrap at `SizeModulus`, which stands for
the width of `size_t`, and `remapping_` at 256.

`setSource` waits until `remapping_` is 0 (`RemappingHalted`) and drops the source after that
(`Disconnect`), so a thread that has not counted itself yet may scan in between and afterwards.
The source may die at any time (`SourceDestroyed`), during a scan too; a scan whose source has
gone calls through a null `model_`, and in the model takes no further step. The destructor of the
list model is `setSource(nullptr)` and nothing else. `shifted` is a history variable: a removal
has lowered entries of items that stayed where they were, and no source has been set since.

Definitions whose name ends in `Faulty` are deliberate mistakes. Nothing in the
specifications refers to them; `PROJECT.json` names, for each property, a
definition and a faulty variant with which TLC finds the property violated.

## What the runs check

| run | configuration | bounds | states | what it shows |
|---|---|---|---|---|
| `rwlock` | `MCReadWriteLock.cfg` | 3 threads, 4 guards, one thread nests two | 1 004 | the lock implements `SharedLock`; exact counters; no lost wake-up; a nested read lock never sleeps; every constructor returns |
| `threads` | `MCCommandThreads.cfg` | 3 commands (and the undo job), frames nested three deep | 176 214 | frames stay consistent across the two threads, completion in queue order, sub commands before their parents; every command completes and every call returns |
| `history` | `MCCommandHistory.cfg` | 5 instances, nesting three deep | 839 731 | the history accounts for the document at every rest point; the assertions of `popFrame`, whose frame may have batches open, and `undo`'s; no command is queued or run twice; entries that are applied are never erased |
| `recovery` | `MCCommandRecovery.cfg` | 4 instances, 2 properties, batches of one level | 1 205 986 | with aborts, jumps, undo and roll back that stop half-way, removals and shutdown: history of whole root commands, agreeing indices, batches rolled back completely leave nothing |
| `filtered_list` | `MCFilteredListModel.cfg` | lists of up to 3 items of 2 kinds, 2 detached threads, 5 calls or source events | 672 482 | until a removal of hidden items lowers entries it should not: the index map stays valid, the signals describe it, the list implements `FilteredView`; scans keep their place while their source is there; the list settles on what the filter accepts, unless a scan has crashed or the threads are miscounted |
| `services` | `MCServices.cfg` | 2 workers, 1 logger, 2 messages, 2 jobs | 448 222 | loggers are alive when called, shutdown delivers, no job is lost or called twice, none is under way after the join, everybody is served; implements `MessageChannel` |
| `environments` | `MCEnvManager.cfg` | 2 environments and the default one, 2 components, 2 holders, 7 calls, 3 `LockedState`s | 111 089 | held states are alive and active, no component lacks a state, callbacks pair up, the command manager's pointer is valid while it is registered, every call returns |
| `plugins` | `MCPluginManager.cfg` | 3 plugins in a circle, 11 steps | 85 905 | init and fini functions match what is registered, cached pointers are current, nothing is left behind |
| `open_batch`, `move_index`, `abort_race` | `MCCommandOpenBatch.cfg`, `MCCommandMoveIndex.cfg`, `MCCommandAbortRace.cfg` | up to 5 instances | | the disagreements below |
| `hidden_removal` | `MCFilteredHidden.cfg` | as `filtered_list` | | the disagreement below |

Why the bounds are enough for the cases that matter: three commands nested three
deep contain a command of each thread that queues a command for the other one and
waits for it, in both directions, while an unrelated command is queued behind them
on the root frame; five instances contain a batch with two
commands, or a batch opened by a command that runs inside another batch, followed
by undo, redo and a jump; four contain two commands and a jump over both, whose undo fails at
the second. One property is enough because writes carry their writer's
number: a wrong order, a lost or a repeated write is visible on a single property; the run
`recovery` has two, so that undo data can be written back in part. The
classes of commands of each run are in `MCCommandManager`.

`MaxInstances` bounds the commands the application and the commands queue, `MaxFrames`
how deep commands nest; nothing else is bounded. Deadlock is not
reported because the application may stop when `MaxInstances` is used up. The other runs
do without it for the same reason: their calls are bounded.

The bounds of the other runs. Two detached threads are what `refresh` lets be counted, and a
third call meets its early return; three items are a shown one between two hidden ones
and the converse, and five calls are a source, a filter and three changes or refreshes in any
order, or a refresh that a `setSource` overtakes, followed by a refresh and another `setSource`. Two workers can be asleep and awake, or both asleep, when the destructor comes, and
a job of one can queue a job for the other; two messages are one in the loop over the loggers
and one behind it, which is what `flush` and `shutdown` have to tell apart. One logger is
registered, called and unregistered; the order between loggers is proved, not run. Two
environments besides the default one are the one left and the one entered, or the one removed
and the active one; seven calls include registering a component before, between and after
creating environments, switching and removing. Three plugins form the shortest circle in
which an init function triggers another one that triggers a third; eleven steps load, unload
and reload, two of them again. One plugin's holder is constructed late, and two leave
deregistering to the destructor of their context.

`CanRedo` in the application is asked before the call, as the callers in
`plugins/plg_history_ui` and the QML actions do.

### Fairness

`FairSpec` of `CommandManager` has weak fairness of each thread's next step (both
threads are scheduled by the operating system, and neither holds the mutex for ever)
and of `AppUpdate`, which the application calls on every tick. There is no fairness of any
other application call. Commands are assumed to return from `execute()`, which the weak
fairness of a thread contains because `Execute` is the only step left once the bounds
are used up. In `ReadWriteLock` each guard's own steps are weakly fair, that is,
threads leave their critical sections and notified threads run. Since every guard is
constructed once, `EveryCallReturns` says nothing about starvation by an endless
stream of readers, which the code does not exclude.

`EnvManager`: the main thread goes on with a call it has begun, and every `LockedState` is
dropped in the end. The number of `LockedState`s is bounded, so `CallsReturn` excludes
neither their starving a switch. `Services`: the logging thread and each runner are scheduled,
and jobs return; calls of the application are not fair, but the application goes on updating,
since a job in the foreground queue runs in `Update`. `FilteredListModel`: a call that has begun
goes on, and so does each detached thread; there is no fairness of calls or source events.
`PluginManager` has no fairness and no liveness: everything runs on one thread.

### Disagreements between code and comments, assertions or tests

* `open_batch`: waiting for a command inside an unfinished batch can end up waiting
  for that batch itself (`waitForInstance`, comment at
  `command_manager.cpp:459-468`).
* `move_index`: `moveCommandIndex` called without a flush erases entries that are
  still applied (`plg_history_ui/history_object.cpp:152`,
  `core_data_model/dialog/reflected_dialog_model.cpp:79`).
* `abort_race`: an aborted batch is undone without the mutex after its frame is
  gone and overwrites the next command's write (expected otherwise by
  `unit_test/test_command_system.cpp:65-107`).
* `hidden_removal`: when only items go that are not shown, `findItemsToRemove` sets no offset,
  which is zero then, and every entry of the map is lowered, also those of shown items before the
  removed ones, the first below zero to the largest number there is (`filtered_list_model.cpp:457-468`,
  comment at 42-44). With nothing shown before the removed items the result is right. The
  properties of the run `filtered_list` are about the time until such a removal, and from the next
  source on.

Three more are stated by definitions which TLC refutes and no run lists:

* `RedoAsserts` of `CommandProperties`: a command that is still running when `redo()` is called enters the
  history during its flush, and `TF_ASSERT(canRedo())` fails (`command_manager.cpp:607`).
* `RemappingKilled` of `FilteredListModel`: `setSource` means to kill any remapping (`filtered_list_model.cpp:598`), but
  not one whose thread has not started yet. That thread scans while the source is dropped;
  or `initialize()` resets `remapping_` although the thread has counted itself, whose decrement
  then leaves 255, and refreshes are dropped and the next `setSource` spins for ever. The model has these
  threads; `Settles` excludes what follows from either (`Crashed`, `Miscounted`).
* `PointersCurrent`, when two members of `Implementations` have the same `Face`: a `Depends` is "always
  kept current" (`depends.hpp:322-323`), but drops to null when the implementation it has
  cached goes, although another one is registered. The run `plugins` has one implementation of each interface.

Further weaknesses met on the way, most of them listed as hazards in `PROJECT.json` with
the reason why no run states them:

* `update` clears `ownerWakeUp_` too late, `fini` joins a worker that waits for the
  owner, and an abort inside an aborted batch leaves its writes behind;
* `LoggingSystem::flush` waits without a predicate: it can return although messages are left,
  when the notification of an earlier round arrives after the wait began (`FlushDelivers`,
  defined in `LoggingSystem`, which TLC refutes), and a flush after `shutdown` with a message
  left waits for ever;
* `FilteredListModel::setSource(nullptr)` and the destruction of the source leave
  `indexMap_` as it was, so `size()` is not 0 and `item()` uses a null source;
  `postItemsInserted` releases `indexMapMutex_` before it shifts the map;
* `std::lock_guard<std::mutex>(...)` in
  `lib/core_data_model/filtering/tokenized_string_filter.cpp:39` and `:111` is a temporary and
  protects nothing;
* a plugin that fails to load has a null handle in the list of the step, which later turns
  and steps act on; the result of `PostLoad` is dropped by `notifyPlugins`;
* `fini` of the command manager leaves `previousSelectedIndex_` dangling once its component is
  deregistered;
* an undo that fails leaves what it has written back in the document, and the history no longer
  accounts for it; a roll back that fails is not noticed;
* the jobs of the background worker never run where `hardware_concurrency()` is below 2;
* a `Depends` constructed by a fini function caches the pointer that is going.

## What is proved

**The lock.** The proofs of `ReadWriteLockProofs` hold for any finite set of guards and any
assignment of guards to threads (`GuardsAssumption`). The inductive invariant `IInv`
is `TypeOK` with `CallDiscipline` (who may be inside a constructor, and that a thread
that asks for the write lock holds nothing), `Exclusion`, `ReadersCounted` and
the wake-up condition. `CallDiscipline` is needed because a sleeping reader only
excludes nested reading when no thread takes the lock for writing while it reads; the exact
count is needed because only the reader that brings `readers_` to zero notifies.
`StepPreserves` goes through the actions one by one; the theorems follow.

The abstract lock is implemented by the map that takes a live read guard for reading and the
live write guard for writing (`LockImplementsShared`): a wait, a wake-up and a notification
are stutters.

**The environment manager** is specified over that abstract lock. The invariant of
`EnvManagerProofs` adds to the type what each stage of a call knows (`CallOK`), that the
write lock is held exactly in the stage `locked` (`LockOK`), a version of
`StatesComplete` that also holds under the write lock, and a version of `PointerFollows` that says in which stages
the command manager, while it is registered, has let go of its pointer. All four safety properties follow for any environments,
components, holders and numbers of calls. The heart of it is that only `EraseEnvironment`
destroys states without the lock, and only of environments that are not active, which is what
a `LockedState` refers to.

**The logging system.** Its invariant, in the first half of `ServicesProofs`, says that the queue is exactly the
messages logged and not yet popped, in order; that the loop over the loggers has only registered
ones left, which holds because registering waits for the loop; and how `running_`, the
stages of `shutdown` and the stage of the thread go together. `ShutdownDelivers` needs the last:
when the thread leaves, the queue it has found empty may hold messages logged
since, but none from before the call of `shutdown`. `LoggingImplementsChannel` maps the end of the
lookup of the loggers to the delivery of the channel. The second half of the module shows that a behaviour of the
composition is a behaviour of the logging system (`RunsLogging`), from which these results carry
over. The worker's invariant says where every job is, in one queue, taken by one thread, or called
and in which stages threads can be when the destructor has joined them (`JobsAccounted`). That no job is called once `exit_` is set is not true, and not claimed: a thread may have
taken one just before.

**The plugin manager.** `PluginManagerProofs` is about any finite set of plugins (`PluginAssumption`)
with any interfaces, dependencies and lists given to the steps. The inductive invariant has these
parts besides the type:

* `Phases`: the calls in progress either all bring interfaces or all take them away, so a
  notification is never overtaken by its opposite;
* `Sequenced` and `Living`: the turns that are left of a step come in their order, and they and the
  plugin's state say who has a context and who has a `PluginMain` that listens;
* `Backed`: what an initialised executor needs and what a holder caches is registered. This alone is not inductive, because
  an interface goes when `deregisterInterface` has called its listeners;
* `Leaving`, therefore: as long as such a call is in progress, everybody who uses the interface is among the
  listeners it has still to call, or its fini function is running further up the stack.

`NothingLeftBehind`, the type, and the first halves of `CallbacksMatch` and `PointersCurrent`
(`BackedAlways`) follow for every value of the constants. The second halves say who is served when a step is
over. They rest on `Asked` and `Answered`: who could be initialised, or could have a pointer, and is not is still concerned by a
call in progress; and on `Finalised`, why a fini function is running. They have hypotheses, which the run's
three plugins satisfy:

* `Unique`, no interface has two implementations. When one of two goes, `onInterfaceDeregistered`
  resets a pointer to it, and finalises the executors that need the interface, without asking
  for the other one. TLC refutes both properties for two implementations;
* `Needy`, for `CallbacksMatch` only: every executor needs something. `initExecutor`
  asks the registered interfaces one by one, so an executor that needs nothing is
  not initialised while there is none.

**The filtered list.** The theorems of `FilteredListProofs` have no hypothesis besides the
assumptions on the constants: threads may be overtaken before they start, the source may die under
a scan, and hidden items may be removed. The first invariant says that only the owner of the mutex
scans (`MutexOwned`), although `setSource` and `onDestructing` take nothing. That
`remapping_` is the number of counted threads is not an invariant, and nothing rests on it but `Settles`.

On this rests the second invariant, `MInv`, which says what the index map is worth at every moment until
a removal lowers entries it should not (`shifted`), and again from the next source on. The lists
`setSource` is called with are lists of distinct
items in bounds (`SourcesAssumption`). `TypeOK`, `MapPointsIntoSource`, `ViewMirrorsModel` and
`ScanKeepsPlace` follow for any items, kinds, filters, sources and threads; none of them is
inductive. `MInv` consists of

* `MapOK`: the map, ascending and within the source, mirrors it in the view; but between the two signals of a removal the map is
  already shifted while the source and the view are not, and mirrors what will be left of both;
* `ScanOK`: a scan stands at the lower bound of the item it judges (`CutAt`), so that one test of the map
  tells whether the item is shown, and the new entry goes where the scan is; and it reaches the end
  of the list unless it was stopped, so that the last `resize` cuts nothing off;
* `DataOK` and `CallOK`: the types of the variables, and that the ranges the pre signals announced are still
  in the source.

The lemmas say what the handlers' operations do to any list: `InsertedFacts` and
`RemovedFacts` where every entry goes, `LowerBoundFacts` that `lower_bound` cuts an ascending map in two,
`RangeCount` that the shown items of a range are adjacent, `AscendingFacts` that indices are collected in order, and
`InsertOne`, `RemoveOne`, `InsertMany` and `RemoveMany` that a changed map still mirrors a changed
list. In `RemoveMany` the unsigned subtraction is exact (`NoWrap`) because the entries behind the
removed range are at least its end, which is what a removal that sets `shifted` does not give.

`ListImplementsView` says that the list implements `FilteredView`. The end of a scanned item is
`Correct`, or a stutter when the view was right about it; the three `post` handlers are
`InsertItems`, `RemoveItems` and `ChangeItem`; `ReplaceSource` is `Disconnect` or `Connect`; `setFilter`
is `ChangeFilter`; what threads and locks do besides is a stutter. The proof needs a third invariant, `SourceOK`: the
items of the source are distinct (which is why `SourcesAssumption` says so of the lists given to
`setSource`), and while a removal is announced, the entries taken out of the map are those whose
items go. `FilteredView` says which items a list has left with a predicate, `Selects`, about the
positions they come from, because `SelectSeq` means nothing to the provers. `MapSelects` shows that
a view that mirrors a source through an ascending map selects the items the map points to, and
the lemmas from `PointsInserted` to `OneOff` say what each handler does to that set; so
every step comes down to a statement about which indices are in the map (`StepPromised`).

**The command manager.** `CommandManagerProofs` proves `FrameDiscipline` and `QueuedOnce` for every
value of the constants: any command classes, any set of calls, any bounds. Neither is inductive. The invariant `IInv` of that module adds

* `Shape`, the part of the type invariant that is used: what the activations hold
  besides the owners' instances is left untyped on purpose, which keeps the argument
  free of facts about groups, histories and documents;
* `Owned`, the converse of `FramesOwned`: every activation in `exec` or `spin` has its frame,
  without which popping the back frame could strand another thread;
* `Distinct`, frames of different instances and the order of a thread's frames;
* `Chained`, that the `previousFrame` an activation remembers is the frame of the
  activation below it, without which nothing is known of `currentFrame_` after a
  `popFrame`;
* `Queued`, that an instance is queued once and not while it runs, without which a frame pushed for it
  might not be the only one.

A step either changes no frame and no owner (`NeutralStep`), takes an instance out of the back
queue (`DequeueStep`), queues a new one (`EnqueueStep`), starts a command (`StartOwner`,
`StartQueued`) or ends one (`EndOwner`); these lemmas are about the frames alone. The
lemmas about activations say which of the pushes, pops and replacements touch an owner, and
`ThreadStepPreserves`, `OwnerStepPreserves`, `WorkerStepPreserves` and
`AppStepPreserves` sort every action into one of the kinds.

Three more layers stand on `IInv`, each inductive when the ones below it hold. The steps of the
first are in `CommandManagerProofs`, the rest and the theorems in `CommandHistoryProofs`.

* `OInv` is about order: what is in a queue has status Queued and
  what is in a frame or open as a batch is Running (`Statuses`); the ids in a queue grow,
  and are larger than the id of the frame above it (`QueueOrder`); a batch that is open belongs to
  its frame, and what is queued closes exactly what is open (`Grouped`, `Nestings`); no instance
  is lost (`Accounted`). `PopFrameAsserts`, `FifoCompletion` and `SubCommandsFirst` follow.
  `Nestings` is what makes the proof long: `abortBatchCommand` and `endBatchCommand` are
  commands in the queue themselves, so the command stack at any time depends on those
  not yet run, and the second assertion of `popFrame` on their being balanced.
* `IndexInv` says where `currentIndex_`, `previousSelectedIndex_` and `index_`
  are while `moveCommandIndex` has jobs under way: the only unfinished job is the one
  waited for, and it moves to where the index points. `IndicesAgree` and `UndoAsserts`, `undo`'s two
  assertions, follow (`redo`'s is refuted by TLC, see above), and
  `RemovalKeepsBoundary` with what `Erase` leaves (`EraseLeaves`).
* `HInv` says that no entry of the history or of `pendingHistory_` is a child, is queued on
  another frame than the root's, failed, or is there twice; `HistoryOfRoots` follows.

`StepKind` and `CallKind` name what a step can do to the frames and to the calls; every action
is sorted into them once (`EveryStepKind` and `EveryCallKind`), and each part of the invariants is shown for each kind.

`AppliedEntriesStay` has a hypothesis, `"moveAnyTime" \notin Ops`: the index is moved by `undo` and
`redo`, which flush, and by `moveCommandIndex` after a flush only. No interface asks that of callers, and
both direct ones (`plg_history_ui/history_object.cpp:152`, `core_data_model/dialog/reflected_dialog_model.cpp:79`)
call without a flush: what the theorem says is where the fault lies, not that these calls are safe. Under it the worker has nothing to do while the index moves
(`Still`): `flush` returns with one empty frame and nothing pending (`FlushReturns`), and no action
that could queue a command is open to the application until the call returns. The run `move_index` has the
hypothesis false and finds the property violated.

**The undo data.** The first part of `CommandManagerProofs` shows that recording keeps what undo leads back to
(`RecordUndo`) and agrees with the document (`RecordRedo`), and that merging two lists is
undoing, or redoing, them one after the other in the right order (`MergeUndo`,
`MergeRedo`). A later part extends this to whole undo data, whose `Undo` and `Redo` are recursive
functions: appending an entry (`UndoAppend`) and consolidating a child
(`ConsolidateUndo`) undo and redo the parts in order, and undo data that record
nothing change nothing (`EffectlessUndo`).

**The type of the state** (`TypeOKHolds`) needs more than types. The bound
on `instances` rests on `Counted`: how many instances the calls in progress may still queue, which for
`undo` and `redo` is one, kept free until their flush is over. That a document holds only numbers of
instances rests on the same for all recorded values (`Documented`).

**The history accounts for the document** (`HistoryConsistentHolds` in `CommandDocumentProofs`; what steps do to the
document and the records is in the last parts of `CommandHistoryProofs`, and that undo and redo which stop half-way
still write undo data's values in `StoppedTyped`) for the applications that
`Orderly` describes, whatever else they do, in whatever order and on whichever thread their commands run:

* nothing is aborted or removed, the manager is not finalised, no undo or redo fails, and the index is moved after a
  flush only;
* a command that writes or queues commands can be undone and does not fail;
* a command that queues others keeps undo data of its own (`customUndo`), and does not write itself.

The run `history` satisfies these conditions. Each is there because the code needs it: TLC refutes
`HistoryConsistent` when any one of them is dropped, except for the call of `fini`, for which it found no
counterexample and the proof has none either, only no argument about batches left open.
A writing command that also queues commands, for instance, appends its own data when it returns, behind those of its
sub commands, although it may have written before them.

The invariant, `MInv`, says that there are two documents for every command, f\[i\] which it began with and g\[i\]
which it has led to so far (`Marked`):

* the undo data of i lead from f\[i\] to g\[i\] and back (`Turned`);
* in the history, among what is pending, and from the selected entry to what is pending, each
  begins where the one before it ended (`HistoryMarked`, `PendingMarked`);
* in the frames, a batch begins where what encloses it is, and so does a command (`GroupsMarked`);
* what the command on top has recorded and not yet handed over leads from its mark to the document
  (`DocumentMarked`).

The marks are no part of the state, and no function of it: `popFrame` decides only at the end
whether an instance has had an effect. So each step has to produce them: `Begins` gives
a command that starts its two marks, `ReturnsSome` and `HandsUp` move the second one of the command that returns
and of the parent that takes its data, `EntersPending` and `Strode` (an entry undone or redone) that of
the root frame; in all other steps they stay (`Bystands`, `Writes`, `StaysOpen`, `FailsIdle`). `RInv` says what
has recorded anything at all: a command that queues others has no record of its own, so only the command on top does, and what
fails has recorded nothing. It rests on `RootNested`, that no batch is open while the index moves, and on
`EffectKind`, which states for every action exactly what it does to the document, the records and the frames.
At rest the marks of the root frame and of the selected entry are the document, and `HistoryConsistent` follows by
induction from the index down, and from the index up.

**An aborted batch leaves no trace** (`RollbackErasesHolds`) for the applications `Flat` describes: batches are not
nested, no command queues others, a command that writes can be undone and does not fail, and no undo or redo fails. Everything else
is allowed: `abortBatchCommand` and the aborts of `fini`, undo, redo, `moveCommandIndex` and
`removeCommands` at any time, waits, and commands on both
threads. The run `recovery` satisfies these conditions but for the last: with undo, redo and roll backs that stop
half-way TLC finds no other batch whose complete roll back leaves a value behind, but the proof has no argument for it.

The marks are no use here, since they say what the document is, and an aborted batch may be one of
several commands that wrote before. This invariant, `EInv`, is about single values instead:

* every value in the document and in undo data is the initial one or the number of a command that
  has recorded the property (`AllSigned`);
* the undo data of a batch have every property that a command in it has recorded, except for the one
  that still runs (`HandedOver`), and the earliest entry for a property does not lead back to
  what a command of the batch wrote (`FromBefore`, `OwnBefore`);
* who is a child of whom: only batches have children, these have none (`Flattened`), what is queued has none yet
  (`QueuedAlone`), and the command on the back frame belongs to the latest batch, which has been handed its whole record
  when it returns (`LeafRuns`). The last part needs that one batch is closed before the next one
  begins, in the queue too (`Alternates`), and that only `fini` aborts a batch that is not open (`Leaves`);
* writers neither fail nor are rolled back (`WritersOk`, `Rolls`).

Undo leaves of each property what the earliest entry that has it restores (`UndoWrites`). So after the roll back a recorded property has a value from before the batch, and
one that is not recorded never had another (`Erases`); what was undone are the batch and its children (`FlatMembers`). TLC refutes
`RollbackErases` when batches may be nested, when a writer may fail, when a writer cannot be
undone, and when a writer also queues commands, so these conditions are needed. For commands
that only queue others it finds no counterexample among six instances; the proof has no argument for frames deeper than the
second, so `Flat` excludes them.

**Model-checked only.** Liveness (`EveryCallReturns`, `EveryCommandCompletes`,
both `CallsReturn`, `EverythingIsServed`, `Settles`), which is out of the provers' reach.
Every safety property of the passing runs is stated by a theorem, some under the hypotheses named above. Induction over numbers is done with sets (`LeastElement`, `Induction`,
`RecursionExists` in `CommandManagerProofs`), because the induction theorems of the
library take operators as arguments, which the provers cannot instantiate.


## What is not modelled

Of the command manager: the drop of the history when the environment changes
(`onPreEnvironmentChanged` is in `EnvManager` as far as its pointer goes, but what the worker
may queue meanwhile is not), `resetState`, macros and compound command editing,
registration of commands, status listeners, progress messages and signals.
`abortingBatchCommand_` only feeds `executingCommandGroup` and is left out.
Reflected methods as undo data, and the serialised form of recorded values, are
left out of `UndoRedoData`.

Of the environment manager: viewports, the created and removed callbacks, access to a state by
environment id, and resetting the default environment, which an assertion forbids. Of the
logging system: alert management, a flush on the logging thread. Of the dependency system:
interfaces local to a context, context creators, lists of implementations. Of the plugin
manager: libraries that fail to load, notifications in Initialise and Finalise, which are each
plugin's own. Of the filtered list: copies of the model, and reads of it on other threads, which
nothing in the repository makes.

Not modelled at all, with the reasons in `PROJECT.json`: the object manager, signals and thread
local values, reflection, the other data models (among them the filtered tree, whose
bookkeeping of offsets is data rather than control), variants and serialisation, the Qt
bindings, the Python bindings, the plugins of the user interface and the applications. Together they
are most of the source, and all but the first two are data transformation and
presentation on one thread.

## What could follow

* A sequential undo stack which the command manager implements when the application
  calls it one call at a time.
* The command manager composed with `EnvManager` instead of with its callbacks alone.
* Failed loads in `PluginManager`, once the code decides what a failed plugin is.
