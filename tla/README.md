# A verification of ztAutoService

ztAutoService is a process manager for Windows: it reads a list of programs from
a JSON file, starts them, restarts those that end (daemons) or that are due
(after a time of running, or at a time of day), and runs as a service or in a
console. This directory holds TLA+ models of its code, the TLC configurations
that check them and proofs about them that TLAPS checks. Paths below are
relative to `src/`.

## 1. Inventory

| Component | State | Operations | What is hard |
|---|---|---|---|
| Process manager `CPM` (`Common/pm/pm.cpp`) | the vector of tasks with pid, startup and shutdown times; `m_bStart`, `m_bRunning`, `m_nNum`; mutex; uv timer | `Start`, `AddTask(s)`, `Stop`, `~CPM`, `Run`, `Timer`, `Protect`, `Find`, `Kill`, `RunChild`, `CreateChildProcess`, `NeedRestart` | three kinds of threads and only one mutex; children that end at any moment; ids that Windows reuses; stopping while anything is under way |
| Host (`Projects/as/main.cpp`) | service status, the pointer to the manager | `ServiceMain`, `ServiceStrl`, `CtrlCHandler`, `Install`, `Uninstall`, `main` | handlers on threads of their own; the service control manager, which may end the process |
| Ring buffer (`Common/utilc/ring_buff.*`) | head, oldest tail, the readers' tails, memory | insert, linear insert range, consume, get_element, update_oldest_tail, destroy | two threads without a lock; stale counts; wrap-around |
| Locks and conditions (`Common/util/Mutex.h`) | counters of a reader-writer lock | lock, unlock, wait, signal | waiting with the lock kept; writer preference |
| Timers, thread pool (`Timer.*`, `ThreadPool.*`) | the reference count of the timer queue; runnables | init, cleanup, start, stop, close | a close against a callback; a count without a lock |
| Singleton (`Singleton.h`) | pointer, lock | `GetInstance`, `ReleaseInstance` | a pointer used after the release |
| Log, settings, ids, mail slot | file index; cache; sequence and timestamp; server thread | rotation; get, set, load; `getId`; destructor | stale caches; a clock that goes back; a thread that outlives its object |
| Containers (`memfile.*`, `utilc_memfile.*`, `buflist.*`, `doubly_linked_list.*`, `NetStreamMaker.*`, `netstream.*`) | segments and positions | read, write, seek, append, remove | boundaries, 32-bit lengths |
| The rest (`bnf`, files, encodings, clock, mini dump, export headers) | none of interest | | I/O and formatting |
| libuv, cJSON (`ThirdParty/`) | | | third-party; only their use by `pm.cpp` is modelled |

How they interact. `main.cpp` owns one `CPM`. `Start` creates the loop thread,
which runs a libuv loop with one timer; each second the timer calls `Protect`,
which walks the tasks under the mutex and creates a detached *launcher* thread
for every task that has to be started or restarted. Launchers write the task's
fields and count themselves down in `m_nNum`; `Protect` waits for the count to
reach 0. `Stop` clears `m_bStart`, polls `m_bRunning` and thereby waits for the
timer to notice, for `Protect` to return and for the final loop that kills all
children. A control or console event reaches the host on another thread, which
makes the host call `Stop` or the destructor. The pieces of `Common/util` and
`Common/utilc` are libraries: each is used by its own callers and they share no
state.

What makes each part correct:

- *manager*: a child that runs is on record, or has been told to end; none is
  left that has not been told; delays, running times and times of day are kept;
  `Stop` returns, and nothing is started afterwards;
- *host*: the state the SCM is told only moves forward, `STOPPED` is told when
  all is over, a stop request leads there, an uninstalled service goes away;
- *ring*: the threads use different places, every reader gets every element
  once and in order, `destroy_element` gets each element once, after all readers;
- *locks, timers, pool, singleton*: exclusion; no waiting for ever; nothing is
  used after it has been closed;
- *containers*: what is read is what was written.

`PROJECT.json` lists the hazards at the lines where they bite, with the
properties that would show them going wrong.

## 2. Plan

1. `Schedule`, `ProcessMgr`, `ProcessMgrProps` with the abstract `Supervisor`;
   proofs of its safety invariants, of what it decides by the clock and of the
   refinement. **Done.**
2. `Host`, composed with `ProcessMgr` as its owner; proofs of its safety
   properties. **Done.**
3. `RingBuff`, `RingBuffProps` with the abstract `Broadcast`; proofs of all its
   properties and of the refinement. **Done.**
4. `RWLock` with the abstract `SharedLock`, `TimerQueue`, `ThreadPool`,
   `Singleton`, and `Settings`, which uses the lock by what `SharedLock` promises;
   proofs of their safety properties. **Done.**
5. Containers: `MemFile` with the abstract `ByteFile`, `BuffList`, `DList`,
   `NetStream`; proof that the list stays well linked. **Done.**
6. `LogFiles`, `Guid`, `Text`. **Done.** The parts of 4 to 6 share no state and
   are checked in one run through `MCUtil`.
7. Proofs that a memory file is a `ByteFile`, and that ids are unique. **Done.**
8. Proofs that the safe loop visits every entry, that the buffer list keeps its
   bytes in order, that a stream is read as it was written, and that the log
   empties its oldest file. **Done.**
9. Proofs that the functions of `Text` take every text apart as they should.
   **Done.**
10. Open: a model of two loop threads, if `Start` should ever be called while the
    first thread is still ending.

## 3. Modules

| Module | Models |
|---|---|
| `Schedule` | the time arithmetic of `pm.cpp`: `NeedRestart`, delays, running times |
| `ProcessMgr` | `CPM` and the part of Windows it acts on |
| `ProcessMgrProps` | its properties and inductive invariant |
| `Supervisor` | what a process manager promises (abstract) |
| `MCProcessMgr` | values for TLC |
| `ProcessMgrProofs` | proofs: types, the counter `m_nNum`, the launchers |
| `ProcessMgrChildProofs` | proofs: no child is lost; the end of the loop thread; restarts are due, delays are kept |
| `ProcessMgrRefinement` | proof: the refinement of `Supervisor` |
| `Host`, `MCHost`, `HostProofs` | `main.cpp` and the SCM, composed with `ProcessMgr` |
| `Broadcast` | what a ring buffer promises (abstract) |
| `RingBuff`, `RingBuffProps`, `MCRingBuff`, `RingBuffProofs` | the ring buffer, its properties, proofs |
| `SharedLock` | what a reader-writer lock promises (abstract) |
| `RWLock` | the portable `SlimRWLock` of `Mutex.h` |
| `TimerQueue` | `TimerQueue` and `Timer` of `Timer.cpp` |
| `ThreadPool` | `ThreadPool.cpp` |
| `Singleton` | `Singleton.h` |
| `Settings` | `Settings.cpp` |
| `ByteFile` | what a memory file promises (abstract) |
| `MemFile` | `memfile.cpp`, and its twin in C |
| `BuffList`, `DList` | `buflist.c`, `doubly_linked_list.c` |
| `NetStream` | `NetStreamMaker.cpp`, its twin in C, and the reader of `netstream.c` |
| `Guid` | `getId` of `guid.cpp` |
| `LogFiles` | the numbered files of `Log.cpp` |
| `Text` | functions of `StringHandle.cpp` that take a text apart |
| `MCUtil` | the modules from `SharedLock` on, side by side in one run |
| `UtilProofs` | proofs: locks, singleton, settings, the list, timers, pool, ids, the log |
| `ByteProofs` | proofs: memory file, buffer list, stream |
| `TextProofs` | proofs: the functions of `Text` |

### The process manager

*Threads.* Each thread has a program counter: `ctl` for the owner (who calls
`Start`, `Stop`, the destructor), `loop` for the loop thread, `thread[<<t, k>>]`
for the k-th launcher of task t. An action is what a thread does between two
points where another thread could tell the difference. `m_mutex` is taken only
by the loop thread and by `AddTask(s)`, whose critical sections are single steps.

*The walk of `Protect`.* Its branches are the actions `StartFirst` (lines
219-226), `Revive` and `AwaitDelay` (227-242) and `Restart` (243-270), with
`NothingToDo` where none applies. `Spawn` is the `m_nNum++` and the creation of
the thread that the first, second and fourth share. Launchers go through
`kill`, `create`, `inputIdle`, `dec`, `store`.

*Windows.* A process id is `free`, `run`, `ending` (`TerminateProcess` has been
called, and the process is not yet gone) or `exited` (it has ended, but a handle
is open and the id is still taken). `OpenProcess` succeeds exactly on ids that
are not free, unless `OpenMayFail`. `TerminateProcess` fails on a process that
has exited and may fail on any other. Every attempt of `Kill` is a step of its
own; so is every child's exit. With `PidReuse` an id on record may be given to
another task's child or to a foreign process.

*`Kill` asks and does not wait.* `TerminateProcess` only begins the end of a
process, and the `WaitForSingleObject` behind it (`pm.cpp:302`) fails at once:
the handle was opened with `PROCESS_TERMINATE` alone (line 292), which does not
give the right to wait, and the result is not looked at. So `KillReturns` leaves
the process `ending`, the launcher goes on to start the next instance, and the
old one may run beside it until its `Exit`. What the code does guarantee, and
what `NoLostChild`, `NoOrphans`, `StoppedClean` and `Supervisor` say, is about
processes that have *not been told to end*: at most one per task, on record, and
none when the manager has stopped.

*Time.* Points in time are kept as ages, because the code only subtracts them.
`Protect` captures `now` before it takes the mutex; `lag` is how old that
capture has become. Ages saturate at `MaxAge`, above every threshold, so the
state space is finite without a last second.

*Torn updates.* `++` and `--` of the plain `m_nNum` are a load and a store; with
`TornUpdates` other threads may act between them.

*What is taken from its use in `main.cpp`.* Tasks are added before `Start`
(`MayAdd`), and a second `Start` waits until the first loop thread has ended.
`Stop` and the destructor may come at any time, also before the loop thread has
executed its first statement. They then return at once, and the thread still
runs: the model lets it do what it would do if the object's memory were intact.

### The host

`Host` extends `ProcessMgr` and is its owner: `StartsManager` is the manager's
`Start`, `PollsStatus` its `Stop`, `CtrlEvent` its `Delete`. The variables
`status` (`_status.dwCurrentState`) and `reported` (what `SetServiceStatus` last
told the SCM) are distinct because two threads write the one and report it
separately. The SCM is external: it starts the service, delivers a stop only to
a service that has reported `RUNNING`, and removes a service marked for deletion
when it has stopped and no handle is open. It gives the service no other control:
shutdown is not among those `ServiceMain` accepts. When the process has ended its
threads do not run any more (`Alive`), but its children do.

Console events come at any time (`CtrlEvent`). The handler finds `_pm` NULL and
does nothing, or it deletes the manager, which `main` may be about to fill or to
start: if `main` then calls `AddTasks` or `Start` of the deleted object
(`main.cpp:224-225`), the program's behaviour is undefined (`UsesDeleted`), and
nothing is claimed of it from there on. `CutShort` is Windows ending the process
because the handler took too long; children then stay behind. `StoppedClean`
speaks of programs whose handler had the time to return from the destructor.
Windows calls the handlers of one event at a time, and the first event ends the
process.

### The ring buffer

Positions count elements, the code counts bytes in multiples of `element_len`.
An inserting and a reading thread; every load and store of `head` and
`oldest_tail` the other thread can see is a step of its own. Readers have either
no tail of their own (`mode = "oldest"`, `ring_consume(ring, NULL, ...)`) or one
each (`mode = "own"`, the two macros of the header). Three constants describe
the build and the callers:

- `ReloadTail`: the compiler loads `oldest_tail` anew for every mention. Checked
  as `TRUE`: the code tolerates it.
- `ReloadHead`: the same for `head` in `ring_get_count_waiting_elements`. The
  code does not tolerate it (run `ring_reload`).
- `Serialized`: the callers keep inserts out of the search for the oldest tail.
  The code needs it (run `ring_readers`).

Also assumed: stores become visible in program order and the compiler does not
move the store of `head` before the `memcpy` (true on x86 with the compiler the
project is built with; nothing in the code enforces it), and callers insert at
most the elements the ring has places for in one call.

### The pieces of `Common/util` and `Common/utilc`

They share no state. `MCUtil` puts them side by side: its variable `part` says
which one a behaviour is about, and the others rest where they begin, so one run
checks the sum of their states and not the product. The locked regions of the
code are single steps wherever nothing outside the lock can see between their
lines.

*`RWLock`.* `at[t]` says where a thread is: asleep in one of the two waits,
woken, inside, or out. A step goes from taking `counter_mutex` to waiting or
returning. `Spurious` is a condition variable that wakes without a
notification. `readers` and `writers` of `SharedLock` are the threads inside.

*`TimerQueue`.* `init` holds `m_cs` for two steps: `QueueInit` tests the count,
creates the queue and loads the count, `InitCounts` stores it. `cleanup` takes no
lock and is four: `m_nInitCount--` is a load and a store (`CountLoads`,
`CountStores`), then the count is looked at again (`LooksAtCount`) and the queue
deleted (`DeleteQueue`). Any number of cleanups and one init may overlap in every
order. The history `raced` tells what a cleanup has overlapped so far, `twice`
that a handle was deleted that no longer was a queue; `OneQueue` says what holds
without an overlap, what still holds when only cleanups overlap (a count may be
lost, and a queue then stays), and nothing after an init has overlapped one. That
is why `init`'s test and its load may be one step. A handle of a deleted queue
may be given to the next one. The callbacks are not modelled: that `stop(true)`
waits for them is what Windows promises, not this code.

*`ThreadPool`.* `startWork` creates the work (`StartWork`) and submits it round by
round (`Submit`) while pool threads already run it. Callbacks wait (`pending`)
and run on at most `threadNum` threads. `CloseRunnable` is `closeWork` or
`closeTimer`, by the `run()` of the runnable or by anybody else, whatever is
pending. `misused` remembers those closed otherwise than `ThreadPool.h` says (a
runnable that runs once, by its own `run()`), `touched` those used after they had
been deleted. `StopPool` and `PoolStops` are the two ends of `stop`. A constructor
whose cleanup group could not be created leaves the pool `failed`: works are
taken and run all the same, and `stop` returns at once.

*`Singleton`.* `GetInstance` in the steps others can see, the last of which
reads `m_pInstance` after the lock has been given back. With `ReleasesLate`,
`ReleaseInstance` may be called while others use the class; checked as `FALSE`.

*`Settings`.* `getValue` in its steps: search under the shared lock, give it back,
use the iterator (`ReturnsFound`) or read the profile, both without a lock, insert
under the exclusive one. Between the unlock and the use of the iterator others
may insert; `val` is what the iterator pointed to when the lock was given back.
The profile's name is a string assigned without a lock (`LoadFromProfile`,
`Loaded`): who reads it in between gets any file's value, or none. The lock is an
instance of `SharedLock`, which `RWLock` implements.

*`MemFile`.* The buffer, the two positions and the size, with `malloc` that may
fail; `SizeT` is where unsigned positions wrap. `ByteFile` has neither buffer
nor wrap-around.

*`BuffList`, `DList`.* Bytes are numbered when they are appended; `appended` and
`taken` count those that came and those that went, and are not in the code. The
list's pointers are functions. `Sanity` is the length at which `buflist.c` takes
a list for corrupt. The body of the safe loop may remove the entry it is at or
one it has been at, and may add entries; `toVisit` remembers which entries were
in the list when the loop began.

*`NetStream`.* A number is the sequence of its bits, so shifts and casts are
operations on sequences, and the width of a byte and of the numbers are
parameters. An append call writes block after block (`AppendBlock`), each of
which may have to grow the buffer; `written` remembers the bits of all calls.
`ReadBuff` is called where a byte begins, which `netstream.c:251-256` leaves to its
caller: it takes whole bytes from the byte the position is in.

*`Guid`.* Several callers in processes of their own, one clock for all. With
`ClockGoesBack` the clock may be set back; checked as `FALSE`.

*`LogFiles`.* File times in seconds, as the code compares them. `LogPath` says what
kind of path the log has: the search of `LogRunnable` needs a directory without
a `-` in its name (`"plain"`, the value checked). With `SameSecond` two files
may have their last lines in one second; checked as `FALSE`.

*`Text`.* No program, but functions: `text` runs through all texts up to `MaxText`
characters and `utf8` through all UTF-8 texts up to twice as many bytes, given
by the place of each byte in its character. A `for` loop of the code is a `Loop`
over a function that says what its body makes of the locals. `TakesApart`
compares the results with definitions that do not scan: the longest runs of
places free of separators (`Runs`), what is between two separators
(`AreBetween`), the places where characters begin (`AtBoundary`). The split by
several characters ends with what is left from the beginning of the last field
that has characters, which is that field again, with the separators behind it,
if the text ends in a separator (`StringHandle.cpp:156`); `AreBetween` says so for
every text.

## 4. Runs

| Run | Expected | Shows |
|---|---|---|
| `pm_safety` | pass | counter, launchers, children, orphans; the inductive invariant; refinement of `Supervisor` |
| `pm_schedule` | pass | delays and restarts are due when they happen; nothing is started after `Stop` returned |
| `pm_live` | pass | `Stop` returns; daemons come back |
| `pm_torn` | violation of `CounterExact` | an update of `m_nNum` lost between threads |
| `pm_denied` | violation of `NoLostChild` | a refused `OpenProcess` taken for a dead process |
| `host` | pass | the service and console life cycle |
| `host_uninstall` | violation of `UninstallCompletes` | a refused stop, not looked at |
| `host_early` | violation of `StopJoins` | a console event between `Start` and the first statement of the loop thread |
| `ring` | pass | everything said of the ring, and refinement of `Broadcast` |
| `ring_readers` | violation of `OldestIsOldest` | inserts during the search for the oldest tail |
| `ring_reload` | violation of `InOrder` | a head that wraps between two loads |
| `util` | pass | the pieces of `Common/util` and `Common/utilc`, each by itself |

*What `util` checks*, property by property:

| Property | Says |
|---|---|
| `LockInv`, `ImplementsSharedLock` | the lock excludes, its counters are exact, no sleeping thread is forgotten |
| `WritersEnter` | while writers want the lock, one gets it (nothing of the kind holds for readers) |
| `OneQueue` | one timer queue, there while it is used, also after cleanups that took each other's count; gone afterwards and deleted once, if no two overlapped |
| `PoolPromises` | a deleted runnable is used only if others closed it or it had more to run; `stop(true)` returns when every repetition has run |
| `OneInstance` | one instance, and it exists while it is used |
| `FoundForGood` | no search during an insert; the iterator, used without the lock, still points to what was found, and that stays |
| `ImplementsByteFile` | a memory file is a byte file, for any sequence of writes, seeks, truncations and failures |
| `BytesInOrder` | the segments hold the bytes appended and not yet taken, in order, none empty |
| `WellLinked`, `LoopVisitsAll` | the two chains are each other's reverse; the safe loop is at every entry once it began with, and at no other |
| `ReadsBack` | the parser reads the bits that were written |
| `IdsUnique` | no id twice, and the ids of a process grow |
| `OldestGoes` | the log empties a file only when all numbers are in use, and the one begun first |
| `TakesApart` | the splits give the fields, `utf8_cut` whole characters |

*Bounds of the manager's runs.* Two tasks, of which one is a daemon from the
file and one is added singly and restarted by `rsdur`, reach every branch of
`Protect` and let two launchers, the loop thread and the owner be at work at
once. Two process ids are the fewest that let an id be on record for one task
and in use for another; a third id adds nothing a symmetric id does not. A
second launcher slot per task is there so that two launchers of a task *could*
exist. `KillTries = 2` (5 in the code) has a first, a repeated and a last
attempt. `Day = 1` in `pm_safety` switches the clock off; `pm_schedule` switches
it on with one task, days of five seconds, a delay of two, an `rsdur` of three, a
restart time at second 1 and a `now` that may be a second old, so that the
daily restart, the delay and the midnight wrap occur in one behaviour.
`CounterMod = 4` (2^32 in the code) exceeds the number of launchers and makes
a count below zero wrap, as in the code.

*Bounds of the host's runs.* One daemon and two ids: what is checked is the
order of the host's steps against the manager's.

*Bounds of the ring's runs.* Four places, calls of up to three elements, nine
elements, two readers: the buffer wraps twice, inserts are split at the end,
it is full and empty in every position. With five places, calls of four and
twelve elements the result is the same.

*Bounds of `util`.* Three threads at the lock: a holder and two that wait, so
that readers and writers can be asleep at once and a notification has a choice.
Three users of the timer queue, which count up to three: two may clean up at once
while a third relies on the queue, and it is created, shared, deleted and created
again. Two works (one with two repetitions), a periodic and a single timer on two
threads; of a timer's callbacks one may wait (`MaxPending`). Three callers and
two addresses of a singleton. A memory file of three bytes that grows by two
reaches growth, the limit and both clamps; positions wrap at 16. A list of
three segments reaches the limit (1024 in the code); bytes of two bits and
buffers that begin at one byte double twice. Two ids per millisecond, two
processes; three log files of two lines, so that the rotation comes round more
than once in nine seconds. Texts of up to five characters of two kinds and
separators of up to two, which overlap themselves; UTF-8 texts of up to ten bytes.

*Deadlock* is checked except in `host` (the program ends), in the ring's
runs (the last element has been inserted, or the ring is destroyed) and in
`util` (its clocks and byte counts are bounded). In the manager's runs the
clock always advances.

*Fairness* (`FairSpec`, `HostFairSpec`). Weak fairness of the loop thread, of
each launcher, of the owner inside its waiting loop, of `main` and of the
handlers: they are threads of a preemptive scheduler, and none of them waits
for anything but what its guard says. Weak fairness of the clock, of the end of
processes that have been terminated, and of the release of handles of processes
that have ended. Strong fairness of
`ChildCreated`: `CreateProcess` may fail again and again but not for ever; a
program whose file is missing is, of course, never revived. Nothing is assumed
of children, users or administrators. Without the release of handles a daemon
whose handle somebody keeps open would never be restarted: `Find` looks whether
the id can be opened, not whether the process has ended.

`LockFairness`: a thread that has been woken runs on, and who is inside leaves.
Nothing is assumed of threads that are asleep.

*Every property has a mutant*: a variant of one definition with a plausible bug
(marked `Variant` in the modules) that makes the run fail.

## 5. Proofs

TLAPS proves, for every number of tasks, ids, launchers, attempts, every size of
the ring, number of readers and length of the calls:

| Theorem | Statement | Assumes |
|---|---|---|
| `TypeCorrect` | `TypeOK` | nothing |
| `CounterIsExact`, `OneLauncher` | `CounterExact`, `OneLauncherPerTask` | `~TornUpdates` |
| `NoChildIsLost`, `NoneLeftBehind`, `Inductive` | `NoLostChild`, `NoOrphans`, `IInv` | `SafeBuild`: `~TornUpdates`, `~OpenMayFail` |
| `StopHaltsAll` | `StopHalts` | `~TornUpdates` |
| `KillsAreDue` | `KillsOnlyWhenDue` | `~TornUpdates` |
| `DelaysKept` | `RespectsDelay` | `SafeBuild`; only tasks of the file have a delay |
| `Implements` | refinement of `Supervisor` | `SafeBuild` |
| `RingInductive` and `RingTypeCorrect`, `PlacesDisjoint`, `ReadInOrder`, `DestroyInOrder`, `EverythingDestroyed`, `OldestTail` | `RingInv` and the ring's invariants | `SafeRing`: `~ReloadHead`, `Serialized` |
| `RingImplements` | refinement of `Broadcast` | `SafeRing` |
| `HostTypeCorrect`, `ReportsGoForward` | `HostTypeOK`, `ReportsForward` | nothing |
| `HostStopsClean` | `StoppedClean` | `SafeBuild` |
| `LockIsRight`, `LockImplements` | `LockInv`, refinement of `SharedLock` | nothing |
| `TimersShareOneQueue` | `OneQueue` | nothing; says what holds as long as no init, or nothing at all, has overlapped a cleanup |
| `PoolKeepsPromises` | `PoolPromises` | nothing; says which runnables may be used after their deletion |
| `SingletonIsOne` | `OneInstance` | `~ReleasesLate` |
| `SettingsStay` | `FoundForGood` | nothing |
| `ListIsWellLinked`, `LoopVisitsEvery` | `WellLinked`, `LoopVisitsAll` | nothing |
| `BytesStayInOrder` | `BytesInOrder` | nothing |
| `StreamReadsBack` | `ReadsBack` | nothing |
| `TextsTakenApart` | `TakesApart` | nothing |
| `OldestFileGoes` | `OldestGoes` | the log finds its files (`LogPath = "plain"`), `~SameSecond` |
| `IdsAreUnique` | `IdsUnique` | `OneCaller`: one asking thread per process; `~ClockGoesBack` |
| `MemFileImplements` | refinement of `ByteFile` | `OffsetsFit`: offsets do not wrap into the file |

The assumptions on the manager and the ring are needed: a violation run drops
each and TLC finds the property broken. Likewise TLC finds `OneInstance` broken
with `ReleasesLate`. `RespectsDelay` would fail for a task added by `AddTask`, which
drops the delay.

*What `Stop` guarantees.* `StopJoins`, that no thread is left which would use the
object, does not hold: a `Stop` that overtakes the loop thread's first statement
finds `m_bRunning` false (`host_early`). `StopHalts` is what does: no launcher is at
work, and a loop thread that has been overtaken finds `m_bStart` false and can
only kill what runs. It holds of the memory the object had; the destructor gives
that back, so after an overtaking destructor neither it nor anything else is
guaranteed.

*The manager's invariant.* A child counts here until it has ended or been told to
(`Children`). `NoLostChild` is not inductive: `ChildCreated` overwrites a pid
without looking. `ChildInv` therefore says that a task has no such child whenever
a launcher is about to create one, and when the loop thread has decided to
launch; that holds because a recorded exit (`shutdown > 0`) and a failed `Find`
both mean that the child is dead, because a launcher that kills goes on only when
the process cannot be opened or `TerminateProcess` has told it to end, and because
no second launcher works for the task. The last needs `LauncherInv`: while
`Protect` walks, the launchers belong to tasks it has passed, one each, and
`m_nNum` is their number; so the wait for 0 at the end of `Protect` waits for
all of them. `StepInv` ties program counters to indices and attempts;
`OrphanInv` follows the final loop through the vector.

*The ring's invariant.* Everything is measured by `Behind(p)`, how far place p
is behind `head`. A publication of k elements adds k to the distance of every
used place, a move of a tail takes from it; both are lemmas about arithmetic
modulo `Count`. `Content` says what memory holds between `oldest_tail` and
`head`; `InsertInv` and `ConsumeInv` say that a stale `oldest_tail` or `head`
only ever counts too little; `UpdateInv` follows the search; `HistoryInv` ties
what has been read and destroyed to the tails. `Disjoint`, `InOrder` and the
rest are facts about a single state in which these hold.

*What the clock decides.* Between Protect's decision and the launcher's step the
clock goes on and children may die, so neither timing property is inductive.
`DueInv` says that a task the loop thread has decided to restart, or that a
launcher is about to kill, is due *now*: being due lasts, because the age of the
start grows as fast as the time since the daily restart and saturates above it,
and only the task's own launcher resets it, of which there is one. `DelayInv`
relates the exit on record to the real death: the record is at most a lag older
than the death, or the delay is over; a field with garbage belongs to a task
that has no process yet, and is reset before the first one's exit can be
noticed.

*The host's invariant.* `HostNext` implies `Next \/ UNCHANGED vars`, so all the
manager's theorems hold under the host. `PlaceInv` and `ManagerInv` tie the place
where `main` and the handlers are to the manager's program counters: until `main`
has called `Start` there is no child, and none appears before the loop thread has
begun. `STOPPED` is reported behind a `Stop` that has returned; either the loop
thread had ended, and `NoOrphans` does the rest, or it had not begun, and finds
`m_bStart` false when it does (`Over`).
`ReportInv` says what has been reported where: a handler whose report comes late
can only repeat `STOPPED`, since `ServiceMain` writes it before it reports it.

*The pieces.* The lock's counters are cardinalities of sets of threads, so the
proof goes through the finite-set lemmas; `NobodyForgotten` is inductive together
with them. For `OneQueue`: as long as no init has overlapped a cleanup, the count,
and what a cleanup has loaded of it, is at least the number of users that have
not yet counted themselves down (`NeverLow`), because a count lost between two
cleanups is one too high; so nobody finds it 0 while somebody has the queue. If
not even cleanups have overlapped, it is exact (`CountedExactly`). For the pool:
rounds left, callbacks that wait and callbacks that have begun add up to the
repetitions of a work (`WorksCounted`), and a runnable that runs once has nothing
to come when its only callback runs and may close it (`ClosedInTime`).
`FoundForGood` rests on `insert` leaving alone a key that is there, so that an
iterator to it stays good whatever happens after the unlock.

*Ids.* An id is a number written in two bases, so a greater time gives a greater
id whatever the rest (`IdGrows`), and the process can be read back from it
(`IdDecodes`). `CallInv` follows a call through `getId`: before it has its
number the latest id of its process is at most the one the process's variables
stand for, and once it is about to return the latest one is below its own. It
speaks of one call per process; with two, both may read the same time and the
same number.

*The memory file.* The bytes of the file are `SubSeq(buffer, 1, fileSize)`, and
`MemInv` (`readPos` and `writePos` within `fileSize`, that within the buffer, the
buffer within `maxSize`) is inductive and enough: one lemma for each call shows
that it is the byte file's. `OffsetsFit` is needed because positions are unsigned:
`pos + off` has to stay on the same side of the file when it wraps. It holds
where `size_t` has 64 bits; where it has 32, with the default `maxSize` of
0xffffffff, a seek far beyond the end may land inside the file.

*The loop over a list.* `LoopInv` is about the entries still to come (`ToCome`):
they are linked with each other only, the entry saved in `tmp` is the first of
them, and every set that holds `tmp` and the followers of its members holds them
all. The last part says without counting that the rest of the chain can be
reached; an entry added or removed elsewhere cannot break it, because nothing
else points into `ToCome`.

*The buffer list.* `BufInv` relates the numbers in the segments to `taken` and
`appended`: each segment goes on where the one before it ends. `taken` is needed
because the list alone does not tell which byte is due next.

*The log.* `LogNumbers` says that the files are begun in the order of their
numbers, around and around, so that the number after the one being written is
the oldest; `LogTimes` that the times of their last lines have the same order,
the file being written excepted. The first is what `print` relies on, the second
what `open` relies on after a restart: each reaches the same file.

*The stream.* The bits of the buffer and of what the append call has still to
write (`BytesOf(todo)`) are the bits written (`StreamInv`); a read is a part of
them. The lemmas are about positions: bit n is bit `n % ByteBits` of byte
`n \div ByteBits`, a shift and a cast pick one byte of a number (`BigEndianBits`),
and whole bytes overwritten are their bits overwritten (`OverBits`). That
doubling 16 reaches every size (`RoomFits`) needs induction over a recursive
function. The library's theorems for that take operators as parameters; instead
`SmallestExists`, that every set of numbers has a smallest one, is applied to the
set of counterexamples.

*The texts.* Each function is a loop. `LoopIs` says that a loop goes through some
states and that its result is the last of them; `UpTo`, which rests on
`SmallestExists` too, is induction over them for a set. The invariant of the
splits by a character and by a string is that the fields up to the last end of
one are right and that what follows is being read (`FieldsRead`). For a string,
the places where the loop takes the separator's branch are the only set that
leaves out what begins within another separator (`SeparatorsAre`), also when the
separator overlaps itself. `StringTrimVector` is right because fields that are
put together with a character they do not have come apart as the same fields
(`JoinedSplit`).

Only model-checked: the liveness properties (`StopReturns`, `Revived`,
`StopHonoured`, `WritersEnter`), as fairness and `ENABLED` are out of the
prover's reach.

## 6. Findings

Each is a violation run with a counterexample.

1. `pm_torn` (`pm.cpp:224`): `m_nNum` is updated by several threads without a
   lock, and one overwrites the update of another. In the run `Protect`'s `++` is
   lost under a launcher's `--`: the count is 0 while a launcher is at work, and
   `Protect` does not wait for it. The other way round the count stays too high,
   and `Protect`, and then `Stop`, waits for ever.
2. `pm_denied` (`pm.cpp:279`): `Find` and `Kill` take a refused `OpenProcess` for
   a process that does not exist.
3. `host_uninstall` (`main.cpp:184`): `as -u` during the start of the service
   leaves it running, marked for deletion.
4. `host_early` (`pm.cpp:172`): a console event between `Start` and the first
   statement of the loop thread. `m_bRunning`, by its comment whether the loop
   thread is executing (`pm.cpp:46`), is still false, so the destructor does not
   wait, and the thread that is about to run has a deleted object.
5. `ring_readers` (`ring_buff.h:146`): the search for the slowest reader compares
   counts taken against different heads.
6. `ring_reload` (`ring_buff.c:101`): a head loaded twice gives a huge count.

Seen while modelling, without a run of its own.

*`pm.cpp`, `main.cpp`*: `AddTask` does not copy `delay` (`pm.cpp:93-109`), so only
tasks from the file have one; a restart time of 23:59:59 never comes, since
`now > rstime` must hold on the same day; a restart time whose parts are not
numbers makes `stoi` throw in the loop thread; a program that is not a daemon is
not started again when it has ended, except by `rsdur` or `rstime`; after the
timer's last tick a `Stop` needs up to one more second; the children of a host
that dies run on and are started again by the next one; `Kill` means to wait for the
end of the process but does not (`pm.cpp:292`, `302`), so a restarted program may
meet its predecessor, and a child may outlive `Stop` for a moment; a recorded id that
Windows has given to somebody else is taken for the daemon by `Find` and killed
by `Kill`; `Install` of an installed service returns success without starting it;
a second `Start` while the first loop thread is still ending, or tasks added
while launchers run, would not be safe, but `main.cpp` does neither.

*Under constants the runs keep off*: with `ReleasesLate` `GetInstance` returns null or
a deleted instance (`Singleton.h:33`); with `ClockGoesBack` ids repeat; with
`SameSecond`, or a log directory that is missing or has a `-` in its name, the
log empties a file that is not the oldest.

*Timers and pool*: two cleanups at once may take each other's count, and the
queue is never deleted, or both see 0 and delete it twice (`Timer.cpp:109-112`);
one that overlaps an init may delete the new user's queue; `stop(false)` fails
while a callback runs, `m_timer` is then not reset and `~Timer` deletes the
handle again; `start` passes `immediately` as the period; the due time
`10*1000*msDueTime` of `startTimer` overflows above 214748 ms; `closeWork`,
called from outside or by a work with repetitions left, deletes a runnable whose
callbacks are still to come (`ThreadPool.cpp:79-90`); a pool whose constructor
failed does not wait in `stop` (`ThreadPool.cpp:31`, `160`). *Locks*:
`Cond::wait` with the portable reader-writer lock waits on its internal mutex and
keeps the lock (`Mutex.h:357`); readers may wait for ever while writers come.

*Containers*: `seek` returns a position though its comment says 0 for success;
`gets` at the end of the file returns zeros up to the size asked for; `write(NULL)`
after `trunc(false)` shows old bytes; the append calls of the stream writer do
not report a `realloc` that fails, and doubling above 2^31 never ends; a list of
1024 segments makes `buflist.c` return -1, as when memory runs out.

*Ids, strings, log, profile*: a `svrid` of 64 or more overlaps the time bits, and the
masks of `getIdInfo` do not match the layout; the split for an array of
separators repeats the last field when the text ends in a separator;
`RemoveEnterSymb` with an empty argument never ends; the characters after `\x20`
in `FilterSpecialChar`'s literal are cut off by its `\x00`; `bnf_line` adds an empty
line at the end; `diffPC` subtracts pointers; a profile's name of 32 characters or
more does not fit, and `strcpy_s` then calls the invalid-parameter handler, which by
default ends the program (`Profile.h:10`); `getValue` uses its iterator after the
unlock, when an insert may have rehashed the map, which to the standard
invalidates it (`Settings.cpp:31`); `Log::close` and `print` do not exclude each
other.

## 7. Not modelled

*In modelled parts.* `GetInfo` (a copy, taken under the mutex). Two loop threads
at once (a second `Start` right after a `Stop` that did not wait). Failures to
allocate memory in `pm.cpp` and `ring_buff.c`. The content of the configuration
file: a task's options are constants, its restart time is a second of the day or
invalid. Working directories and command lines. The wall clock being set, but for
`Guid`. `startWait` and `startIo` (`startTimer` with other Windows objects), a
`startWork` that runs while `stop` does, a second close of a runnable, `Tls`,
`StopWatch`. The callbacks of a `Timer`. `CriticalSection`, `Mutex`, `Semaphore`,
`Event` and `Cond`, which wrap one object of the operating system each. The
console, levels, directories and text of the log. `getIntId`, `getIdInfo`. The
functions of `StringHandle.cpp` that format, convert or replace characters. The
macros of `linked_list.h`, which nothing uses.

*Whole components.* The mail slot: its destructor returns while the server thread
still reads the object, and of a read of freed memory nothing can be said. Files,
encodings, clock and time, byte order, crash dump and export headers: calls of
the system and formatting without state. The rule-text parsers: a few lines over
characters that nothing calls.

*Third-party code.* libuv and cJSON, under `ThirdParty/`, are by far the larger
part of the repository's lines; this program uses a loop with one repeating
timer, a mutex, a thread and the parsing of one array, which are modelled from
that use. So the models cover a small share of all lines in `src/`, and about
three tenths of those under `Common/` and `Projects/`; the rest there is
declarations, formatting and thin wrappers of the system's calls.
