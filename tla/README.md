# A verification project for µOS++ III

TLA+ models of the µOS++ III real-time kernel (`src/src/rtos`, `src/include/cmsis-plus/rtos`),
of its memory resources (`src/src/memory`) and of the core of its POSIX input/output layer
(`src/src/posix-io`), model-checked with TLC and, where a theorem is stated, proved with TLAPS for every
value of the constants. All paths below are relative to the root of the repository copy,
so `os-thread.cpp` is `src/src/rtos/os-thread.cpp`.

The model is of the portable implementation: the code that is compiled when no
`OS_USE_RTOS_PORT_*` macro delegates an object to the port, on one processor, with the
preemptive scheduler. The port itself (context switch exception, interrupt masking, the
tick source) is not in the repository; it is modelled from how the kernel uses it.

## 1. The system

### Components, their state, and who calls whom

| Component | State | Operations | Interacts with |
|---|---|---|---|
| scheduler (`os-core.cpp`, `os-sched.h`) | `current_thread_`, `ready_threads_list_`, lock state | `internal_switch_threads`, `internal_link_node`/`unlink_node`, `lock`, `critical_section` | every blocking object; the port's switch exception |
| kernel lists (`internal/os-lists.cpp`, `utils/lists.cpp`) | intrusive double lists: ready, waiting, terminated, clock time stamps, children | `link` by priority, `unlink`, `unlink_head`, `resume_one`, `resume_all`, `check_timestamp` | nodes live inside threads or on the stacks of blocked calls |
| thread (`os-thread.cpp`) | `state_`, `prio_assigned_`, `prio_inherited_`, `joiner_`, `ready_node_`, `waiting_node_`, `clock_node_`, mutex list, event flags, `interrupted_` | create, `resume`, `suspend`, `exit`, `kill`, `join`, `priority`, `interrupt`, `flags_*`, `yield` | scheduler, idle thread, mutexes |
| idle thread (`os-idle.cpp`) | the terminated ("funeral") list | destroys what is on the list, then waits for an interrupt | thread, scheduler |
| semaphore (`os-semaphore.cpp`) | `count_`, waiting list | `post` (also in interrupts), `wait`, `try_wait`, `timed_wait`, `reset` | scheduler, clock |
| mutex (`os-mutex.cpp`) | `owner_`, `count_`, `boosted_prio_`, robustness flags, waiting list, link in the owner's list | `lock`, `try_lock`, `timed_lock`, `unlock`, `consistent`, `reset`, `prio_ceiling` | thread priorities, thread destruction |
| condition variable (`os-condvar.cpp`) | waiting list | `signal`, `broadcast`, `wait`, `timed_wait` | mutex |
| event flags, thread flags (`os-evflags.cpp`, `internal/os-flags.cpp`) | a mask, waiting list | `raise`, `wait`, `try_wait`, `timed_wait`, `clear`, `get` | scheduler, clock |
| message queue (`os-mqueue.cpp`) | circular index lists, free chain, two waiting lists | `send`, `receive`, timed and try forms, `reset` | scheduler, clock |
| memory pool (`os-mempool.cpp`) | chain of free blocks, count, waiting list | `alloc`, timed and try forms, `free`, `reset` | scheduler, clock |
| clocks (`os-clocks.cpp`) | tick counters, lists of time stamps | `os_systick_handler`, `sleep_for`, `sleep_until`, `wait_for`, `update_for_slept_time` | every timed call, timers, the switch |
| timers (`os-timer.cpp`) | node, period, state | `start`, `stop`, the interrupt routine | clocks |
| memory resources (`os-memory.cpp`, `memory/*.cpp`) | headers inside the arena, the list of free chunks, statistics | `do_allocate`, `do_deallocate`, `do_reset` | `malloc` and `operator new`, under the scheduler lock |
| POSIX I/O (`posix-io/*.cpp`) | table of descriptors, open counts of devices, mounts, lists of closed file and directory objects | `open`, `close`, `mount`, `umount` | device drivers, file systems |
| mail queues of the C API (`os-c-wrapper.cpp`) | a pool and a queue of addresses of its blocks | `osMailAlloc`, `osMailPut`, `osMailGet`, `osMailFree` | memory pool, message queue |
| adapters and the rest | — | C API, CMSIS API, ISO C++ threads, start-up, diagnostics, semihosting, newlib and device drivers | forward to the objects above |

### What is hard

* **Three kinds of mutual exclusion.** `interrupts::critical_section` excludes everybody,
  `scheduler::critical_section` excludes other threads but not interrupts, and some shared
  state is touched in neither (`state_` in `priority()`, `joiner_` in `join()`, nodes in
  `condition_variable::wait()`).
* **Wake-up without hand-over.** `post`, `unlock`, `free` and `raise` only make a thread
  ready; the woken call tests again, and may find nothing, be interrupted, or be late.
* **Nodes on stacks.** The waiting and timeout nodes live in the frame of the blocked call;
  clock interrupts, `post`, `kill` and the call itself all unlink them.
* **Death.** A thread can end on its own (two critical sections, then the idle thread) or be
  killed in the middle of any call, with mutexes, nodes and a joiner.
* **Priorities that move.** Assigned and inherited priorities change while threads are linked
  in lists that are sorted by them.
* **Work outside the critical section.** A message is copied with its block on no list;
  `timer::start` writes the time stamp, and `event_flags::raise` wakes, in steps of their own.
* **The clock interrupt.** It acts on every node that is due, one critical section for each,
  moves periodic timers in the list it walks, and may come late or many ticks at once.
* **Data in band.** The headers of the allocator lie in the words its users write to.
* **Opens that nest.** A partition opens the device below it, a file system opens a partition,
  and each of them can fail after the other succeeded.

### What makes each component correct

* semaphore: no lost wake-up, units and waiters meet, order of service, no node outlives its
  call, timed waits return, it counts like a counting semaphore;
* scheduler and threads: the ready list is sorted and complete, the most urgent ready thread
  runs, equals take turns, a dead thread stays dead, every ended thread is destroyed and its
  joiner woken, list assertions never fail;
* mutex: one owner, agreeing with the thread's list and counter; a free mutex is taken while
  somebody waits; owners are raised as the protocol says and fall back afterwards; the
  destruction of a thread frees its mutexes;
* condition variable: a signal after the unlock of `wait` is not lost;
* flags: a flag raised is seen by a waiting thread;
* message queue: order by priority, then by age; no message lost, doubled or changed while it
  is copied; memory pool: no block handed out twice, counts agree; both together: a block has
  one owner, on its way through the queue too, and nobody sleeps while there is one to be had;
* clocks and timers: the list is in order, everything due acts before the interrupt ends, no
  node outlives its call or its timer, timed calls return;
* allocators: chunks tile the arena, the free list is sorted and joined, counters agree, nobody
  writes into a block that is held, a second `free` changes nothing;
* POSIX I/O: descriptors, open counts and drivers agree, after failed calls too; a file or directory object is
  in one place.

## 2. The modules

| Module | What it is | Composes |
|---|---|---|
| `KernelLists` | the lists as sequences: search and insertion by priority, removal | — |
| `CountingSemaphore` | abstract: what `rtos::semaphore` promises | — |
| `Semaphore` | `os-semaphore.cpp` with the parts of list, clock and thread it reaches | `KernelLists`, refines `CountingSemaphore` |
| `Kernel` | scheduler, life of a thread, idle thread | `KernelLists` |
| `Mutex` | `os-mutex.cpp`, and thread destruction as the mutex sees it | `KernelLists` |
| `ScheduledMutex` | `Mutex` with the thread that runs: the tick and the yields switch it | `Mutex` |
| `Blocking` | the steps common to blocking calls, for several objects at once | `KernelLists` |
| `PriorityQueue` | abstract: what `rtos::message_queue` promises | — |
| `MessageQueue` | `os-mqueue.cpp` | `Blocking`, refines `PriorityQueue` |
| `MemoryPool` | `os-mempool.cpp` | `Blocking` |
| `Mail` | a pool and a queue that carries its blocks, threads and interrupt routines that use them | `MessageQueue`, `MemoryPool` |
| `Clocks` | `os-clocks.cpp` and its list | `KernelLists` |
| `Timers` | `os-timer.cpp` | `Clocks` |
| `EventFlags` | `os-evflags.cpp`, `os-flags.cpp`, the flags of a thread | `Clocks` |
| `Alarms` | clock, timers and flags with the threads and routines that use them | `Timers`, `EventFlags` |
| `FirstFitTop` | `first-fit-top.cpp` and `lifo.cpp` | — |
| `Descriptors` | the table of descriptors, devices, partitions, mounts, file and directory objects | `KernelLists` |
| `KernelListsProofs` | lemmas on the lists: elements, order, first and last node | `KernelLists` |
| `SemaphoreProofs`, `KernelProofs`, `MutexProofs`, `MailProofs`, `AlarmsProofs`, `DescriptorsProofs` | theorems on the module of that name | the module, `KernelListsProofs` |
| `FirstFitTopProofs` | theorems on `FirstFitTop` | `FirstFitTop` |
| `MC*` | instances for TLC | |

A module without a next-state relation (`Blocking`, `MessageQueue`, `MemoryPool`, `Clocks`, `Timers`,
`EventFlags`) gives the actions of one class; the module that composes it (`Mail`, `Alarms`) says who calls
them and holds the specification.

### How the models correspond to the code

**KernelLists.** A list is the sequence of its nodes' threads from head to tail.
`LinkAfter` is the position that the search in `waiting_threads_list::link` ends at (the
last node whose priority is not below the new one; the ready list has the same search, so the
operator stands for both); `Link` inserts there; `Unlink` is `unlink()`, ineffective for a
node that is not linked.

**Semaphore.** One action per `interrupts::critical_section`. A thread's `pc` says between
which two of them it is: `app` (outside), `loop` (before the section that tests and links),
`asleep` (between `reschedule()` and `internal_unlink_node`), `woken` (before the tests of
`interrupted()` and of the clock), `posted` and `resuming` (inside `post`, between counting,
popping and `resume()`). `list` is `list_`; `timers` is the set of nodes in the clock list,
and `left` the ticks until the time stamp, so that the clock itself needs no counter.
`PostFromISR` is the whole of `post` in an interrupt routine, which threads cannot interrupt.

**Kernel.** One processor: only `current` takes steps, each one a critical section or one
access to shared state outside of them. `switch` is the port's request: `reschedule()` sets
it, and nothing but an interrupt happens until `SwitchThreads` (the body of
`internal_switch_threads`) or, with the scheduler locked, `SwitchRefused`. Interrupt routines
(`Tick`, `ResumeFromISR`) come at any time. Functions that are not one critical section are
several actions: `priority()` assigns (`SetPriority`), tests (`TestReady`), relinks (`RelinkReady`), yields;
`internal_exit_` locks the scheduler and unlinks, gives the lock back, buries; `join` tests, publishes `joiner_`, suspends; the idle
thread checks, pops, destroys, wakes the joiner. `corrupt` records that an assertion of the
intrusive lists (`utils/lists.cpp:128-129`, node already linked; head of an empty list) fails.

**Mutex.** One action per `scheduler::critical_section`, with the exception that matters:
`internal_try_lock_` leaves the section (`scheduler::uncritical_section`) to raise a priority, in three accesses that are three actions.
`Acquire`, `Relock` and `Contend` end at the exit from the section (`BeginRaise`), `ReadOwner` loads `owner_`, `ReadBoost` loads
`boosted_prio_`, and `StorePriority` stores the priority on the thread loaded first, whatever it owns by now; `Proceed` and `LinkAfterRaise` are back in the section.
The end of `timed_lock` (`GiveUp`, `WalkList`, `RestoreBoost`, and the same three accesses for `owner_->priority()`) runs outside any section.
Nothing is assumed of the scheduler: between two sections any thread may take the next step, so that what holds, holds however threads of any priorities are
preempted. A thread that owns a mutex may stay in `app` for ever, which is how it sleeps elsewhere. `Calls` says which calls each thread makes on each mutex, and `Casts` which sets of threads exist together: an instance
with three casts is three applications in one run. `fault` records that a null `owner_` was used (`null`), that a
linked node was linked (`linked`), or that the assertion on `acquired_mutexes_` in `kill()` fails (`left`); nothing runs after it.

**ScheduledMutex.** `Mutex` allows more than one processor does, so what it refutes might be out of reach. This module adds `current`: only that thread takes steps, and `Switch`, at a tick or when it
suspends, and a yield at the end of `priority_inherited()` (`Yields`) make it one of the most urgent of the runnable threads. The threads are not compared otherwise:
`unlock()` lowers its caller through `priority_inherited(none)`, which returns without a yield (`os-thread.cpp:806-810`), and the reschedule that `resume()` asks for under the scheduler lock is
refused (`os-core.cpp:439`), so a thread that unlocked runs on below a more urgent one until the tick. `Sleep` blocks a thread elsewhere. It is the module of the violated run on mutexes and of the divergences.

**Blocking, MessageQueue, MemoryPool, Mail.** Each object that blocks has the same loop; `Blocking`
has it once, with one waiting list per name in `Lists` and `waitsFor` for the list of a call.
`MessageQueue` keeps the two index arrays, the head and the count as the code does; `Queued` reads the
messages off them, and `InsertionPoint` is the walk back from the tail. `ReceiveTakes` is
`internal_try_receive_` up to `scheduler::uncritical_section`, `ReceiveCopies` the rest; between
them the block is in `src` only. `MemoryPool` gives the block back (`Free`) before it wakes
(`FreePops`, `FreeResumes`); `reset` of the pool resumes one thread at a time (`ResetPops`), that of
the queue all of them in its critical section. In `Mail` the address of a pool block travels as a
message; `holds` is the owner of each block, a ghost that only the guards of the
callers look at: they send and free what they own. Interrupt routines try, and send a bare
`Event` besides. Since the blocks of one kind are interchangeable they are symmetric in the run.

The users of `Mail` keep these rules, which the code does not enforce: the queue is reset only while no
address is in it or being copied from it, the pool only while none of its blocks is out; the calls that may
time out (`Timed`) are those of `send`; nobody interrupts or kills a waiting thread, which `Semaphore` covers
for the same loop.

**Clocks, Timers, EventFlags, Alarms.** A time stamp is kept relative to the counter, so the clock
never ends; `checking` is true while the clock interrupt walks the list, during which no thread
runs. `Advance(1)` is the tick, `Advance(d)` `update_for_slept_time`; `WakeThread`, `TimerFires` and `CheckEnds` are
the turns of `check_timestamp`. `LinkStamp` is the search of `clock_timestamps_list::link`, which compares
the tail and the head first. `start` writes period and stamp (`StartStamp`), links (`StartLink`) and writes `state_`
(`StartMark`); the interrupt may come in between, at most `MaxLate` ticks. A raise sets the flags first
and wakes after. The three kinds of waits are those of an event flags object (`event`), of
a thread's own flags with a timeout (`thread`) and without (`plain`), the last of which leaves the
critical section between test and suspension (`PlainTests`, `PlainSuspends`). A timer has one
controller, which does not start it while it runs (`Restarted` is empty, see below).

**FirstFitTop.** The arena is kept word by word: `mem` holds sizes, links, offsets of aligned blocks and what the
callers write, in the same words as the code. A request is in words, to which `align_size` rounds it. `policy` is the
class, fixed at the start: `lifo` inherits everything but `do_allocate`. A call is one step, because
`malloc`, `operator new` and the pools make it under the scheduler lock. Assertions are off; an
out-of-memory handler that frees something is a `Deallocate` and another `Allocate`. Callers free what
they were given, and the last block perhaps twice.

**Descriptors.** The calls are made one at a time: nothing in `device::vopen` or in the table takes a lock. The
descriptors, counts and drivers are one record, `io`, since a call on a partition
makes another one in its middle, and the calls are functions of its value. A driver's `do_vopen` may fail (`works`). The `do_vmount` and
`do_umount` of a file system, which open and close its device, belong to the user's file system and are
modelled from how the layer calls them. File and directory objects are kept after `close` in the lists of their file system; the
next `open` or `opendir` uses the first again and deletes the others. A directory has no descriptor; a file that finds none is
returned all the same. Both are in `handed` until they are closed.

## 3. The runs

| Run | Question | Bounds |
|---|---|---|
| `semaphore_wakeups` | lost wake-ups, order, reachability, progress | 4 threads, 2 priorities, `max_value` 2 |
| `semaphore_timed` | timeouts, interruptions and kills racing posts; refinement | 3 threads, timeouts of 0 and 2 ticks, one interruptible, one killable |
| `kernel_scheduling` | sorted ready list, most urgent runs | main, idle and 3 threads, 2 priorities; main locks the scheduler, the others change their own priority |
| `kernel_lifecycle` | exit, kill, join, funeral, inheritance; taking turns | main, idle and 2 threads, one that returns, one killed |
| `mutex_shared` | ownership, assertions, plain mutexes taken again, ceilings and boosts across several mutexes, with timeouts, interruptions, kills and resets | three casts of 3 threads, any of which may step next; two inherit mutexes, two protect ones, one without a protocol; a normal, a recursive and three error-checking ones; recursion 2 |
| `mutex_free` | **violated**: finding 1 | 3 threads under the scheduler, 2 inherit mutexes |
| `join_killed` | **violated**: finding 3 | those of `kernel_lifecycle` |
| `pooled` | blocks and messages conserved, queue order (refinement), wake-ups | 3 threads of 2 priorities, two produce and two consume; a pool of 2, a queue of 3, 2 message priorities, timed sends |
| `alarms` | the clock list, due nodes, flags, return of timed calls | 2 threads, a one-shot and a periodic timer, 2 flags, durations of 2 ticks, a sleep of 2, starts up to 1 tick late |
| `flags_lost` | **violated**: finding 2 | the same |
| `first_fit` | tiling, joining, statistics, intact blocks, double frees | 9 words; sizes 0 and 2, alignments 1 and 4; both classes |
| `descriptors` | descriptors, counts, drivers, objects agree | a disk with 2 partitions and a file system on each, 3 files, a directory, a table of 4, 2 opens of each device |

Why the bounds are enough to be interesting. Three sleeping threads of two priorities give a
waiting list with a head, a middle and a tail, all four cases of the insertion, and a wake-up
that can go to the wrong one; `max_value` 2 reaches both limits of the count and two posts in a
row. In the kernel, main and two more threads can be running, ready and ended at once while a
fourth, idle, buries; one of the two returns and joins, the other is killed and joined, also in the middle of the `join()` that waits for it. An order of the ready list can go wrong only with three threads ahead of
idle that are linked while one more runs, hence the fifth thread of `kernel_scheduling`; its
properties were also checked with a sixth, and the safety properties of
`kernel_lifecycle` with a fifth. Each cast of `mutex_shared` is the least that exercises one kind of sharing. In the first, `mid` and `low` own two protect mutexes at a time, whose ceilings are above both, and lock and unlock them in
any order; `low` owns beside them an inherit mutex (of `high` and `low`), so that its boost must survive four other calls; `mid` is killed in the middle of any of them, and the protect mutex `mutex2` is robust. In the second an
owner is waited for with a timeout, by a thread that can be interrupted, while a third one tries the mutex and is killed. In the third, three threads that never give up queue for one recursive mutex, of
which unlock wakes one. Every thread is preempted anywhere: 1,361,665 states.

In `pooled` a queue of three blocks has a message in the middle of the circle, so that a new one can go to the head, the tail or
between, and be the second receiver's while the first one copies; a pool of two
is emptied by the two producers or by one and the interrupt routine, so each of the three lists gets waiting threads, and with the interrupt routine's
events the queue is full before the pool is empty. In `alarms` the list holds up to four nodes (both threads and both timers), all of
which may be due at once after a sleep of two ticks, when the periodic timer is up to two periods late; the safety properties were also checked with a third thread
(16.2 million states). Nine words hold three chunks, so that a free one can have both neighbours free, one or none, a remainder too small to split, and
an alignment gap; ten words with sizes 1 and 2, and with sizes 0 and 2 and alignments 1, 2 and 4, were also checked. Four descriptors are used up by two devices and two files, so
each kind of open meets a full table, at the outer and at the inner call.

No counter of the models is unbounded: counts stop at `MaxValue`, `MaxCount` and the number of blocks, ticks count
down, time stamps are relative; the only bounds on behaviours are `MaxOpens` and `MaxLate`.

### What the violated runs show

1. **`mutex_free`** (`os-mutex.cpp:736-741`). `internal_try_lock_` found an owner and leaves
   the critical section to raise it; the owner runs, unlocks, and wakes nobody since nobody is
   queued yet. The caller then links itself and suspends on a mutex that is free. In the trace `mid` owns the mutex, `high` raises it and yields; `mid` unlocks, which lowers it
   without a yield, runs on below `high` and locks once more. At the tick `high` tries again, this time from the loop of `lock()`, raises and yields; `mid` unlocks; at the next tick `high` links itself.
2. **`flags_lost`** (`os-thread.cpp:1357`). `flags_wait` of a thread tests its flags in one critical section
   and suspends in another. Flags raised in between resume a thread that is running, to no effect; it then sleeps with its
   flags raised, until somebody raises one again. The timed form and event flags objects do both in one section.
3. **`join_killed`** (`os-thread.cpp:930-933`). `join()` tests `state_`, sets `joiner_` and suspends, in three steps. If the target is killed after the first, `kill()` finds
   no joiner to resume, and the caller suspends on a destroyed thread for ever, against "Suspend execution of the calling thread until the target thread terminates, unless the target thread has already
   terminated." (`os-thread.cpp:889-890`). Once the joiner sleeps, every end of the target wakes it: that is `EndWakesJoiner`, in `kernel_lifecycle`.

### Known divergences

More disagreements between the code and its documentation, each reproduced by an instance that differs from a run's configuration
in the constants named. The passing runs keep away from them by their constants.

* *A wake-up is consumed by a late call* (`os-semaphore.cpp:678`). `post` wakes the head of the list; the woken `timed_wait`
  finds its time over and returns `ETIMEDOUT`, and nobody is woken instead, although the count is positive, against
  "If the semaphore count resulting from this operation is positive, then no threads were blocked waiting for the semaphore to become unlocked."
  The next post repairs it. `MCSemaphoreTimed.cfg` with `Timeouts = {1}`, nobody interruptible or killable, `Spec`, `INVARIANTS NoStrandedWaiter`.
* *A thread that ended comes back* (`os-thread.cpp:744`). `priority(prio)` tests `state_ == ready` and relinks in a critical section of its own.
  If the thread returns from its function in between, its node goes to the ready list. `MCKernelLifecycle.cfg` with
  `Priorities = {2, 3}`, `Tunes <- MCAnybodyTunesA`, `Joinable`, `Joiners`, `Killable`, `Inheriting` and `LockUsers` empty, `Spec`, `PROPERTIES NobodyComesBack`.
* *The ready list is not sorted* (`os-thread.cpp:733`). The priority of a ready thread is assigned before interrupts are masked; an
  interrupt that links another one searches a list out of order, and after the node has moved, a less urgent thread stays ahead.
  `MCKernelScheduling.cfg` with `Tunes <- MCAnybodyTunesA`, `LockUsers = {}`. A thread that changes its own priority is normally not linked,
  hence `MCOwnPriority`; the exception is one that an interrupt has resumed while it holds the scheduler lock.
* *Inheritance is not propagated* (`os-mutex.cpp:734-741`). `low` owns a mutex and waits for another one, of `mid`. `high` asks for the first, and `low` is raised;
  nobody looks whether it waits itself, so `mid` stays below `high` (and `low` keeps its place in the waiting list), against "the same priority
  inheritance effect shall be propagated to this other owner thread, in a recursive manner" (`os-mutex.cpp:204-208`).
  `MCMutexFree.cfg` with `Calls <- MCChain`, `INVARIANT OwnerInherits`.
* *A late store lowers the owner* (`os-mutex.cpp:739`, `os-thread.cpp:804`). A contender compares its priority with the owner's inherited one in the critical section, and stores it outside. Between the load and
  the store a more urgent contender raises the owner and links itself; the store lowers it again, below a thread that waits for its mutex.
  `MCMutexFree.cfg` with `INVARIANT OwnerInherits`.
* *A late store lowers an owner below its ceiling* (the same lines). The owner has raised itself to a ceiling in between, against "it shall execute at the highest of the priorities that it would
  have obtained by each of these protocols" (`os-mutex.cpp:177-179`). `MCMutexFree.cfg` with `Protocol <- MCMixed`, `INVARIANT CeilingHolds`.
* *A late store raises a thread that owns nothing* (the same lines). The owner wakes and unlocks in between, and keeps the boost until it unlocks another boosted mutex. `MCMutexFree.cfg` with `INVARIANT BoostEnds`.
* *A null owner is raised* (`os-mutex.cpp:739`). The owner wakes and unlocks before the contender loads `owner_`. `MCMutexFree.cfg` with `INVARIANT OwnerExists`.
* *A node is linked that is linked* (`os-thread.cpp:1052`). An interrupt resumes a thread inside its own exit, after it left the ready list, while it still holds the scheduler locked:
  the switch that the interrupt asks for is refused, so the thread runs on, and joins the terminated list with a node that is in the ready list again.
  `MCKernelLifecycle.cfg` with `LateResume = {a}`, `Spec`, `INVARIANT ListsSound`.
* *The head of an empty list is taken* (`os-idle.cpp:75`). Idle found a terminated thread in its list; before it takes the head, that thread is killed, which removes it. `MCKernelLifecycle.cfg` with `Exiting = {a, b}`,
  `Joiners = {main}`, `Spec`, `INVARIANT ListsSound`.
* *lifo returns a chunk that is too small* (`lifo.cpp:85-87`). The chunk is set before its size is compared, and returned while it stays in the free
  list, against "If this block is not large enough, the allocation fails". `MCFirstFitTop.cfg` with `Policies = {"lifo"}`, `Overrun = TRUE`,
  `Sizes = {3}`, `Alignments = {2}`: `ArenaSound` fails. The run asks lifo only for what its first chunk holds (`Overrun = FALSE`).
* *The root is unmounted first* (`file-system.cpp:597`). `umount` clears the path before it finds that the root is busy: the call fails, but has unmounted it,
  against "it cannot be unmounted if other mount points exists". `MCDescriptorsFew.cfg` with `RootLast = FALSE`, `PROPERTIES RootUnmountedLast`.
* *A running timer is started again* (`os-timer.cpp:280`). `start` writes the time stamp of a node that is linked, outside any critical section: the
  list is out of order until the node is moved, and a node linked meanwhile is placed by the new value.
  `MCAlarmsClock.cfg` with `Restarted = {once, beat}`: `ClockListSound` fails.

Met on the way, and kept out of the passing runs by their constants or by the sets of mutexes that the properties name:

* a protect mutex whose ceiling is below the caller's priority, also one that another mutex has raised, stays in its list and in `acquired_mutexes_` (`os-mutex.cpp:606-617`); hence ceilings at the top;
* a `timed_lock` that gives up while others still wait assigns the owner's own priority, for good, and sets the boost to the most urgent of them, be it below what the mutex has
  (`os-mutex.cpp:1287-1291`); it finds others where three threads share the mutex, and where a mutex of type normal is locked again by its owner. Hence `Lowerable`, which the properties on priorities leave out;
* a thread that gives up, or is killed, after `unlock` chose it loses the wake-up, and a third one stays asleep; hence `Plain`;
* a less urgent contender overwrites `boosted_prio_` (`os-mutex.cpp:723-724`), to which a later unlock of another mutex then lowers the owner; hence `Alone`;
* `reset()` of an owned mutex leaves `acquired_mutexes_` (hence `ResetOwned = FALSE`); killing the owner of a recursive mutex locked twice leaves it locked (hence nobody who is killed locks one);
* a killed thread that is itself joining stays in the other's `joiner_` (hence `Joiners` and `Killable` are disjoint); lowering an
  inherited priority does not relink (`os-thread.cpp:806-810`; hence no inheritance in `kernel_scheduling`); a thread that is killed inside `post`, between popping a waiter and
  resuming it, leaves the waiter asleep and in no list (hence nobody is killed in `semaphore_wakeups`);
* `reset()` of a queue while a receiver copies frees its block twice, and `reset()` of a pool
  with blocks outstanding lets a later `free()` push one twice (hence the guards of `ResetQueue` and `ResetPool`); a timed send that was woken and is late strands another sender
  as it does for the semaphore (hence `NoLostWakeup` speaks of the lists that are not in `Timed`).

### Fairness

Safety runs use no fairness. `Semaphore` assumes weak fairness of each thread inside a call
and of the clock: threads of one priority are preempted in turn by the tick, and a thread
that can run for ever is run. `Kernel` does not assume that but shows it (`EqualsTakeTurns`):
it assumes that a requested switch happens (the port's exception), that the clock ticks again
and again while the scheduler is unlocked, that a thread that locks the scheduler unlocks it,
and, strongly, that a thread gets to its next step in the kernel: ticks are rare
compared to instructions, so a thread cannot be preempted for ever in front of one step.
`TerminatedAreDestroyed` has in its formula the condition that the idle thread runs again and again,
since nothing in the code makes it run while somebody else is ready.
`Alarms` assumes weak fairness of the clock interrupt, which comes back and ends, and strong fairness of each thread inside a call,
whose next step the interrupt disables again and again and cannot disable for ever; its threads have one priority.
No run assumes that an application thread makes a call.

## 4. The proofs

Every theorem holds for any finite sets of threads, objects and values and any constants that satisfy the modules' named assumptions.
Column *assumes* names what else is assumed of the constants; a dash means nothing. Each hypothesis that is not empty was tried without:
the counterexamples that TLC gives are listed with it, and are behaviours of the code.

| Module | Theorem | Property | Assumes |
|---|---|---|---|
| `KernelListsProofs` | `LinkElements`, `UnlinkElements`, `LinkSorted` | linking adds just the new node, unlinking removes just it, both keep the order | — |
| `SemaphoreProofs` | `TypeCorrect` | `TypeOK`, with the count in `0..MaxValue` | — |
| | `StackSafety` | `StackNodesUnlinked` | — |
| | `TimedSleepers` | `TimedSleepersHaveTimer` | — |
| | `WakeupsNotLost` | `NoLostWakeup` | `Patient` |
| | `SleepersAreReachable` | `SleepersReachable` | `Killable = {}` |
| | `WokenInOrder` | `WakeOrder` | — |
| | `ImplementsCounting` | `RefinesCounting` | — |
| `KernelProofs` | `TypeCorrect` | `TypeOK` | — |
| | `ListsAreSound` | `ListsSound` | `Orderly` |
| | `NoThreadIsLost` | `NoThreadLost` | `Orderly` |
| | `EndIsFinal` | `NobodyComesBack` | `Orderly` |
| | `EndsWakeJoiners` | `EndWakesJoiner` | `Orderly` |
| | `JoinersGetWoken` | `JoinersAreWoken`, violated in `join_killed` without the second hypothesis | `Orderly`, `Joinable` and `Killable` disjoint |
| | `ReadyListIsSorted` | `ReadySorted` | `Orderly`, `OwnPriorities` |
| | `TheMostUrgentRuns` | `MostUrgentRuns` | `Orderly`, `OwnPriorities` |
| `MutexProofs` | `TypeCorrect` | `TypeOK` | — |
| | `OwnersAgree` | `OwnershipAgrees` | `Regular` |
| | `AssertionsKept` | `AssertionsHold` | `Regular` |
| | `PlainMutexTaken` | `PlainMutexIsTaken` | `Regular` |
| | `OwnersAtCeiling` | `OwnerAtCeiling` | `Regular` |
| | `CeilingsEnd` | `CeilingEnds` | `Regular` |
| | `BoostsLast` | `BoostLasts` | `Regular` |
| `MailProofs` | `MailTypes` | `TypeOK` | — |
| | `QueueBlocksAccounted` | `BlocksAccounted` | — |
| | `NoMailIsLost` | `MailConserved` | — |
| | `NoWakeupIsLost` | `NoLostWakeup` | — |
| | `QueueIsAPriorityQueue` | `RefinesQueue` | — |
| `AlarmsProofs` | `TypeCorrect` | `TypeOK` | — |
| | `NodesAreLive` | the part of `ClockListSound` that is not its order | — |
| | `FlagsAreNotLost` | `NoLostFlag` | — |
| | `ClockListIsSound` | `ClockListSound` | `Restarted = {}` |
| | `TheClockSettles` | `ClockSettles` | `Restarted = {}` |
| `DescriptorsProofs` | `CountsAreUsers` | `OpensAgree` | `RootLast` |
| | `ObjectsHaveOnePlace` | `FilesAccounted` | — |
| | `FailedOpenIsUndone` | an open that fails changes nothing | — |
| `FirstFitTopProofs` | `ArenaStaysSound` | `ArenaSound` | `~ Overrun`, or no `lifo` |
| | `BlocksStayIntact` | `BlocksIntact` | `~ Overrun`, or no `lifo` |
| | `SecondFreeIgnored` | `FreeAgainIgnored` | `~ Overrun`, or no `lifo` |

**Lists.** `KernelListsProofs` proves for any elements and any priorities what insertion and removal at a position do to the elements, the length, the order, the
first and the last node. `Link`, `Unlink`, `Tail` and the clock list's `LinkStamp` are instances, so every module's proof cites these and none
of them looks at the search again.

**Semaphore.** The inductive invariant behind the first two theorems is `Base == TypeOK /\ StackNodesUnlinked`: the
type alone is not inductive, since `Unlink` and `Link` keep a list free of duplicates only
together with the fact that a thread that links is not linked. `NoLostWakeup` needs in
addition that nobody is excused (`Patient`: nobody is interrupted, killed or given a timeout); without it the property is false, as the first known divergence shows. The argument
is about the cardinality of the set `Pending`: each action that raises the count adds a post
to it, each that takes a thread out of it takes a unit or finds the count at zero.
`SleepersReachable` is false when a thread is killed inside `post`, between popping and
resuming another one; hence its assumption. `WakeOrder` relates positions in two states: what is left of a list is the image of an increasing map into the old one (`OrderOfPart`), and a sorted list
is needed for where a new thread goes. The refinement maps `value` to `count`, `waiting` to the
threads inside the call, and `excused` to those interrupted or late.

**Kernel.** `Base` (types, nodes that are apart, references to threads that exist) holds of every application. `Order` is what an orderly one keeps: which steps of the calls a thread of each
state can be at (`Phases`), in which list it is linked (`Listed`), how far the end of a thread
has come (`Ended`, `Killing`), and that whoever is waited for by a joiner has it in `joiner_` or is on its way to look (`Joined`, `Asleep`,
`OneJoiner`). `IdleGivesWay` says that idle is the least urgent and last in the ready list, hence never runs while another thread could; without it a thread that
locks the scheduler could be idle. `EndIsFinal` is an action property: each step of `OrderStep` proves it beside the invariant.

`Orderly` asks that nobody resumes a thread that is inside its own exit, that no thread is both killed and ends by itself or joins, that
nobody else changes the priority of one that may end, and that one that ends does not hold the scheduler locked. Dropping `LateResume = {}` violates `ListsSound`; dropping the second disjointness (`Killable` and `Joiners`),
`Inheriting` apart from `Exiting` or from `Killable`, or the condition on `Tunes` violates `NobodyComesBack`; `Killable` and `Exiting` together violate `ListsSound`, `Exiting` and `LockUsers` together `NoThreadLost`.
Both kernel runs satisfy it.

`EndWakesJoiner` looks at single steps: a thread asleep in `join()`, whose target lives or was destroyed by somebody on the way to resume `joiner_`, is in the same position after the step, or awake. `Order` has for it that such a sleeper
is in `joiner_` of its target. It says nothing of a thread that falls asleep too late, which is the case of `join_killed`; `JoinersAreWoken` excludes that state too, and is proved only for
targets that are not killed, for which the test, the store and the suspension of `join()` cannot be overtaken by the end: a target that returns is destroyed by idle, after `joiner_` is set or before the test.

`OwnPriorities` (a thread changes no priority but its own, and not while it locks the scheduler; nobody inherits) is what the order of the ready list needs: the priority is assigned before the node moves, and a thread linked in between is
placed by a misplaced neighbour (third known divergence). The invariant, `Scheduled`, adds to the order of the list that the running thread is at least as urgent as its head or about to give way.
`kernel_scheduling` satisfies it.

**Mutex.** No theorem has a hypothesis on the scheduler or on priorities. `Typed` holds without any: `TypeOK`, a thread inside a call wants a mutex that it uses, `acquired_mutexes_` is at least the number of mutexes owned (so `--acquired_mutexes_`
does not pass below zero, even after a `reset` of an owned mutex), and assigned priorities are not `none`. `Inv` adds what `Regular` buys: no boost, and no priority about to be stored, is above a ceiling (`Below`, `Underway`),
only users own, mutexes are consistent unless their only killable user is gone, destroyed threads own nothing, and the counter is exact. Every step is first classified
by what it does to one mutex (`StepKinds`: taken, given back, renewed, or nothing; and `Kill`), and the counters are compared with the owners kind by kind.

`Regular` asks that ceilings are at the top (as the default, `priority::highest`, is), that an owned mutex is not reset, and that a
killable thread locks nothing recursively and shares no robust mutex with another killable one. Without each of these `OwnershipAgrees` is violated: by the early return with `EINVAL`
(a ceiling below a priority, or two different ceilings), by `reset`, by a recursive mutex locked twice, and by a second owner killed while the mutex is not recoverable.
`mutex_shared` satisfies it.

The properties on waiting and on priorities name the mutexes and threads they speak of by who uses what (`Calls`), since the code breaks the general statements (known divergences):

* `Plain`: mutexes without inheritance, of two users, or whose users never leave a call early. Test and link are then one critical section, and a wake-up that is dropped strands nobody.
* `Raisable`: users of inherit mutexes, whose priority others store at any time. Of the remaining threads `OwnerAtCeiling` and `CeilingEnds` speak, whatever is shared by the others.
* `Lowerable`: mutexes where a `timed_lock` that gives up may find another thread in the list.
* `Alone`: inherit mutexes of two threads that share nothing else through which priorities are stored. Of these `BoostLasts` says that a boost, once in force, lasts; the owner may hold protect mutexes besides. It does not say that every owner
  is raised: a raise that comes late is the first finding.

The invariant is `Inv /\ Peace`. `Queued` ties the waiting lists to threads asleep in a call for that mutex; `Asking` and `OneAsks` say that of two users of a mutex one at most is inside a call for it that it does not own, so that
a mutex of a `Pair` with a waiting thread cannot be free (`Waited`), and one of three or more patient ones has a caller awake on the way. `Patience` says who may leave a call early, `Restoring` where that touches priorities.
`SelfRaised` follows the owner of a protect mutex through its three accesses, during which nobody but itself stores to it; `AtCeilings` compares the boost of a
protect mutex with its ceiling from the critical section on, and excuses the owner until its store. `Boosted` says that whoever inherits owns a boosted mutex, whose unlock clears it. For `BoostLasts`, `AloneUsers` and `AloneStore` show that a store to the owner
can only come from the other user, which is asleep, or from the owner itself, to a ceiling that is not below; `AloneKeeps` that an unlock leaves the highest boost of what is still owned.
TLC checked `Inv` and `Peace` on the constants of `mutex_shared`.

**Mail.** `Inv` is `Shape` (the types of the three parts), `Placed` (the index arrays form one circle of `count` blocks, disjoint from the free chain and from the blocks being copied), `Waits` (a waiting list
holds threads inside its call, once) and `Owned` (the owners of the pool's blocks). The circle is walked by a function, `Hops`; what `send` does to the walk is proved once, for the links between consecutive blocks. `NoWakeupIsLost` is
`Provided`, a comparison of cardinalities as for the semaphore, for each of the three lists and with blocks that come back by `free`, `reset` or the end of a copy. The refinement reads the messages along the circle
(`Along`) and maps the block in a receiver's hands to the promise's message being delivered; the insertion point of the walk from the tail is that of the priority queue (`PlaceFor`).

**Alarms.** `Inv` says of each node in the clock list that it is alive, of each thread in a call which arguments the call has (`InCall`), of a timer that `stop` unlinked that it is not linked again (`Stopped`), and of the sleepers on an event flags object that they are
in its list or in the hands of a `resume_all`. `Sorted` is apart since it needs `Restarted = {}`: a time stamp written into a linked node puts it out of order (last known divergence;
`Restarted = {beat}` violates `ClockListOrdered`). The order is that of `LinkSorted` with the priorities turned round (`Urgency`), and `TheClockSettles` follows from it: when the head is not due nothing is.

**Descriptors.** The calls are functions of `io`; lemmas state for `Allocate`, `Deallocate`, `Open` and `Close` what they change and that table and descriptors stay inverse. `Counted` compares the open count of
each device with its users: opens of the application, open partitions on it, mounted file systems. Without `RootLast` it is only an inequality, since the refused `umount` of the root forgets a mount. `FailedOpenIsUndone`
is stated of the function, for every state that satisfies the invariant.

**FirstFitTop.** The free list lives in the words of the arena, so what it contains cannot be defined without following it. The inductive invariant says instead that
some set is the free chunks, `\E F \in SUBSET Words : Arena(F)`, and nothing in it follows a list: `Chain` says that each link leads to the next element of `F` in address order, and `FreeIs` that such a set is the one
`FreeSet` reads off the links. `Arena(F)` is `Layout` with the statistics as cardinalities. `Layout(m, head, F, X, L)` says of a memory that free chunks, chunks in hand (`X`) and chunks of live blocks tile the arena (`Tiles`), that the links run
through `F` in order (`Chain`), that no two free chunks touch (`Gaps`), and that each block is aligned, in its own chunk, and holds what its caller wrote, with the gap in the word before it where there
is one (`Holds`). Each branch of `do_allocate` and `do_deallocate` is then a few moves between layouts, each a lemma: a chunk is split or unlinked
and filled, or taken back and then put first, inserted between its neighbours, or joined with one or both. For a second `free` the invariant keeps that the old header is inside a free chunk, whatever was joined since.

The hypothesis excludes only `lifo` asked for more than its first chunk holds, which violates `ArenaSound` (known divergences). TLC checked `Arena(FreeSet)` as an invariant on the constants of the run (113,906
states) and on an arena of 8 words at address 1 with sizes 0, 1 and 3 (4,752 states).

Only model-checked:

* liveness (`UnitsAreTaken`, `TimedWaitReturns`, `EqualsTakeTurns`, `TerminatedAreDestroyed`, `TimedCallsReturn`): out of the prover's reach.

Every other property of a passing run is stated by a theorem, under the hypotheses of the table.

## 5. Not modelled, and the plan

Not modelled:

* condition variable: `wait` unlocks the mutex, links its node outside any critical section and locks the mutex again
  (`os-condvar.cpp:540`). It never suspends on the condition, so there is no waiting to state a property of;
* ISO C++ threads, most of the C and CMSIS API: each function converts its arguments and results and makes one call; the mail queues are the exception, and modelled;
* buffered serial device: it derives from a class that the repository no longer has;
* start-up, diagnostics, semihosting, C library and vendor driver wrappers: no state that the rest relies on, or code that runs once;
* parts of modelled components: the `prev` and `next` pointers of the intrusive lists, thread children and stacks, `sleep_until` and the adjustable clock, interrupted and killed waits
  of the queue, the pool and the flags, `block_pool`, sockets (unfinished: `socket()` calls through a null net stack), terminals, block sizes, interleaved calls of the POSIX layer (nothing there is locked: two interleaved opens
  of one device both open its driver).

`PROJECT.json` lists every component with its reason.

Proved so far: every safety and action property of the passing runs, and both refinements. What a continuation would take up, most important first:

1. The composition of mutex and scheduler: `ScheduledMutex` with the ready list of `Kernel` in the place of `MostUrgent`, so that the order of the ready list under inheritance can be stated.
2. The intrusive lists at the level of `prev` and `next`, refining `KernelLists`.
3. Interrupted and killed waits of the queue, the pool and the flags, as `Semaphore` has them.
