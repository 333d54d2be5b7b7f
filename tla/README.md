# A TLA+ model of minicloudservice

This directory models the repository's concurrent core: thread pools and the kernels
built on worker threads; task, resource and storage managers and the synchronisation
primitives they use; the tree of kernels and its managers, the tiers and their
balancing; the two engines, the managers of containers and cloud instances, and the
program that starts and stops it all. Modules are checked by TLC on small instances,
and the safety of those whose state is not a stack of calls is proved with TLAPS for
every value of the constants.

Contents: [the system](#the-system) · [the models](#the-models) ·
[runs](#runs-and-bounds) · [fairness](#fairness) · [proofs](#proofs) ·
[limits](#what-is-not-modelled) · [plan](#plan)

## The system

The repository holds three generations of one engine. `src/фыв/` is the current one
(C++ sources under `src/core`, headers under `include/core`);
`src/src/core/engine.cpp` with `src/include/core/engine.h` is an earlier engine; the
headers at the root of `src/`, those of `src/oblachki/core` and `src/test.cpp` are
the first drafts. Tests, docs and scripts are empty files, so the comments in the
code are its only documentation. The sources do not build as they stand in every
place (`BaseKernel::stop` passes a `lock_guard` to a condition variable, for
example); the models read such code as what it evidently means and say so in the
module.

| Component | State | Operations | What makes it correct |
|---|---|---|---|
| **ThreadPool** `thread_pool.cpp` | queue of tasks, flags `stop_`, `pause_`, vector of threads, unlocked counters | submit, pause, resume, setThreadCount, setMaxQueueSize, stop, start; the worker loop | every accepted task is run once; no wakeup is lost; stop() returns and drops nothing accepted in time; the counters never make an event up |
| **BaseKernel** `kernels/base_kernel.hpp` | task queue, run/pause/shutdown flags, `active_threads_`, `task_count_` | start, stop, pause, resume, submit; the worker loop | as above, and stop() sees the last worker leave; `task_count_` is exact |
| **High/Medium/Low kernels** `kernels/{high,medium,low}` | BaseKernel plus named tasks, a batch, or a background queue with a worker and a monitor | add, remove, boost, preempt, process a batch; submit_background, throttling, expiry | a task runs once; a worker that gives up a task leaves the kernel able to stop |
| **kernels::KernelManager** `kernels/kernel_manager.*` | the three kernels, copies of their limits, one reading of metrics | start, stop, submit, scale_kernels, balance_load | a pass moves no more than the surplus it saw; a ceiling holds for each tier |
| **KernelBase**, **KernelFlags**, **SystemInfo** `kernel_base.cpp`, `kernel_flags.cpp`, `system_info.cpp` | lifecycle, limits, message count; process-wide flags; readings of load and memory | start, stop, pause, messages, setters, adaptation, flags | limits stay in range through adaptation and flags in any order |
| **ParentKernel** `parent_kernel.cpp` | children, quotas, distributions, four mutexes, two threads | register, start, stop, pause, monitor, recover | a child marked active runs; locks are taken in one order; a parent can stop |
| **KernelManager** `kernel_manager.cpp` | kernels, configs, statuses, three mutexes, a monitor | register, configure, start, stop, monitor, handle, recover | what is registered is complete; recovery ends; no lock cycle |
| **TaskManager** `task_manager.cpp` | pending queue, running and settled maps, counters | submit, cancel, assign, process, report | a task is in one place and settles once |
| **ResourceManager** `resource_manager.cpp` | resources, pools, index by type | allocate, release, add and remove pool | the three maps agree; a pool is not exceeded |
| **DataStorage** `data_storage.cpp` | items, counters, an append-only file | store, update, delete, metadata, cleanup, compact, load | what was stored is found after a restart; counters never wrap |
| **sync_utils** `sync_utils.hpp` | circular buffer, blocking queue, LRU cache | push, pop, stop, get, put | FIFO order, no lost signal, recency order |
| **WorkStealingQueue, PriorityTaskQueue** `thread_pool.hpp` | ring with two ends; heap with a stop flag | push, pop, steal; push, pop, stop | an item is taken once; consumers see the stop |
| **ContainerManager** `container_manager.cpp` | containers and their metrics, a mutex each, a monitor, a callback | create, start, stop, delete, metrics, monitoring | both tables agree where the locks allow it; no threads wait for one another |
| **DistributedEngine** `distributed_engine.cpp` | parts, three OpenSSL contexts, run flags | start, one try block per operation, handleFailure, emergency and graceful stop | a failure is handled in finitely many steps |
| **CoreEngine** `src/src/core/engine.cpp` | run flag, subsystems, io context, work pool | start, emergency stop, graceful shutdown, destructor, maintenance | a stop returns, once |
| **CoreService**, **main** `core_service.cpp`, `main.cpp` | run flag, detached event thread, seven components | start, shutdown, signal handler, exit | a signal ends the program; nothing runs after the end |
| **CloudIntegration** `cloud_integration.cpp` | instances, metrics, balancers, groups, snapshots, quotas, a monitor | start, stop, scale, balance, snapshot | scaling does not deadlock; ids are unique |
| **BlockchainKernel**, **NetworkKernel** | a chain; connections | – | not modelled, see [below](#what-is-not-modelled) |
| loggers, ledger, platform headers, utilities | files, wrappers, declarations | input and output | not modelled |

How they interact: `main.cpp` builds CoreService and the managers and starts and
stops them in order; a signal may do the same from within either thread. Kernels own
worker threads and run tasks that are opaque closures; managers call kernels with
their own mutexes held, which is where lock order matters; monitors (ParentKernel,
KernelManager, ContainerManager, CloudIntegration, LowPriorityKernel) are threads
that sleep, look and call the same operations as users. Inside one of these
components several threads share state; between them there are few calls: the pools,
the managers and the storage share nothing, a manager of kernels sees of a kernel
its lifecycle and its limits, the balancer its queue and its metrics. Each is
therefore a model of its own, and a composite module puts those of one layer side by
side.

The hard behaviours are notifications sent after an unlock or to the wrong
condition, counters changed outside the lock, joins with a mutex held or of a thread
that has no reason to end, mutexes locked again by their holder, failure handlers
that fail and call one another, decisions made from stale readings, workers that
start before or after the flag they test, maps that must agree, a signal handler
that interrupts the code it calls, and a file that is appended to, torn and
replaced. `PROJECT.json` lists them as hazards, line by line, with the properties
that cover each.

## The models

Each module has one action per operation or critical section; a step ends where the
code releases its lock or reads something it will use later without the lock. What a
component promises to others is a module of its own where that is more than a list
of invariants (`DurableMap`, `BoundedFifo`). `MC*.tla` and the `.cfg` files hold the
small instances. Definitions introduced by a comment "Mutant:" are broken variants
of the definition that follows them; nothing in the specifications uses them, and
each shows that a property would notice the bug it names.

### ThreadPool (`ThreadPool.tla`, `ThreadPoolProofs.tla`)

`queue`, `stop`, `pause`, `limit` are the fields of that name; `size` and `capacity`
are those of the vector `workers_`, and `worker[w]` is the program counter of the
thread in slot `w`. `worker = "top"` is the loop head, where the thread takes the
lock and evaluates the predicate of the wait. `submitTask` is two steps (`Accept`
under the lock, then `Notify`); a rejection keeps the lock between the read and the
write of `failed_tasks++`. `setThreadCount` with a smaller count and `stop()` are
two and three steps, because they block in `join`. Unlocked increments are a read
into `seen` and a later write. History variables record which tasks came too late
(`late`: accepted with `stop_` set or no thread alive) and whether a `resume()`
found a backlog.

The model shows, besides what the properties say, that `resume()` notifies
`pause_condition_`, on which nobody waits: sleeping workers stay asleep until the
next submission. `NoLostWakeup` names this as the only way to stall.

### BaseKernel (`BaseKernel.tla`, `BaseKernelProofs.tla`)

Workers exist from the constructor on. `Arrive`, `Depart` and `Announce` are the
three unlocked announcements (`active_threads_` up, down, and the notification of
`stop()`); `Check` and `Block` are the evaluation of the predicate and the sleep of
`stop()`, between which `mutex_` is held but does not stop announcements. `missed`
records the two ways `stop()` hangs: a departure announced between `Check` and
`Block`, or a `Check` that saw zero because a worker had not arrived yet and then
joins it with the mutex held. `StopReturns` says that there is no third one, for an
unpaused kernel. (A paused worker of a stopped kernel with work left spins in the
loop: `stop()` then never returns unless somebody resumes.) Since workers that find
the kernel not running leave, and a second `start()` creates none, tasks may be
accepted with no worker left: `late` names them.

### DataStorage (`DataStorage.tla`, `DurableMap.tla`, `DataStorageProofs.tla`)

The file is `log` (the readable records), `torn` (a record cut by a crash) and
`after` (whether something was appended behind it). `persistData` appends;
`loadDataFromStorage` replays, the last record of an item winning, and counts every
record. Deletions write nothing, so they do not survive. `compactStorage` is two
steps with a possible crash between: the items go to the end of the storage file,
since `persistData` knows no other, and then the empty temporary file takes its
place. `DurableMap` states what that amounts to for a user of the storage: two maps,
in memory and on disk, and the events by which they part. `ImplementsDurableMap` is
the refinement.

### TaskManager (`TaskManager.tla`, `TaskManagerProofs.tla`)

`pending`, `running`, `completed` are the queue and the two maps; `hand[p]` is the
task a processor thread carries between the two critical sections of
`processTaskQueue`; `asleep` are the processors in the wait on `queue_cv_`. A popped
task without a kernel is dropped, as in the code (`dropped`), and
`AssignedNeverDropped` delimits that loss. The writes to the maps are keyed, as in
the code: `Put` overwrites an entry that has the id already. `SettledForever` says
that this never happens to `completed`: the first outcome of a task is final,
although a cancellation and a processor may each be about to settle it.

### ResourceManager (`ResourceManager.tla`, `ResourceManagerProofs.tla`)

Three maps under one mutex, each operation one step. The difficulty is in sequences
of operations: `addResourcePool` empties the index of its type, so the resources of
that type are no longer counted or freed (`disturbed` remembers such types).
`IndexSound` holds always, `IndexComplete` and `CapacityHolds` for undisturbed
types.

### CircularBuffer (`CircularBuffer.tla`, `BoundedFifo.tla`, `CircularBufferProofs.tla`)

Slots, head, tail and count as in `ThreadSafeCircularBuffer`; a thread is idle, in
the call, or asleep. `ImplementsBoundedFifo` is the refinement to a queue read off
the ring (`Contents`); `NoLostSignal` is the invariant behind the absence of
deadlock.

### Threads, locks and exceptions (`LockedCalls.tla`, `MonitoredCalls.tla`)

The managers and engines are made of methods that call one another inside lock
scopes, loops and try blocks. In `LockedCalls` what a thread still has to do,
`todo[t]`, is a sequence of such items; each module defines its methods as such
sequences (`Locked(m, body)`, `Try(body, handler)`, `Do(step, arg)`) and one action
per kind of step. An exception (`Throw`) drops the rest up to the handler of the
innermost try block and unlocks on the way; in a thread of the class with no handler
it ends the process, `dead`, as std::terminate does, and so does recursion without
end. `holder` and `depth` are the mutexes.

Several classes lock a std::mutex they already hold. The standard leaves that
undefined; `platform`, chosen in `Init`, is one of the three outcomes that libraries
produce: the thread hangs, the lock throws, or it counts. `Entangled(S)` says that
the threads of S wait for each other's mutexes, a deadlock of two or more threads; a
thread that hangs on its own relock is not entangled, and joins are not counted.

`MonitoredCalls` is the code that ContainerManager and CloudIntegration share:
start, stop and join of the monitoring thread, and the metrics callback, which runs
with the metrics locked. The application chooses it: it calls nothing back, or it
lists the entities, reads their metrics, configures a load balancer or stops the
monitoring (`callback`). What it calls ends with the step "returned", so that
`InCallback(t)` can tell a thread that runs one. Starting a thread over one that is
still joinable ends the process; a thread that joins itself, or joins what another
has joined meanwhile, gets an exception. `Tangled(S)` is `Entangled(S)` with joins
counted.

### The tree of kernels (`KernelManager.tla`, `ParentKernel.tla`, `KernelLimits.tla`; composed in `MCTree.tla`, `TreeProofs.tla`)

`KernelManager` has three mutexes, public calls by any client, and a monitor whose
rounds check every kernel. A kernel call may throw (`faults`); the error goes to
`handleKernelError` and from there to `recoverKernel`, which may fail and report
again; at the restart limit it reports without end. `RegisteredComplete` speaks of
the platform on which `registerKernel`, which locks its own mutex again, completes.
`OnlyConfigCycle` names the one pair of mutexes that is taken in both orders.
`updateKernelStatus` is called and nowhere defined: it is taken to set `is_running`.

`ParentKernel` has four mutexes and two threads of its own; `child_kernels_mutex_`
is held through every loop over the children, also while the monitor sleeps.
`stop()` joins that monitor before it clears the flag the monitor waits for, so a
started parent does not get past the join: no run checks this, and the theorem
`StopNeverReturns` proves it. `ActiveChildrenRun` relates `is_active` to the state
of the children through start, check and recovery.

`KernelLimits` is sequential: the numbers the two above leave out. Setters,
adaptation to the load and the process-wide flags move threads, queue and timeout of
a kernel. The CPU usage is NaN (`core_loads` is never filled), so no comparison with
it holds; a custom flag that is not set makes `applyOptimizations` throw half way
(`Missing`, `Reached`); doubling wraps at `Word`. `FlagsOnlyLower` says what that
amounts to: no change of a flag gives back what an earlier one took.

### The tiers (`KernelBalancer.tla`, `TierKernels.tla`, `LowPriorityKernel.tla`; composed in `MCTiers.tla`, `TiersProofs.tla`)

`KernelBalancer` is kernels::KernelManager: `queue` and the metrics of the three
kernels, and `balance_load` as four loops, each iteration of which reads the front
of a queue and then, in another step, pops what is the front by then. `left[n]` is
what loop n may still move, decided from one reading; `surplus` remembers that
reading and `moved` counts what left the high kernel. `scaling_loop` and
`get_metrics` are declared and nowhere defined: they are external, one thread that
scales and balances in turn, and a reading of the kernels' metrics.

`TierKernels` is a high or a medium kernel over the queue and the counters of
BaseKernel, `kind` telling which: named tasks, boosting, preemption, batches, and
the `worker_thread` of the .cpp of the high kernel, which checks timeout and
resources first and gives up (`GiveUp`) without counting itself out.
`LowPriorityKernel` is the background queue of the header: its worker moves the task
out of the front entry and removes the last one, and waits on `condition_` while
submissions notify `background_condition_`, so that its wakeups are steps it may or
may not make.

### The services (`DistributedEngine.tla`, `CoreEngine.tla`, `ContainerManager.tla`, `CloudIntegration.tla`; composed in `MCServices.tla`)

`DistributedEngine`: every operation is a guarded try block around calls of parts
(`broken`: those that throw from now on); its handler runs `handleFailure`, which
answers some kinds by the emergency stop, which is made of such operations.
`MaxNesting` stands for the depth of the stack: a behaviour that nests deeper is
taken to recurse without end (`life = "overflown"`). `CoreEngine`: jobs that run the
io context are posted to the pool (`queued`), whose threads take them unless the
pool was stopped first (`TakeJob`, and the history `entered`). The context stops
when it is told to or when it runs out of work, the work guard included;
`graceful_shutdown` keeps the guard and joins the threads. `ContainerManager`: two
tables, two mutexes, and entries of the metrics that clients insert under the other
mutex; `NoLockCycle` says that with any callback no threads wait for one another.
`CloudIntegration`: ids drawn from the clock in seconds (`now`), so that instances
and snapshots born in the same second replace one another; scaling that counts
without the lock, decides, and locks again what it holds; load balancers that read
the instances' metrics. Here a callback can deadlock: with the metrics locked it may
configure a load balancer while `updateLoadBalancer`, with the balancers locked,
copies the metrics, or it may stop the monitoring, which joins a thread that wants
the metrics. `CyclesThroughCallback` says that there is no other way.

### The program (`CloudService.tla`; in `MCTiers.tla`)

The main thread builds and starts seven components and then only sleeps; the core's
detached event thread processes events. A component that fails to start, or a signal
(`Interrupt(t)`, on top of what t is doing, at any point), runs `shutdown_handler`:
it shuts the components down and calls `exit`, whose static destructors run while
the other thread may still use the core (`UseDestroyed`). The shutdown of a
component may throw: from a signal handler that ends the process, or, where its
frames can be unwound, reaches the try block of `main` that it interrupted.
`HandlesLocked` is the one way in the model for a signal not to end the program: the
handler waits for the mutex that the thread it interrupted holds. The program has
other such locks, which are outside the model: those behind `std::cout`, `exit` and
the allocator, none of which a signal handler may use, and those of the other six
components.

### Composite modules

`MCTree`, `MCTiers` and `MCServices` put the components of a layer in one run. These
do not call one another, as said above, so a product of their states would show
nothing that they do not show alone: `focus` says which of them a behaviour is
about, and the variables of the others are `"absent"` or at a value that their
properties read as idle.

## Runs and bounds

| Run | Instance | States | Shows |
|---|---|---|---|
| `pool` | 2 tasks, 1 client, limits 1 and 2, 1 to 2 threads | 189 000 | one place per task, stop() keeps what came in time, wakeups, counters; stop() returns; accepted tasks are served |
| `pool_shrink` | 1 task, 2 threads | – | counterexample: shrinking never returns |
| `kernel` | 2 tasks, 2 workers | 8 800 | wakeups, exact count, nothing left by stop(); stop() returns but for the two races; accepted tasks are served |
| `storage` | 2 ids, sizes 1 and 2, capacity 3, 1 key, 3 records (symmetry in the ids) | 155 000 | counters that miss no item, refinement of the durable map |
| `storage_compact` | the same with 2 records | – | counterexample: compaction loses the items |
| `tasks` | 3 tasks, 2 clients, 2 processors, 1 kernel | 59 000 | one place per task, first outcomes final, order kept, assigned tasks run |
| `resources` | 4 ids, 2 types, capacities 0 to 2 | 11 000 | the maps agree, pools are not exceeded |
| `resources_remove` | 2 ids, 2 types | – | counterexample: removing a pool leaves resources behind |
| `ring` | 3 producers, 2 consumers, 2 slots, 2 values | 76 000 | FIFO, signals, no deadlock |
| `tree` | 1 kernel name, 2 clients, 1 failure, 1 restart, 3 calls of each manager, 4 of the limits | 392 000 | types, complete registration, active children run, lock order, flags only lower |
| `tiers` | 3 tasks, 2 workers, ceilings 3, 4, 3, 2 passes, 4 calls of the background queue, 2 signals or faults | 341 000 | types, background tasks run once, moves within the surplus, a given-up task blocks stop(), a signal ends the program |
| `services` | 2 clients; 3 calls of the DistributedEngine, 5 of the CoreEngine, 4 of the ContainerManager; 3 of CloudIntegration from its construction, or 2 with an instance behind the load balancer and a callback; 1 failing part, 1 or 2 instances | 668 000 | types, how a failure can recurse without end, graceful shutdown, no threads that wait for one another, in CloudIntegration but by way of a callback |

Why these bounds are enough to be interesting. In the pool, two threads are the
least with which a notification can wake the wrong one, and two tasks the least with
which an order between tasks matters; the limits 1 and 2 make acceptance, rejection
and a limit below the present length all happen. Two workers give the kernel a first
and a last departure. Three records let an item be written twice and another in
between, and capacity 3 with sizes 1 and 2 makes the sum fail where each size fits.
Three tasks give the rebuilt queues a middle. Four resources fill a pool of capacity
2 in two types. Three producers on two slots let one sleep while another overtakes
it. The proofs remove the bounds for every safety property of these six, and in the
tiers and the tree for the moves of the balancer, for given-up tasks, for the limits
and for the order of the locks.

In the tree, two clients and the threads of the class are enough for every pair of
lock orders to meet, since a cycle among the locks of one name needs no second name;
three calls are a registration, a start and one more (a stop, a removal or a change
of configuration) against the monitor; one restart brings the limit of
`recoverKernel` within one failure and its repetition. The limits need no width
beyond one in which doubling the queue wraps, and loads 0, 2 and 9 fall below,
between and above the thresholds for four cores. In the tiers three tasks let a loop
of the balancer move one while another is popped, and a second pass works on the
metrics the first has left; two workers of the high kernel give one that stays when
the other gives up; two upsets let a second signal, on either thread, interrupt the
handler of the first. In the services one broken part is enough for a failure inside
the handling of a failure, because the handler of a kind and the emergency stop
share parts; `MaxNesting` 8 is well above what a failure that ends nests (3 would
do). Five calls of the CoreEngine are the least with which a graceful shutdown
returns after the pool has run the context: construction, start, graceful shutdown,
and from the other client a start and an emergency stop. The engines have no mutex,
so one platform stands for all. Of CloudIntegration, three calls from construction
are two starts in the same second and a scaling or a snapshot; but the load balancer
nests its mutexes only after an instance was started and the balancer configured
with it. The run therefore also starts from the state to which these two calls and
the choice of a callback have led (`CloudServing`), a second later, with scaling on
and on the platform whose relocks hang. Two calls follow, an update of the balancer
against a stop of the instance or against the monitor with its callback among them:
behaviours of five calls. From there TLC finds the deadlock through a callback when
the exception for it is taken out of the property.

Bounds of the model itself: `MaxThreads` caps `setThreadCount`, `MaxRecords` the
length of the log before an operation, each task is submitted once, and ids drawn at
random never repeat. `CHECK_DEADLOCK FALSE` is set where the system may stop for
good: all tasks submitted and the owner idle (`pool`, `kernel`, `tasks`), or a hang
that is the subject of the run; and in `tree`, `tiers` and `services`, where a
thread that locks its own mutex again or joins a thread that never ends stays there,
the process may end, and the bound on the calls (`ManagerCalls`, `ParentCalls`,
`MaxCalls`, `EngineCalls`, ...) ends a behaviour. `MaxFaults`, `MaxBroken` and
`MaxUpsets` bound failures and signals, `MaxTime` the seconds of CloudIntegration,
`MaxPasses` the passes of the balancer.

`PROJECT.json` lists under `findings` where the code does something else than it or
its comments say. Three are shown by the counterexamples above. One is the reason
for an invariant: once a thread has begun `m_io_ctx.run`, `graceful_shutdown` of
CoreEngine returns only if an emergency stop begins as well, and since it has cleared
`m_running` itself, that takes another thread that starts the engine again
(`GracefulNeedsEmergency`). The others were met while translating and are built
into the models as what the code does: the answer to the restart limit is another
recovery; a started ParentKernel cannot stop; CPU usage is NaN, so threads are never
adapted; the load of a tier is at least 1 or NaN, so it is never scaled down. One
concerns code that is not modelled: `validateChain` of the blockchain refuses what
`mineBlock` mines.

## Fairness

- A thread that is inside an operation and can go on does go on (weak fairness of
  each worker, processor, client in a call, and of the owner inside `stop()`). This
  is what an operating system gives every runnable thread, and it assumes that tasks
  return.
- Nobody is obliged to call an operation, and no spurious wakeup is promised.
- In `BaseKernel` the owner in `stop()` may take `mutex_` again and again (spurious
  wakeups of its wait), so the steps of a worker that need the mutex are not enabled
  continuously; their fairness is strong, which says that a mutex released over and
  over is acquired in the end.
- The two threads of `CloudService` have strong fairness of all their steps. Its
  event thread acquires and releases `state_mutex_` again and again, sleeping 10 ms
  between rounds with the mutex free, so a handler that waits for it on the other
  thread gets it in the end. Nobody is obliged to send a signal.
- The other modules of the tree, the tiers and the services state safety only: their
  specifications have no fairness.
- `Served` and `StopReturns` of the kernel assume that the kernel is not paused for
  ever, `Served` of the pool also that the pool is not shrunk; the code guarantees
  nothing otherwise, as the paragraphs above explain.

## Proofs

All proofs are of safety, for any values of the constants that satisfy the
assumptions of the modules: finite sets of threads where they are counted, a
positive ring size, sentinels distinct from data, clients that are not slots of the
pool's vector nor threads of a manager, tasks that are not named like a state of a
processor. An invariant is
seldom inductive by itself; what follows says what had to be added.

- **ThreadPoolProofs**. `Shape` adds to the types which slots hold threads, that the
  owner joins a suffix of the vector, that `stop_` is set while it does and that
  nobody then sleeps, and that a worker holds a task exactly between pop and end. It
  is inductive alone. `NoLostWakeup` and `EachTaskOnce` are inductive relative to
  it. `StopKeepsAccepted` is not: it needs that the queue of a pool all of whose
  workers have left under `stop_` holds only late tasks, which is the invariant
  `Kept` of that module. `MetricsSound` needs `CountsInv`: what a thread has read of
  a counter and not yet written back, plus its own event, is no more than the tasks
  to which that event has happened; an increment that overwrites others only makes
  the counter smaller.
- **BaseKernelProofs**. `Shape` says that a running worker has a task and that a
  finished `stop()` leaves only exited workers; `ActiveInv` that `active_threads_`
  counts the workers between arrival and departure. From them: types,
  `TaskCountExact`, `NoLostWakeup`, and, with "once the last worker has left only
  late tasks are queued", `StopDrains`.
- **DataStorageProofs**. `CountersNeverUnder` says that `total_size` and
  `total_items` are no less than what the stored items sum up to, so that no
  decrement wraps. Inductive with the types, with the finiteness of the set of
  stored ids and with "a compaction begins only on a file that can be written". The
  sum over a finite set is a fold; that it gains and loses a term with the set is
  derived from its definition (the recursive function exists on every finite set, by
  least counterexample on the cardinality). The refinement takes `Replay` of the log
  as the disk of `DurableMap`; lemmas say what an append, a torn record and a
  compaction do to it, and each action is one of the map's events or a stutter.
- **TaskManagerProofs**. `OneInv`: the queue has no duplicates and queue, hands and
  the two maps are disjoint and agree with the history of each task. `KernelInv`
  follows the kernel a task was given from the queue into hands and maps, through
  the rebuilding of the queue by `cancelTask` and `assignTask`; `CountInv` relates
  each counter to the tasks it has counted and the clients about to count. Together
  with the types they give `OnePlace`, `AssignedNeverDropped`, `CountersMatch` and
  the two action properties.
- **ResourceManagerProofs**. The index is sound for every type and complete for
  undisturbed ones, and indexed resources fit their pool; cardinalities relate the
  index to the capacity.
- **CircularBufferProofs**. The inductive invariant is that head is tail plus count
  modulo the size and that the slots between hold values. The refinement maps a push
  and a pop to `Put` and `Get` and everything else to a stutter, after lemmas on the
  residues that say which slot a push or a pop touches. `NoLostSignal` is inductive
  relative to it and shows that one `notify_one` per operation is enough for any
  number of threads.
- **TiersProofs**. `MovesWithinSurplus` is not inductive: it says nothing of what is
  still to be moved. The invariant is the budget `moved + left[1] + left[4] <=
  surplus` (loops 1 and 4 take from the high kernel, each half of the surplus),
  which every iteration keeps whatever workers and clients do to the queues between
  its two steps, and which `BalanceLoad` establishes because two halves rounded down
  are no more than the whole. `GivenUpBlocksStop` needs `TierInv`: `active_threads_`
  is the number of workers inside the loop plus those that returned without
  announcing it, so that once a worker has given its task up the count cannot reach
  the zero for which `stop()` waits.
- **TreeProofs**. The limits, for `Cores \in Nat` and `Word \in Nat \ {0}`, are
  naturals in every state (through halving, doubling modulo the word and products
  with fractions); on naturals, applying the optimisations only lowers threads and
  queue (`AppliedFalls`), which is `FlagsOnlyLower`.

  `LocksOrdered` speaks of what threads wait for now and is far from inductive. A
  record K says for each manager under which mutexes each mutex may be locked
  (`order`), which steps unfold into methods that lock (`wide`) and what may be held
  there (`base`). `Fits(K, i, h)` is a greatest fixed point: the item i, with all it
  can unfold into, respects K when it is reached with the mutexes h held. The
  invariant `Calls` says that every item of every `todo[t]` fits the mutexes that
  the rest of the sequence will unlock, and that these, counted with multiplicity,
  are those t holds and how often (`holder`, `depth`). Acquire, release, entering a
  try block, unwinding and every step that unfolds keep it (`AcquireGoes`,
  `ReleaseGoes`, `EnterGoes`, `ThrowGoes`, `ReplacedGoes`), once for both managers;
  that each method fits (`ManagerPublic`, `ParentPublic`, ...) follows its text.
  ParentKernel also needs that `start()` never replaces what a running thread still
  has to do: `ParentFlow` says that the flag is set only while it is clear, that the
  threads are then gone, and that `stop()` clears it after its joins. Last, in an
  entangled set nobody can hold the last mutex of the order, so nobody waits for it,
  and so on down to the first, whose holder would wait for itself. The argument
  holds on all three platforms. A thread that has the configurations and asks for
  the kernels is the exception that `OnlyConfigCycle` makes.

  `RegisteredComplete` speaks of the platform that counts relocks and is not
  inductive either: it says nothing of the states in which `kernels_mutex_` is held.
  `Path(k, n)` lists the 22 places that a thread goes through in `registerKernel`
  (1 to 13) and `unregisterKernel` (14 to 22) of n, each as what is left of
  `todo[t]`; `PathGoes` says where a step leads from a place (the next one, or an
  exception that unwinds everything) and what it changes. All other threads are
  `Tame`: nothing they have left, nor anything it unfolds into, is a step of a
  registration. This is `Calls` again, with a second record K (`TameK`) in which
  those steps may not appear, so the lemmas of the lock order carry over. The
  invariant `Registry` says that each thread is tame or on a path, and that a
  registered kernel lacks its configuration (status) only while some thread is at a
  place of `NoConfig` (`NoStatusYet`). All these places have `kernels_mutex_` still
  to unlock, so by `Calls` it is not free. Only a lookup or an insertion throws on
  the way to completion, and a lookup that fails shows that the kernel is not
  registered, so nothing is owed; the flags of the kernel, which may throw too, are
  set when both entries are made.

  `ActiveChildrenRun` says nothing of the states in which `child_kernels_mutex_` is
  held, and here there is no short list of places: the loops unfold into any number
  of items, and all three platforms count. The invariant `LiveInv` is about what a
  thread has left. An item is `Mild` if nothing it unfolds into starts, stops, marks,
  inserts or removes a child (`Fits` with a third record, `MildK`). Besides mild
  items a thread has, in order (`Lives`): those of a registration (`Enrolling`);
  those of a loop over the children that are now registered (`Looping`); or `stop()`
  before its join of the monitor (`Halting`). `Rest` adds that loops, try blocks
  around a child and removals occur only where `child_kernels_mutex_` is still to be
  unlocked, so that by `Calls` the thread holds it. A thread in a loop may be at work
  on one child, and `Front` says what is then known of it: what was started is not
  stopped when it is marked, what is about to be stopped is not marked. A step either
  does nothing that matters to a thread without the mutex, or is made with the mutex
  held (`StepState`), and then no other thread has it (`OneCloses`). An exception
  leaves mild items only, since no handler starts or marks a child (`ThrowSurvives`).
  `LiveInv` last says that a running parent's monitor has its next round before it
  (`Rounding`): the join of `stop()` therefore never ends, the loop that stops and
  clears the children behind it is never reached, and `running_` is never reset
  (`StopNeverReturns`). Were the join to end, the loop would be one more kind of item
  on a child, stopped and then unmarked under the mutex.

Only model-checked:

- every liveness property, and `SignalExits` of the tiers, which is one: the prover
  has no support for fairness;
- of the tree, the types; of the tiers, the types and `BackgroundRunsOnce`; all of
  the services. The types of the tree would need the type of every item a thread may
  have to do, and its methods nest.

## What is not modelled

- Times: timeouts are choices (a task may be stale whenever it is examined).
- What a task does; callbacks of users beyond one call back into the manager; the
  text of messages and logs.
- Failures of allocation. In `collectChildKernelMetrics` such a failure would be the
  only one to reach the handler (`parent_kernel.cpp:631`), which locks the children
  with the metrics locked, against the order of the monitor.
- Submissions without end: each task is submitted once, so `StopReturns` of the pool
  does not show a `stop()` that a stream of submissions keeps from ending.
- `assignTask` with an empty kernel name, and children that somebody drives directly
  (`getChildKernel(name)->stop()`): `ActiveChildrenRun` is about those driven by
  their parent.
- `ThreadPool::start()` on a pool with threads, whose loop never ends, and
  `cleanupOldTasks`, which runs in a destructor only.
- Memory ordering: atomics are sequentially consistent and unlocked counters are
  split into a read and a write.
- Undefined behaviour other than a relock: the damage of an unlocked insertion into
  a map, of `pop` on an empty queue (a behaviour is not followed past it), of memory
  used after a destructor (taken to end the process).
- **BlockchainKernel**: its header and its .cpp define two different classes of one
  name, which do not compile together. **NetworkKernel**: nothing calls
  `initializeResources`, so no key is ever created, and nothing runs the
  `io_context`, so no handler ever fires; what is left never leaves its initial
  state.
- The helpers of the low kernel (declared under `kernels/low`, and used by
  nothing), the kernel logger, the adaptive cache, the ledger with its sinks and
  fault injector: sequential code or output that nothing includes. The lock-free headers at the root
  of `src/` wrap vendor structures; platform headers and language utilities keep no
  state. Configuration, scripts, docs and tests are empty files.
- Parts of modelled components, as `PROJECT.json` says for each: `ThreadSafeQueue`,
  the LRU cache and the singleton of sync_utils, `PriorityTaskQueue` and
  `WorkStealingQueue` of the header variant of the thread pool, metrics histories,
  packets, contracts and costs.

Three hazards listed in `PROJECT.json` have no property: the join of
`ParentKernel::stop` (`parent_kernel.cpp:77`) and the recursion at the restart limit
(`kernel_manager.cpp:388`) are in the models as what the code does and told as
findings; the stale decision of `evaluateScaling` (`cloud_integration.cpp:114`)
is in the model, but the code promises no number of instances that clients may not
change. Some properties allow what their hazard leads to: `FlagsOnlyLower` the state
in which `applyOptimizations` stopped half way, `MovesWithinSurplus` a task removed
that is not the one copied. The wait of `processTaskQueue` may miss its notification,
since the flag is reset without the mutex (`parent_kernel.cpp:69`); ParentKernel has
no fairness, so this is no more than a thread that never leaves.

Other places that deserve care and that the models do not reach: `start()` on a non-empty pool (`thread_pool.cpp:64`, a loop without end), the
wrapping index of the metrics history (`kernels/base_kernel.hpp:382`), the iterator
used after its erasure in `updateTaskStatus` (`task_manager.cpp:249`),
`max_total_threads` (`kernels/kernel_manager.hpp:66`, which nothing enforces),
`ThreadSafeQueue::stop` (`sync_utils.hpp:117`) and the unlocked ends of
`WorkStealingQueue` (`thread_pool.hpp:271`), in a class that nothing uses.

## Plan

Done: ThreadPool, BaseKernel, TaskManager, ResourceManager, DataStorage over
DurableMap, CircularBuffer over BoundedFifo; LockedCalls and on it KernelManager,
ParentKernel, LowPriorityKernel, CloudService, DistributedEngine, CoreEngine,
ContainerManager, CloudIntegration; KernelBalancer, TierKernels, KernelLimits; the
proofs named above.

Left, in order of importance:

1. Proofs: the lock order of the services, by the lemmas on `Calls` with a record K
   of their own; `BackgroundRunsOnce`.
2. `StopQueue` (ThreadSafeQueue and PriorityTaskQueue: the stop flag set without the
   mutex) and `WorkStealingQueue` (each read and write of an end a step), both over
   an abstract queue from which an item is taken once; the LRU cache over an
   abstract bounded map.
3. Liveness of the monitors (a round ends, a stop ends but for the relocks) on the
   platform where relocks count.
4. `Blockchain`, once header and source agree on a class.
