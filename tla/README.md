# libgomp with an ARINC 653 layer, in TLA+

TLA+ models of the run-time library in this repository: GCC's libgomp (2018,
Linux/x86, `HAVE_SYNC_BUILTINS`) with the changes that map part of OpenMP onto
ARINC 653 (`Arinc653.h` is included by `libgomp.h`, with `USE_ARINC653` and
`BY_PTHREAD` defined, so the `#ifdef USE_ARINC653` branches are the code that
is built). The models are written from the C code; the line numbers of every
definition are in `PROJECT.json` under `map`.

## The system

An OpenMP program calls the library's `GOMP_*` entry points. The initial
thread starts a team of threads for each parallel region; the members meet
work-sharing constructs and barriers, may cancel the region, and end it
together. The library's own shared structures are words updated by atomic
instructions and futex system calls, and records under a `gomp_mutex_t`.
OpenACC programs call `GOACC_*` and `acc_*`, which share the device's memory
map with OpenMP's target constructs.

| Component | State | Operations | Hard behaviour | What makes it correct |
|---|---|---|---|---|
| Mutex (`config/linux/mutex.*`, `wait.h`, `x86/futex.h`) | one word: 0, 1, -1 | lock, unlock, `omp_test_lock`, unlock in another thread | flag -1 set on a mutex that has just become free; wake-ups that come late, or from a signal | exclusion, no forgotten sleeper, somebody gets in |
| Locks (`lock.c`, `config/linux/lock.c`) | mutex, owner, count | set, unset, test, nestable or not | the owner is read without the mutex; in the 2.5 locks the owner is the futex | who reads itself there owns the lock; nesting is counted; the last unset lets another in |
| Semaphore (`config/linux/sem.*`) | count and `SEM_WAIT` | post, wait | a post clears the flag for all waiters and wakes one | no lost post |
| Team barrier (`config/linux/bar.*`) | `generation` word with flag bits, `awaited`, `awaited_final`, `work_share_cancelled` | plain, cancellable, final and last wait; cancel a region or a loop | the last thread's load and store race with the cancellation's; waiters are woken by value; memory freed behind the last barrier | nobody early, everybody out, no lost update, no use after free |
| Barrier of other targets (`config/posix/bar.*`) | `arrived`, two semaphores, `mutex1` held across the barrier | the same | arrivals, a cancellation and the destruction wait for the last thread to leave | the same |
| Work shares (`work.c`, `ptrlock.*`, `single.c`) | a list of shares with pointer locks, two free lists, the barrier | start, end with barrier, end nowait, copyprivate, cancel | threads several constructs apart; shares recycled without a lock (ABA); `next_ws` and `next_free` in one word | one share for each construct, none reused too early or lost, team ids freed once |
| Thread pool (`team.c`, `config/posix/pool.h`, `simple-bar.h`) | pool, dock, last team, each thread's `fn` and `ts` | start and end a team, thread start, free the pool | the dock is resized while threads are entering or leaving it; teams kept and freed behind barriers | every member runs each region once; nothing freed is used |
| Places (`team.c`) | each thread's `place` and partition, the order of the pool | the same, under `proc_bind` | threads bound by earlier regions are permuted, let go or replaced | every thread is where its number and the policy put it |
| Number of threads (`parallel.c`) | `threads_busy` of a pool; `FIRST`, `ARINC_MAX_THREADS` | resolve, limit, give back | reservation by compare-and-swap among members; two plain globals shared by initial threads | the thread limit; the ARINC limit |
| ARINC layer (`Arinc653.c`, `single.c`, `critical.c`, `task.c`, `target.c`) | `SINGLE_MUTEX`, `CRITICAL_MUTEX`, `END` (one of `task.c`, one of `target.c`), `team->single_count` | single, critical, refusal of task and target | threads that run ahead through singles; the refusal shares its mutex with critical | single once, criticals apart, one message of each kind, then the end |
| Ordered, doacross (`ordered.c`, `doacross.h`) | queue of team ids, owner, release semaphores; arrays of counters | first, next, last, sync; post, wait | owner read without the lock; semaphores posted before they are waited for; counters of several words | iterations in order, a sink waited for is over, nobody stuck |
| Loops and sections (`iter*.c`, `loop*.c`, `sections.c`) | `next`, `end`, `chunk_size`, `mode` | static, dynamic, guided next | overflow at the end of the range, fast path with fetch-and-add | every iteration once |
| Tasks (`task.c`, `taskloop.c`, `priority_queue.*`) | trees of tasks, four priority queues, a table of dependences, counters, semaphores, barrier bits | create, run, depend, taskwait, taskgroup, taskloop, cancel | everything under `task_lock` that is dropped while a task runs | dependences kept, nobody waits for ever, tasks freed once |
| Offloading (`target.c`, `splay-tree.*`) | a map of host ranges with reference counts, descriptors with lists of keys, images | data regions, enter and exit data, update, associate, register images, finalize | several regions sharing a key; a device finalized between two critical sections | counts right, what a region has mapped stays |
| OpenACC (`oacc-*.c`) | the same map, each thread's block, `cached_base_dev`, the data environment | initialise, attach, shut down; create, delete, map; data regions | the routines unlock between the look-up and what they do | the same, and a valid thread block |
| ARINC services (`Arinc653Services.c`) | process, partition and mutex tables | APEX calls over pthreads | not in the library: `Makefile.am` does not list it | - |
| Plugins, environment, ICVs, Fortran, other targets | - | driver calls, parsing, getters, system calls | no concurrency of their own, but in the drivers | - |

The components meet as follows. `gomp_team_start` (pool) makes a barrier and a
first work share; `gomp_work_share_end` waits in the team barrier;
`gomp_team_end` waits in its final part, then releases the work shares and the
team; cancellation is a bit in the barrier's generation word that all of these
read. The task scheduler uses other bits of that word. Every structure's lock
is the futex mutex; the ARINC layer replaces some locks by pthread mutexes.

The hazards of this code, each at its line, are listed in `PROJECT.json`; those
that no property covers say why.

## Modules

| Module | Models | Composes |
|---|---|---|
| `AbstractLock`, `AbstractNestLock`, `AbstractSemaphore` | what these promise | |
| `GompMutex` | the futex mutex, one action for each atomic access | implements `AbstractLock` |
| `NestLock` | the lock routines of the API | on `GompMutex`; implements `AbstractNestLock` |
| `GompSem` | the futex semaphore, one action for each atomic access | implements `AbstractSemaphore` |
| `LockProofs` | the theorems of the mutex, the locks, the semaphore and `ArincServices` | the semaphore as an instance `S` |
| `TeamBarrier` | all waits of `bar.c`, cancellation of regions and loops, the freeing of a nested team | `bar.c`, `parallel.c`, the end of `team.c` |
| `PosixBarrier` | the same without futexes | semaphores as in `AbstractSemaphore` |
| `TeamPool` | the pool of one initial thread | dock and final barriers |
| `TeamBarrierProofs`, `PosixBarrierProofs`, `TeamPoolProofs` | their theorems | |
| `Places` | the places and partitions of a team's threads | the pool, nested teams |
| `ThreadLimit` | `gomp_resolve_num_threads`, the limit in `GOMP_parallel`, `GOMP_parallel_end` | several initial threads and nested regions |
| `ThreadLimitProofs` | its theorems | |
| `Parallel` | the sides of a parallel region | `TeamPool`, `ThreadLimit`, `Places`, `TeamBarrier`, `PosixBarrier` |
| `ParallelProofs` | the theorems of the sides, for the whole | |
| `WorkShare` | `work.c`, `ptrlock.*`, single copyprivate, the share half of `gomp_team_end` | barrier in three steps |
| `WorkShareProofs` | its theorems | |
| `Ordered` | ordered loops: `ordered.c`, the `ordered` half of `loop.c`, the locked half of `iter.c` | release semaphores as in `AbstractSemaphore`, work shares as in `WorkShare` |
| `Doacross` | loops with `ordered(n)`: post and wait | on `Ordered`: sequences of both kinds of loops |
| `OrderedProofs` | the theorems of ordered loops, in sequences of both kinds | |
| `LoopIter` | loops and sections: the schedules over `long` and `unsigned long long`, `iter.c`, `iter_ull.c` | |
| `TaskState` | the data of tasks: `libgomp.h`, `priority_queue.*`, the table of dependences | |
| `TaskTeam` | what threads do with tasks: `task.c`, `taskloop.c`, cancel taskgroup | on `TaskState`; the barrier with its task bits |
| `TargetMap` | the memory map of a device, OpenMP's data constructs | |
| `AccMap` | OpenACC: initialisation, routines, data regions | on `TargetMap`: one map for both |
| `ArincServices` | the constructs taken over by the ARINC layer | pthread mutexes |

The modules for TLC are `MCLocks` (the locks, the semaphore and the ARINC
constructs), `MCParallel` (the values for the five sides of `Parallel`),
`MCWorkShare`, `MCOrdered` and `MCLoops` (ordered and doacross loops on one
side, `LoopIter` on the other), `MCTaskTeam`, `MCTargetMap`; `MCTeamBarrier` and
`MCPlaces` have the small instances of two runs that end in a counterexample.
Where such a module has sides, these share no state: a behaviour chooses one in
its initial state and leaves the variables of the others alone, so the run
checks each of them completely. `PROJECT.json` says which run shows what.

In all of them a thread's place in the code is `pc[t]` (or `at[t]`, `place[t]`,
`point[t]`),
the local variables that live across steps are functions of the thread, and an
action is the code between two accesses to shared memory. Code under a mutex
whose protected data nobody reads outside of it is one step (`task_lock` is such
a case, except for the cancellation, where the word it writes is also written
without it). Memory is sequentially consistent: the code's acquire and release
orderings are not modelled.

### GompMutex

`word` is the `int` of the mutex; `CompareExchange` is the compare-and-swap of
the fast path and of the first loop of `gomp_mutex_lock_slow`, `SetWaitFlag`
and `ExchangeLoop` the two exchanges of -1, `SpinTimeout`, `SpinChanged`,
`DoWaitChanged` and `DoWaitTimeout` the outcomes of `do_spin` and `do_wait`
(which may give up at once: the spin count may be 0), `FutexWait`,
`FutexWake` and `Interrupted` the kernel. `HandOver` lets another thread do
the unlocking, as `config/linux/lock.c` requires of the OpenMP 2.5 locks.

### NestLock

`kind` is chosen in the initial state. A `simple` lock is the mutex with any of
its steps. A `nest` lock adds `owner` and `count`: `ReadOwner` and `TestOwner`
look at the owner before the mutex is locked, `Locking` and `Unlocking` are
steps of `GompMutex` (not copies of them), `BecomeOwner` and `ClearOwner` the
stores inside. A `nest_25` lock has no mutex: its owner word is what threads
compare, swap and sleep on. `Threads` are whoever owns locks: tasks for `nest`,
threads for `nest_25`. The abstract lock sees `Depth`, how often its owner has
set it, and `Waiting`.

### GompSem

`sem` is the semaphore's word, a count and the flag `SEM_WAIT`; `local[t]` is
the variable `count` through which a compare-and-swap learns what it has
missed. `FastTake` is the loop of `gomp_sem_wait`, whose weak compare-and-swap
may fail for nothing (`Spurious`); `SpinTimeout` to `Take` the first loop of
`gomp_sem_wait_slow`, `LoopSwap` to `Reload` the second, `PostSwap` and
`FutexWake` the post. Any thread may post, also one that has just waited: who
posts to whom is for the modules above to say.

### TeamBarrier

`generation` is a record of the phase (modulo `Wrap`, 2^29 in the code) and
the bit `BAR_CANCELLED`. A thread goes through the barriers of a nested team:
the one at its start, those of the body, the final one and the last. `Arrive`
is the fetch-and-decrement of `awaited` or `awaited_final`; `ResetFinal`,
`ResetAwaited`, `Advance` and `WakeAll` are the last thread's steps; `Check`
is the test of the loops that wait, one for each wait function. `CancelRead`,
`CancelSet` and `CancelWake` are `gomp_team_barrier_cancel`. `CancelLoop` sets
`work_share_cancelled` in a loop that ends with a cancellable barrier (sections
are the same code); the last thread there takes it back. `MayCancel` says which
programs there are: a cancel directive has only cancellable barriers ahead of
it, as the compiler sees to; what happens otherwise is a run of its own (below).
The bits of explicit tasks are left out: `task_count` is 0. They are in
`TaskTeam`.

### PosixBarrier

The same constructs on `config/posix/bar.c`. Whoever is last at a barrier, or
cancels one, posts `sem1` once for each waiter (`Post`, `n[t]` of them) and
keeps `mutex1` until the last waiter to leave has posted `sem2` (`AllLeft`,
`CancelledLeft`); `Arrive`, `Cancel` and the freeing of the team need that
mutex. `TakeOff` is a waiter's decrement of `arrived` and its test. The
semaphores are abstract ones, and there are no tasks.

### TeamPool

The program is a sequence of `Regions`. `TeamStart`, `AssignIdle`,
`AssignDone`, `Create`, `CreateDone` and `Released` are the parts of
`gomp_team_start`, between which workers run; `ThreadStart`, `RunFn`,
`FinishTask` and `Undock` are `gomp_thread_start`; `TeamEnd` and `NewTeam`
keep and free `last_team`; `AssignHelper` to `FreePool` are
`gomp_free_thread`. Both barriers are counters with a generation; how a waiter
sleeps is in `TeamBarrier`. `ran` is a ghost: how often a member has run a
region's function. A region has two numbers, of its threads and of those its
team is made for, which differ in `GOMP_parallel_start`.

### Places

A thread of the pool has two attributes, `place`, where the library says it is,
and `bound`, where it was bound when it was created. `FirstPlace` and
`NextPlace` are the computation of p, k, s and rest at the head of
`gomp_team_start` and for each thread after; `Reuse` is the loop over the old
threads with the lists in `affinity_thr`, `Create` the loop that makes new ones,
which starts from where the first has left p and k. `TeamStart` does all that up
to the dock, and `Released`, when the threads expected there have come, brings
the counts of the dock and of `gomp_managed_threads` down to the new team.
`NestedStart` takes no thread from the pool. The master does this alone; how the
threads meet it at the dock is in `TeamPool`. `local.ahead` says that the loop
over the old threads has computed the place of the first new thread and has not
set p and k back: this is how the loop that creates threads goes wrong
(`Places_permuted`), and the only exception that `PlacedUnlessAhead` makes;
`WellPlaced` makes none.

### ThreadLimit

Each initial thread is a contention group with its own pool. `LoadBusy` and
`ReserveBusy` are the compare-and-swap loop, `ReadFirst`, `ClearFirst`,
`SetMax`, `CompareMax` and `LowerToMax` the accesses of `GOMP_parallel` to
`FIRST` and `ARINC_MAX_THREADS`, `ReleaseBusy` the fetch-and-add of
`GOMP_parallel_end`. A request with construct `"workshare"` is one of the
combined entry points (`GOMP_parallel_loop_*`, `GOMP_parallel_sections`), which
do not look at `FIRST`. `dyn_var` is off. What is left of the limit is an
unsigned number, which wraps around in `LoadBusy` if more threads are counted
than it allows. `NeverRaised` says that nobody takes over from
`ARINC_MAX_THREADS` more threads than it has reserved. It fails if two initial
threads begin with different numbers and the store of one overtakes the
comparison of the other, and with it the limit; what holds regardless is
`LimitHeldUnlessRaised`, and `FirstAgreed` (both begin with a `GOMP_parallel` of
the same number) is enough for `NeverRaised`. `FirstLimitsAll` is about the
teams of `GOMP_parallel`, the only ones that are limited by the first numbers.

### WorkShare

A share is an address; `link` is the union of `next_ws` and `next_free`, as in
`libgomp.h`. `PtrlockLoad` to `PtrlockWake` are the pointer lock; the three
`Alloc` actions are the three ways out of `alloc_work_share`; `FreeRead` and
`FreePush` the compare-and-swap loop of `free_work_share`. `content` is a
ghost: which construct a share was initialised for. `ids` is the state of the
malloced `ordered_team_ids`. Only constructs with a team are modelled; orphaned
ones have no shared state.

### Ordered

A sequence of ordered loops, of which a thread may be ahead of others where a
loop ends without a barrier. `ws[k]` is the work share of loop k; `release` are
the semaphores, which belong to the team and serve all loops. `StartStatic` and
`StartDynamic` are the `GOMP_loop_ordered_*_start` functions; `Sync` and
`SemWait` are `gomp_ordered_sync`, called for an ordered region and once more at
the end of a block; `NextStatic`, `NextDynamic` and `Pass` the
`GOMP_loop_ordered_*_next` functions up to the post and from it on. What is done
under `ws->lock` is one step; `ordered_owner`, which is read without it, is
cleared in a step before the post. Each iteration may or may not contain the
ordered region. Iterations are counted from 0 by 1: bounds, step and overflow
are for `LoopIter`. `done` is a ghost: the iterations that are over.

### Doacross

An iteration of a loop with `ordered(n)` is a vector. `entries[k]` is the array
that `gomp_doacross_init` allocates: an entry for each thread of a static loop,
for each chunk of the others. An entry is one word (`Flat`) if the iterations
fit into `WordBits` bits, otherwise an array of words, or of pairs of words in
`gomp_doacross_ull_init` on a target where `long long` is two words; `PostCross`
and `Await` then go through the words one at a time, and `index[t]` is the next.
`PostEntry` and `WaitEntry` compute the entry of an iteration, from the thread
or from the chunk. Memory that the code does not clear before use has any
contents (`NoWords`). Schedules and the barrier behind a loop are those of
`Ordered`.

### LoopIter

One construct and a team. `ws` holds what `gomp_loop_init`,
`gomp_loop_ull_init` or `gomp_sections_init` put into the work share; `Long` and
`Ull` wrap a number as W-bit integers do. `StaticCount`, `StaticBounds` and
`StaticNext` are `gomp_iter_static_next`; `FetchAndAdd` the fast path of
`gomp_iter_dynamic_next` (`ws.mode`), `LoadNext` and `CompareAndSwap` the loops
around the compare-and-swap there and in `gomp_iter_guided_next`; names that end
in `Ull` are the functions of `iter_ull.c`. `Proper` says which loops a program
may have, and what the code takes for granted beyond that: that the distance
from `start` to `end` plus a step, and `chunk_size * incr`, do not overflow.
`given` and `twice` are ghosts. Teams of one, which get the whole loop at once,
are left out.

### TaskState

Tasks are numbers, the implicit task of thread t being t; `info[k]` is the
`struct gomp_task`, `children[k]` its `children_queue`, `taskwait[k]` the
`struct gomp_taskwait` on the stack of its `GOMP_taskwait`, `group[g]` a
`struct gomp_taskgroup`, `team` the queue, counters and lock of the team, `bar`
the barrier with all bits of the generation word. A priority queue is a list for
each priority and the bit that says whether it is a tree yet, since
`priority_queue_next_task` prefers the team's queue only in a tree; `last` and
`lasts` are the fields `last_parent_depends_on`. `InsertReady`, `Upgrade` and
`Downgrade` move tasks in it as `priority_queue.*` and `task.c` do.

`depend_hash` is a table from addresses to chains of entries. `Entered` is what
`gomp_task_handle_depend` does to the table, `Dependees` which tasks get the new
one as a dependee, `Removed` what `gomp_task_run_post_handle_depend_hash` takes
out when a task is over.

### TaskTeam

Each task runs a body of operations (`Bodies`). `TaskloopStart` to `WakeSome`
make deferred tasks, `TaskStart` and `TaskInsert` one with dependences;
`Undeferred` and `UndeferredEnd` run one in its place, behind `DependStart` and
`DependLoop` (`gomp_task_maybe_wait_for_dependencies`) if it depends on others.
`TaskwaitLoop`, `DependLoop`, `GroupLoop` and `BarrierLoop` are the heads of the
four loops that run tasks, up to the unlock; `RunPre` is `gomp_task_run_pre`
with what they do behind it. From `HandleDepend` and `Finish` to `DoneWake` the
model follows what all of them do with a task that is over; steps are divided
where another thread may look without the lock (`children_queue` in
`GOMP_taskwait`, `num_children` in `GOMP_taskgroup_end`, `task_count` in the
barrier, the generation word). In between `team.lock` stays with the thread.
From `Arrive` on it is the barrier, plain, cancellable or final.

`GOMP_task` is refused in an ARINC build (`ArincServices`): there all explicit
tasks come from `GOMP_taskloop`, and the operation `task`, with every
dependence, belongs to a build without that layer, which the same file serves.
The `final` clause acts like a false `if` clause here. Both parts of the arrival
at a barrier are one step and nobody wakes up for nothing: those are in
`TeamBarrier`, as is the race of the cancellation with the last arrival.

### TargetMap

`device.map` is the splay tree, as a set of keys `<<k, n>>`, the n-th of
descriptor k; `device.tgt[k]` is a `struct target_mem_desc` with its block, its
`array` of keys and its `list` of the items that refer to keys; `target_data[t]`
is the thread's chain of open regions. `MapVars` is `gomp_map_vars`, the two
passes of which are folds over the items; `UnmapVars`, `ExitItem`, `Load` and
`Unload` are `gomp_unmap_vars`, an item of `gomp_exit_data`,
`gomp_load_image_to_device` and `gomp_unload_image_from_device`. `devicep->lock`
is held through each of them, so each is a step; between `Resolve`, which finds
the device and initialises it, and the next step another thread may finalize it
(`Fini`). Enter data maps its items one call of `gomp_map_vars` at a time, as
the code does. `Associate` and `Disassociate` are `omp_target_associate_ptr` and
its inverse, whose keys count `REFCOUNT_INFINITY`; link variables count
`REFCOUNT_LINK` while unmapped.

`entered` is a history: the references that enter data has left for later exit
data. A program marked `wrong` maps an object in parts that do not contain each
other, and may be stopped by `gomp_fatal`; no other may.

### AccMap

`LazyInitialize`, `InitDevice`, `NewThread` and `Attach` lead from an OpenACC
call to a device: `goacc_lazy_initialize`, `acc_init`, `goacc_new_thread` and
`goacc_attach_host_thread_to_device`; `ShutdownImages` to `ShutdownDevice` are
`acc_shutdown`, under `acc_device_lock`. Each routine of `oacc-mem.c` is two or
three steps, as it unlocks the device in between: `CreateLookup`, `CreateMap`,
`Chain`; `DeleteLookup`, `CallUnmap` (the copy back), `Unmap`; and so on.
`Chain` and `UnmapDescriptor` keep `openacc.data_environ`, in which 0 stands for
an entry whose descriptor has been freed. `DataStart` and `DataEnd` are data
regions, and those that a parallel construct makes for its kernel.

### ArincServices

`SINGLE_MUTEX` and `CRITICAL_MUTEX` are pthread mutexes of the default kind: a
thread that locks one it owns waits for ever (`SelfLocked`), as one does that
meets a task or target inside of a critical construct, and everybody who wants
the mutex with it. `SingleStart` to `SingleUnlock` are `GOMP_single_start` with
`Arinc_compare_and_swap`; `RefuseLock`, `RefuseCheck`, `RefuseUnlock` and `Exit`
are the common beginning of `GOMP_task`, `GOMP_target` and `GOMP_target_ext`.
`END` and `messages` are functions of the kind of construct, because `task.c`
and `target.c` have a flag each: a thread that meets a task and one that meets a
target may both find theirs unset, and then two messages are printed before the
process ends. `ran` counts how many threads each single construct has let in,
`inside` who is in a critical.

## What is checked

Every run that passes checks its properties over the complete state space. Type
invariants are not among them where they are part of an inductive invariant,
which is proved.

| Run | Instance | Shows |
|---|---|---|
| `Locks_and_services` | 3 owners, locks set at most twice by their owner; 3 threads, at most 2 posts held; 3 threads, 2 constructs each of all four kinds, tasks and targets inside of criticals too | exclusion; a sleeper on the mutex always has the flag, a wake or a woken thread behind it (what corresponds to it on the semaphore is proved); `GompMutex`, `NestLock` and `GompSem` implement their abstract modules with fairness: a free lock that is waited for is taken, a post that is waited for is used. Each single once; criticals and the refusals exclude each other; one message of task and one of target at most; a refusal ends the process, unless a thread waits for the mutex it holds itself |
| `WorkShare_regions` | 3 threads, 3 nowait constructs; 2 threads, 8 constructs; 3 threads with nowait, barrier and copyprivate; 3 threads in a region cancelled anywhere; chunks of 2 | all threads of a construct have one share; shares on the lists are nobody's; no share, and no array of team ids, is lost or released twice; copyprivate data arrives; the team ends |
| `Parallel_regions` | pool: a master, 3 threads to create, regions of 3, 3, 2, 2, 1, 3. Limit: 2 initial threads, limit 4, five programs with nested regions, in two of which the initial threads begin with different numbers. Places: six places, teams of every size up to 12 threads, two levels. Both barriers: nested teams of 3 threads with two cancellable barriers, two plain ones, one of each; 2 phases | each member runs each region once and nobody a stale one, the master waits for all, freed teams are not used, all threads exit; the threads that run are reserved and within the limit as long as no number is raised, and no `GOMP_parallel` makes a team larger than the largest first one; each thread is in its place but for those created behind a permuted pool, partitions do not overlap, the dock counts the threads that come; nobody is past a barrier early, neither update of the word is lost, a loop's cancellation is over at the next, the team is freed behind everybody, every region ends and a completed wait returns |
| `Loops_iterations` | 3 threads. Eleven sequences of ordered and doacross loops of all schedules, words of 3 bits. On the other side 6-bit integers: every loop of at most 5 iterations, step 1 or 2 up or down, chunk to 3, whose bounds are at the ends or in the middle of the range, both types; sections | ordered regions run in the order of the iterations; the queue lists the holders of blocks in the order of the blocks; a doacross wait returns when the iterations it names have been posted; every thread gets through, and no post is left behind. Each iteration of a loop is given out exactly once and nothing outside is; `next` goes past the end by no more than the overflow protection allows for |
| `TaskTeam_regions` | 2 or 3 threads, 5 tasks, 2 taskgroups, 2 priorities, quota 4 (64 for each thread in the code), 2 addresses; fourteen regions | a taskwait, a taskgroup, a wait for dependences and a barrier return only when what they wait for is over, and always do; no task runs before one it depends on; counters agree with queues; waiting tasks stay in front of running ones in every queue; freed tasks are in no queue, and no task points to a freed parent or taskgroup |
| `TargetMap_regions` | 3 threads, 22 addresses, 2 images, 7 descriptors; 35 programs over data regions, enter and exit data, structs, zero-length sections, link variables, device pointers of the program, OpenACC routines and regions, a device shut down and a program that exits | every key counts just the items, the entered and the created data that refer to it; what an open region has mapped stays mapped and in its place; no freed descriptor is followed; a program that does nothing wrong is not stopped |

Bounds. Three threads give each race its two parties and a bystander: one last
arrival, one waiter, one canceller. `Wrap` = 2 is the smallest number of phases
at which a thread can still tell the barrier it waits in from the next; a thread
that took one for the one after would need more, and none can be two barriers
ahead of another, which `BarrierSync` shows. With chunks of 2 a team's own
shares run out in the second construct, as after seven in the code; eight
constructs for two threads make recycled shares come round a second time.
`MaxShares`, `MaxTgts`, `MaxTasks` and `MaxGroups` only have to be large enough:
the actions that need one more are disabled, and the deadlock check of TLC would
report that. In `Ordered` three threads fill the queue and make it turn, run
empty and fill again within four iterations, and two loops without a barrier put
threads two loops apart. In `Doacross` words of three bits make some loops fit
and others need an array, and there are entries that serve several outer
iterations, a loop without iterations and one with fewer chunks than threads. In
`LoopIter` six bits put the limit of the fast path (2^(W/2-1)) just above the
number of threads and the chunks, so that loops of both modes meet the end of
the range. The regions of the pool take each branch of `gomp_team_start`: an
empty pool, reuse of all threads, fewer, equal, one, and more than the pool
holds. Six places and every number of threads up to twelve give teams smaller
and larger than the places, divided evenly and not, and all ways from one to the
next. A region without a policy of its own, under `OMP_PROC_BIND=true`, takes
part in teams of up to three threads only. The regions of `TaskTeam` have one
thread make tasks and others look for work: in a taskgroup of two tasks; left to
the barrier; a child that makes a child, and a taskgroup in a task; an
undeferred task that is over before its child; more tasks than the quota; two
priorities; a task that cancels its taskgroup with tasks queued that must run
(copied) and that must not; a cancelled region with a task left; and five with
dependences: one task before two, two before one that names two addresses, an
undeferred one that waits, a task outside of a taskgroup before those in it, and
tasks whose dependences are cancelled. Twenty programs of `TargetMap` share
three ranges among three threads in all combinations of four bodies; the others
have one feature each. Reference counts have four bits.

Fairness. A thread that is not blocked is eventually run by the operating
system: weak fairness of its steps, which are disabled while it sleeps on a
futex, waits for a mutex or for a barrier. Bodies of constructs end. Nothing
is assumed of signals, of threads asking for a lock, or of the order in which
a futex wakes sleepers. `GompMutex` has weak fairness of "some thread
unlocks", since the thread that holds the lock may change. The owner of a
nestable lock may set it again for ever, so that the last unset is enabled again
and again: it has strong fairness, which says that programs give their locks
back. The specifications of the modules with sides (`MCSpec`, `ParallelSpec`,
`LoopsSpec`) repeat the fairness of each side.
`TargetMap`, `AccMap`, `Places`, `ThreadLimit` and `LoopIter` have safety
properties only: nobody waits there for another thread but for a mutex, and TLC
checks that they cannot deadlock.

### Where code and comments disagree

Six runs look for a stated property and find that the code does not have it:

* `TeamBarrier_copyprivate`: `gomp_team_barrier_wait_end` waits for exactly
  `state + BAR_INCR`. A thread past the barrier of a single copyprivate that
  cancels the region before a slow waiter has looked leaves the waiter in its
  loop for ever: the generation it has saved is not the one in the word, so
  `do_wait` (`bar.c:112`) returns at once and it polls; the master sleeps in
  `gomp_team_end`. (The barrier without futexes does not have this: in
  `PosixBarrier` regions are also cancelled behind plain barriers, and
  `CompletedWaitReturns` holds.)
* `Ordered_empty_loop`: `gomp_ordered_static_init` posts to thread 0 even if the
  loop has no iterations. Nobody waits for that post, and in the next ordered
  loop of the region thread 0 runs a region before its turn.
* `Parallel_start`: `GOMP_parallel_start` passes 1 instead of `num_threads` to
  `gomp_new_team`, so its team's barrier counts one thread, and the master
  leaves the team's end alone (`parallel.c:133`; current compilers call
  `GOMP_parallel`).
* `Parallel_freed_dock`: `gomp_free_thread` frees the pool when all threads *in
  the pool* have gone (`team.c:266`), but one that an earlier, smaller region
  has let go may still be reading the dock, which is in the pool. That only such
  threads do is `OnlyLetGoAtFreedDock`, which is proved.
* `Places_permuted`: when the last thread of the old team has been taken but not
  in the order of the pool, the loop that creates the others advances the place
  once too often for them (`team.c:580`), and one place gets more threads than
  the comment at `team.c:374` allows.
* `TargetMap_first_calls`: `goacc_lazy_initialize` reads `cached_base_dev`
  without the lock. Of two threads whose first OpenACC calls come together the
  second stops the program ("device already active", `oacc-init.c:694`). The
  programs of `TargetMap_regions` therefore call `acc_init` before they start
  other threads.

The rest of this section was read off the code while modelling it and has no
run. Where the models would otherwise run into one of these, the programs of the
runs avoid it, and the module says how.

Teams and the ARINC layer. `GOMP_task` or `GOMP_target` inside of a critical
construct locks `CRITICAL_MUTEX`, which its thread already holds, so the refusal
prints no message and does not end the process, unless another thread got there
first (`task.c:303`; the run has such programs, and `RefusalEnds` says so: the
process ends or a thread is `SelfLocked`). Two messages are printed when a task
and a target are refused at the same time (`task.c:37`, `target.c:50`).
`GOMP_target` has no return behind its check of `END`, so a second caller runs
the region until the first ends the process (`target.c:1597`, action
`TargetRegion`). `FIRST` is cleared before `ARINC_MAX_THREADS` is set, so that a
second initial thread in between starts a team of no threads
(`parallel.c:180-187`, reached in `ThreadLimit` by `StartEmpty`). The combined
constructs ignore the limit of the first region (`loop.c:566`; `FirstLimitsAll`
is about `GOMP_parallel` only). The threads reserved by
`gomp_resolve_num_threads` and then cut by the ARINC limit are not given back
until the outer region ends (`parallel.c:187-190`, the limit holds all the
same). The other way round the limit does fail: of two initial threads whose
first regions are of 2 and of 4 threads the one that is slower to set
`ARINC_MAX_THREADS` decides. A second region of the first, of 3 threads, that
has compared its number with 2 and found it larger takes over the 4 of the other
when that is stored in between: it runs 4 threads of which 3 are reserved
(`parallel.c:180-190`). The programs of the run have this, so `NeverRaised` is
false in it, and `ThreadLimitHeld` says that the limit holds as long as it is
true. Under `OMP_PROC_BIND=true` a thread that is used again gets a new `place`
though it is bound elsewhere, so that a later region with `proc_bind(close)`
believes it in place (`BoundIn` excepts programs with such regions).

Loops. A statically scheduled loop with a step near the end of the range of its
type counts no iterations, for instance `unsigned long long` from 0 to 4 by 2^64
- 2 (`iter_ull.c:71`), and `chunk_size * incr` may overflow (`loop.c:50`). A
statically scheduled ordered loop behind a dynamic one without a barrier posts
to thread 0 while that may still be waiting in the dynamic loop, and lets it in
before its turn (`ordered.c:161`; `InOrder` fails for the program dynamic of 2
iterations with nowait, static); likewise behind a static one whose last round
has fewer blocks than threads (3 threads, 4 iterations in chunks of 1). In a
doacross loop whose iterations fill all bits of the word the last post stores
the flattened iteration plus 1, which is 0, and its waiters hang
(`ordered.c:386`; `Across("static", 1, <<4, 2>>, <<<<-2, 0>>>>, FALSE)` with
three bits deadlocks). `gomp_doacross_ull_init` clears `sizeof (unsigned long) *
ncounts` bytes of an entry that has twice as many on a target where `long long`
is two words (`ordered.c:574`; `Across("static", 0, <<9>>, <<<<-1>>>>, TRUE)`
violates `SinksPosted`).

Tasks. In a `GOMP_taskwait` with several priorities the next task may come from
the team's queue without being a child of the waiting task
(`priority_queue.c:268`); `gomp_task_run_pre` is nevertheless told that it is,
and moves it in a `children_queue` that does not hold it (`task.c:1384`; with
checking on, `task.c:961` would stop the program). The model does not go on from
there, and the region with priorities in its run uses a taskgroup, where the
right parent is passed. The thread that has finished the last task of a
taskgroup reads `in_taskgroup_wait` after it has stored `num_children` 0
(`task.c:1202-1204`), upon which `GOMP_taskgroup_end` may leave by its unlocked
look and free the taskgroup; and `parent->taskwait` after it has unlinked the
child (`task.c:1169-1171`), when an undeferred parent, seeing its queue empty
without the lock, may be over. `NotifyGroup` and `NotifyParent` show the
windows. A task that still waits for its dependences is in no `children_queue`,
so that `gomp_clear_parent` does not reach it and it keeps a pointer to a parent
that ends first (`task.c:1057-1100`; a task that makes two dependent tasks and
ends violates `NothingDangles`). `priority_tree_insert` leaves the list's own
`last_parent_depends_on` behind when it turns the list into a tree
(`priority_queue.h:309`), against the comment at `priority_queue.h:53`.
`priority_list_downgrade_task` reads `node->prev` after it has linked the node
elsewhere (`task.c:926-943`).

Offloading. Exit data with `delete` of a key in another region's list frees the
array that holds it, if that was its last key, and `gomp_unmap_vars` of the
region reads it (`target.c:1963-1981`, `1046`). Exit data on a link variable
that is not mapped decrements `REFCOUNT_LINK` or removes the key
(`target.c:1955`); enter data of a zero-length section over one leaks its block;
`omp_target_associate_ptr` leaves `link_key` uninitialised. `GOMP_target_data`
follows a null descriptor if the device is finalized after `resolve_device`
(`target.c:1813-1816`, `process = "crashed"`). `GOMP_offload_register_ver`
appends an image after it has gone through the devices, and `gomp_init_device`
reads `offload_images` without `register_lock`: a device initialised in between
does not get the image (`target.c:1342-1367`, `1431-1440`).

OpenACC. The routines look up, unlock and then act (`oacc-mem.c:330-350`,
`360-420`, `440-500`, `547-593`): if an OpenMP region maps the range between the
parts of `acc_map_data`, `acc_unmap_data` later unmaps the region's descriptor;
of two threads in `acc_present_or_create` for the same data the second gets
NULL, and a later `acc_delete` frees memory whose key stays in the map;
`acc_delete` in another thread's open region, and `acc_free`, read a key after
the unlock. `acc_shutdown` does not reset `cached_base_dev`, so that a lazy
initialisation afterwards only attaches, and the device stays uninitialised; it
leaves freed descriptors in `openacc.data_environ`; `gomp_free_memmap` frees a
descriptor once for each of its keys (`target.c:1468-1477`). `goacc_new_thread`
puts an uninitialised block on the list that `acc_shutdown` reads.
`acc_unmap_data` of data mapped by a region only calls `gomp_unmap_vars (NULL)`.

## What is proved

TLAPS checks, for every set of threads and every value of the other constants:

* `LockProofs`, the mutex. The inductive invariant `IInv` is type correctness,
  exclusion and `LockedIffHeld` together: exclusion alone is not inductive,
  because the exchange that finds 0 must know that nobody is inside, and that
  in turn is preserved only if one thread at most is inside. `Invariance`
  proves it, `Exclusion` follows. `SleepersAreRemembered` is inductive relative
  to `IInv`. `MutexImplementsLock` maps each step to a step of `AbstractLock`
  or a stutter; the fairness part of the refinement is only model-checked.

* `LockProofs`, the locks. `LocksUseTheMutex` shows that each behaviour of the
  locks is one of `GompMutex`, as far as the mutex is concerned, so that its
  theorems hold inside. The inductive invariant `NestInv` adds `OwnerInside`,
  what the owner and the count are at each place, and for a `nest` lock
  `MutexHeld`: the owner, and whoever is about to become it, is inside the
  mutex, so that there is only one. Neither part is inductive alone: that a
  thread which has just got the mutex finds no owner follows from exclusion. A
  2.5 lock, which is taken by the compare-and-swap of the owner itself, needs
  only `OwnerInside`. `NestLockImplements` maps each step to a step of
  `AbstractNestLock` or a stutter. The look at the owner before the mutex is
  harmless because only a thread itself makes itself the owner.

* `LockProofs`, the semaphore. The inductive invariant `SemInv` is type
  correctness and what each place knows of its copy of the word: whoever is
  before the compare-and-swap that takes one has a copy with a count, whoever
  has set the flag has not. `SemSleepersAreRemembered` rests on it: the post
  that clears the flag for everybody is matched by the woken thread, which is in
  the second loop until it has set the flag again. `SemImplementsSemaphore` maps
  each step to a step of `AbstractSemaphore` or a stutter, for every bound
  `MaxCount` on the posts; fairness is only model-checked.

* `LockProofs`, the ARINC constructs, which share the module with the mutexes
  but none of their state. The inductive invariant has six parts: types;
  `Owners` (a thread between lock and unlock owns the mutex); `Message` (for
  each kind of construct, what its `END` says of its messages); `Gone`;
  `Numbers` (what each thread's own number of its single construct says about
  the team's count, at each place); `Runs` (every construct below the count has
  been run, or its winner is on its way out). `SinglesRunOnce`,
  `CriticalsExclude` and `OneRefusalMessage` follow. `Numbers` is needed because
  the counts of threads that are constructs apart are related only through
  `single_count`. `OneRefusalMessage` is one message for each kind, as there are
  two flags. The theorems hold also when tasks and targets occur inside of
  criticals, where the refusal deadlocks.

* `TeamBarrierProofs`, for every finite team and every list of barriers. What
  makes `BarrierSync` inductive is that there is one number `m`, the barrier the
  team is at, from which every thread's place follows: it comes to `m`, waits in
  it, is the last one there, leaves the one before, or has gone on to the end of
  a cancelled region (`Located`). `Counted` and `FinalCounted` then say that
  `awaited` and `awaited_final` are the numbers of threads still to come, the
  fact that lets the last thread, who sees 0, know that nobody is missing;
  `LastAlone` that there is one such thread; `StatesFit` what generation each
  waiting thread has seen, so that the wrap-around of the phase (at least 2
  phases) deceives nobody. `CancelHolds` (a canceller's copy of the generation
  is in force while it holds the lock) gives `NoLostUpdate`; `LoopCancelStays`
  and `FreedTeamUntouched` read off `Located`.

* `PosixBarrierProofs`, the same for the barrier without futexes. Here no
  number is in force throughout: the invariant says that the barrier is in one
  of three stages. The team gathers at barrier `m`; or a thread that holds
  `mutex1` opens it; or a canceller that holds `mutex1` lets the waiting go.
  In each stage `arrived`, `sem1` and `sem2` are sums over the places of the
  threads (`sem1` and whoever waits for it, against what the holder has still to
  post), and a thread that leaves counts itself out before the next one can
  enter. `PosixBarrierKeepsTogether` and `DestroyedBarrierEmpty` follow.

* `TeamPoolProofs`, for every sequence of regions, every set of workers and
  whatever grows, shrinks or leaves. A region goes through stages: the threads
  of the pool `gather` at the dock, coming from the barrier of their last team
  or newly created; they `run` the region up to its final barrier; after the
  last region they gather once more, `exit` and are `over`. The inductive
  invariant says that there are a stage, a number `c` and a list `who` of the
  `c` threads concerned, in the order of their numbers (`Members`), and for each
  stage where each of them is, what its `thr` has been given (`Given`: the loop
  over the idle threads goes through `index`) and of which team it still uses
  the barrier (`FromKept`: only `last_team`, which is why one spare team is
  enough). All other workers are unborn, gone or on their way out (`Outside`).
  `Round` is the count of a barrier: `awaited` is the number of threads that
  have not arrived (`Missing`), who opens it is alone, and nobody is missing
  then; at the dock this number changes under `Reinit` while threads are
  arriving, which is the point at which growing could lose one. The `Open` of
  the dock moves `gather` to `run` and the `Open` of the final barrier `run` to
  `gather`, although other threads have yet to pass what has been opened;
  `LetGo` marks them. `Counts` ties `ran` to the stage. `TeamsAreWaitedFor`,
  `NobodyIsStale` and `NobodyUsesAFreedTeam` follow. `FreedDockLeftToLetGo` says
  which threads may still be at the dock of a freed pool: those of `LetGo` that
  a smaller region did not want any more, and no others (the run
  `Parallel_freed_dock` has one). The hypothesis `WholeTeams`, that a team is
  made for as many threads as it is started with, holds for every entry point
  but `GOMP_parallel_start`, with which `TeamEndWaits` fails (run
  `Parallel_start`). Generations do not wrap around here, they do in
  `TeamBarrierProofs`. The invariant was checked on the run's regions before it
  was proved.

* `ThreadLimitProofs`, for any programs. `Base`, which always holds, has the
  types, what the members of a group have asked for and been given, and, where
  all initial threads begin with `GOMP_parallel` (`Firsts`), that every value
  read from `ARINC_MAX_THREADS` is 0 or a first number and no team of a
  `GOMP_parallel` is larger than some first number: `FirstRegionLimits`. `Fits`
  says that a group's `threads_busy` is at least its team and what the members
  have reserved beyond themselves, and at most the limit. The reservations are a
  sum over the members, which is written as the cardinality of a set of pairs
  (`Slots`), so that no induction is needed: a step changes the set of one
  member. `Fits` is kept by every step from a state where `NeverRaised` holds
  (`Kept`), and by no more: a raised number is not reserved. Hence
  `GroupsWithinLimit`, which has the condition inside the temporal formula and
  none on programs. `AgreedNeverRaised` shows from `Base` that under
  `FirstAgreed` the condition always holds, so that then the limit does
  (`AgreedWithinLimit`). Without the condition the limit fails, as said above.

* `ParallelProofs`. The four `...Refined` lemmas show that a behaviour of
  `Parallel` is, for the variables of a side, one of that side's module: its own
  steps, or it is at rest. The theorems of the sides then hold of the composed
  system, which is what the runs check: `PoolKeepsTogether` (with what is proved
  of the dock), `ReservedWithinLimit`, `FirstDirectiveLimits`,
  `TeamsKeepTogether`, `GenerationUpdatesKept`, `LoopCancellationEnds` and
  `FreedTeamsUntouched`.

* `WorkShareProofs`, for all regions whose team is finite and all sizes of the
  chunks from 2 on (`RegionsAssumption`, `SizeAssumption`). The inductive
  invariant says that there are a function `F` and numbers `d <= m` and `b`:
  all threads have left the constructs up to `d`, those up to `m` have been
  published, `F[k]` is the share of construct `k` between them, and `b` is the
  last construct whose barrier has been opened. Every share has a home (in use,
  on one of the free lists, retired or new in the hands of one thread, or still
  in the heap), and on a free list a rank that counts down along the links.
  `Threaded` says, for each place, which of the shares a thread's `work_share`
  and `last_work_share` are; so `SameShare` follows. `Completed` bounds
  `threads_completed` by the numbers of threads that have counted themselves
  out; `Gated` does the same for `awaited` of the barrier, and keeps all threads
  between the barriers `b` and the next one. Hence retiring a share advances `d`
  by exactly one, and there is one thread at a time that pushes a share onto
  `next_free` (`Alone`); the owner of the pointer lock, of whom there is also
  only one, takes what is behind the head of that list but never the head. So
  the head that a pusher has read cannot leave and come back: this is why the
  compare-and-swap is safe. The walks along the lists (`ChainFrom`, `Reach`) are
  handled without induction over an operator: `ChainExists` and
  `ReachAll` take a smallest counterexample, and `ReachWithin` shows that as
  many steps as there are shares suffice. The invariant was checked on the
  run's regions, with its witnesses computed from the state, before it was
  proved.

* `OrderedProofs`, for every team of two or more threads and every set of
  sequences of ordered and doacross loops. The inductive invariant rests on the
  turn of each ordered loop (`Turn`): it is with the thread whose block is the
  earliest (`Leader`), in the hands of the thread that passes it on, or on its
  way to the leader as a post of that thread's semaphore (`Posted`). `Releases`
  says that a semaphore has no other post: this is what lets `gomp_ordered_sync`
  take whatever post it finds, although the semaphores belong to the team and
  threads are loops apart. For a dynamic or guided loop (`Queue`) the ring holds
  the threads with a block (`QueueMembers`), in the order of the blocks
  (`QueueOrder`), which end where `next` begins (`QueueEnd`), and what has been
  given out and is over lies before a holder (`QueueRest`); `gomp_ordered_next`
  on a full ring, which only turns it, keeps all that. For a static loop
  (`Blocks`) there is a number `m`, the block whose turn it is: each thread is
  in, or comes to, its first block from `m` on (`TurnOf`), and passing to
  `Wrap(t + 1)` advances `m` by one; that the blocks of a loop follow each
  other, evenly shared or in chunks, is arithmetic about quotients
  (`EvenBlocks`, `BlockFacts`). `Barriers` says who may be in an earlier loop.
  `OrderedRegions` and `OrderedQueue` follow: everything before the leader's
  block is over, and a region is entered only by the leader. The hypothesis
  `StaticLoopsApart` asks of the programs, not of the code, that a static
  ordered loop has iterations and is the first, or behind a barrier:
  `gomp_ordered_static_init` posts to thread 0 without asking whether that has
  an iteration, or is still in the loop before, and without the hypothesis
  `InOrder` is false (run `Ordered_empty_loop`, and the programs named under
  "Loops" above). A program of `Loops_iterations` breaks the hypothesis in a
  harmless way and is covered by the run alone. The invariant was checked on
  such programs before it was proved.

Assumptions are those the modules name (`NoneAssumption` and the like);
TLC evaluates them in the runs.

Only model-checked: all liveness properties (TLAPS has no ENABLED here), and
so far what `Doacross` says of waits (`SinksPosted`) and all of `Places`,
`LoopIter`, `TaskTeam`, `TargetMap` and `AccMap`.

## Not modelled

Weak memory orderings. The device plugins (calls into the drivers of CUDA and
HSA); environment, ICVs and Fortran bindings (parsing, getters and setters);
the parsing of `OMP_PLACES` and CPU sets (system calls); the other operating
systems' replacements but for the barrier, which are thin wrappers of their
calls; `Arinc653Services.c`, which is not built and does not compile as it
stands. In the modelled parts: orphaned constructs (their state is one thread's
own); `dyn_var`; the preinitialised first share of combined constructs; the
`ordered` clause over `unsigned long long`; `final` tasks and target tasks;
in offloading and OpenACC the copies, pointer kinds, asynchronous queues and
several devices.

Most of the repository's lines are test programs and drivers' plugins, which
have no behaviour of the library's own; `PROJECT.json` maps most of the code of
the Linux build that keeps state shared between threads.

## Plan

1. Proofs, in order of weight: `WaitingFirst`, `CountsAgree`, `SinksPosted`.
2. `final` tasks and the target tasks of a build without the ARINC layer, whose
   completion comes from a thread of the plugin.
3. Several devices in `AccMap`, and asynchronous queues.

Runs stay few: a module takes the programs it is run with as a set, one of
which is chosen in `Init`, so that one run answers one question for all of
them.
