# bRoutine in TLA+

This directory is a specification of bRoutine, a stackful coroutine library for
Linux x86_64 (`src/src/`, C++). It states what the library promises, models how
the code keeps it, checks both with TLC on small instances and proves its
safety properties with TLAPS for every instance.

## The system

A program calls `bRoutine::New(level, func, args)->Resume()` and blocks in
`bMutex`, `bCond` or a hooked system call; the library switches to another
coroutine. One worker thread runs `ProcessBegin`, a coroutine of its own, and
takes coroutines from a queue of ready tasks.

| Component | Code | State | Operations | What makes it correct |
|---|---|---|---|---|
| Scheduler | `b_scheduler.cc`, `b_routine.cc`, `AddTask` in `b_routine_env.cc` | `occupyRoutine`, `pendingRoutine`, `ActivetaskItems` | `SwapContext`, the loop of `ProcessBegin`, `yield`, `Resume`, `AddTask` | one coroutine runs; each is scheduled once; who is ready runs |
| `bMutex`, `bCond` | `b_mutex_cond.cc/.h` | `lockCount`, a waiting list per object, locals of suspended calls | `lock`, `unlock`, `wait`, `timeWait`, `signalAll`, `signalOnce`, the timer's callback | no lost wake-up, no second wake-up, no holder beside another (the code fails the first and the third, see the findings), no pointer into a dead frame |
| Time wheel | `b_epoll.cc`, `Deal` | `BucketPosNow`, `LastCheckTime`, the buckets and their counters | `getBucket`, `NewMergeUpdate2Now`, `RemoveSelfFromOwnerlink_Save` | a timer fires at its time, not before, and the merge ends |
| `TaskItemsList` | `b_task.cc/.hh` | `head`, `tail`, `ItemCount`, two mutexes | `pushBack`, `popHead` | it is a queue, under any number of threads |
| Routine and stack pools | `b_routine_env.cc`, `b_stack.cc` | `RoutinePool`, three stack lists, `RoutineNums`, `IsPendingNeedDelete` | `New`, `bRoutineRecycle`, `deleteSelf`, deferred deletion | a stack has one owner; nothing freed is used; the pools are bounded |
| poll and events | `b_hook.cc`, `Deal` | `poll_message`, epoll's registrations | `poll`, `pollPerpare`, `pollCallback`, `pollTimeout` | the coroutine is woken once, its frame outlives its events |
| Hooked calls | `b_hook.cc` | `hooksFdSet`: a user's `O_NONBLOCK` and timeouts per descriptor | `socket`, `accept`, `connect`, `read`, `recv`, `recvfrom`, `write`, `send`, `sendto`, `fcntl`, `setsockopt`, `close` | blocking semantics over non-blocking descriptors: the worker is never held up, and the caller gets what a blocking call would give |
| Start-up | `b_routine_env.cc`, `b_scheduler.cc` | `__bRoutineEnv`, registered schedulers | `init`, `get`, `registe` | one environment, complete when seen |
| Stealing | `b_routine_env.cc` | the queues of other workers | `stealTaskRoutine` | no task is lost or run twice (never runs: there is one worker) |
| Switch and stacks | `b_swap.S`, `b_context.cc`, `b_stack.cc` | register images, mappings | `bSwap`, `init` | not a matter of interleaving |

The components meet at `AddTask` and `SwapContext`: every blocking operation
stores the coroutine somewhere (a waiting list, a bucket of the wheel, epoll)
and switches to the worker's loop, and every waking operation commits a task
for it. Coroutines are not preempted, but a call that switches comes back in a
different world; timers fire in the loop between any two coroutines; other
threads of the process that unlock a mutex or signal a condition push to the
worker's queue at any time. There are no crashes to recover from: nothing is
persisted.

One worker: `CreatMutProcessEnv` starts the threads `1 .. size - 1` where `size`
counts the schedulers that have registered; by then that is one
(`b_routine_env.cc:162`), so no second worker is ever started, whatever number
`bRoutineInitProcessNumber` is given, and `Readme.md`'s N:M scheduling does not
take place. The run `Startup_workers` shows it against that promise; what holds
instead, `SingleWorker` of `Startup`, is proved (`OneWorkerOnly`), and `Scheduler` and the
modules that extend it rely on it. `TaskList`, whose subject is threads, does
not.

## Modules

- `Scheduler`: the worker and its queue. It has no specification of its own:
  `MutexCond` and `Lifecycle` extend it and add what coroutines do. The code
  between two switches is one step, since nothing else of the library runs
  meanwhile. A task in the queue is the coroutine it resumes.
- `Coroutines`: the abstract promise. Each coroutine is unborn, ready, running,
  blocked or done; one runs; only a blocked or new one can be made ready; none
  comes back from done.
- `MutexCond`: `pc[r]` is the place in the library where `r` is suspended (the
  switch in `lock`, in `wait`, in `timeWait`, in the retry loop of `add`/`pop`),
  `mtx`, `expected` and `IsTimeout` are that call's argument and locals.
  `TryLock` is the compare-exchange of `lock()` with both outcomes;
  it stands in `Lock`, `LockRetry`, `WaitResumed` and `TimeWaitSignalled`, that
  is, wherever `lock()` runs or goes on. `TimerFires` is what `Deal` does with a
  due timer; the wheel is here only the set `armed`, and a timer may fire at
  any time. Memory that is not initialised (a `lockCount` outside static
  storage, the mutex of a condition's list) starts with any value. A coroutine
  that finishes leaves its object deleted or in the pool, where `Start` takes it
  for a new one: a stale task then resumes that one. `takenStale` (history) holds
  the mutexes that a retry took by exchanging 1 with 1. The
  application is well behaved (see the module's head), so whatever goes wrong
  is the library's doing.
- `TimerWheel`: the clock, the buckets with their counters, and the merge one
  iteration at a time. `due` is a history variable: the time for which a timer
  was armed.
- `TaskList`: `pushBack` and `popHead` with each access to `ItemCount`, to the
  links and to the two mutexes as a step. `pushed`, `popped` and `miscounted`
  are history; the last says that a pop has gone on with one mutex by a count of two
  of which one was not linked.
  The back links (`prev`) are left out: `pushBack` and `popHead` do not read
  them.
- `Lifecycle`: what becomes of `bRoutine` objects and stacks. `Finish` is the
  end of `RoutineBegin` and `deleteSelf`; it recycles and then switches, and
  `LoopResumed` is the code of `ProcessBegin` after its switch, which deletes
  what a full pool has refused.
- `Poll` extends `Scheduler`: `poll` and all of `Deal`. A coroutine stands for the
  `poll_message` in its frame; `registered` is what epoll holds, from a
  descriptor to the coroutine its event leads to, and `armed` the timers.
  `DealBegins` takes the result of `epoll_wait`, `pollPerpare` and `pollCallback`
  are its two passes, `MergeTimers` and `pollTimeout` what follows. `Open` and `Close`
  are the kernel's. A descriptor may be polled by several coroutines and closed
  under them: epoll's failures are ignored, as the code ignores them;
  `interfered` (history) says whose call met another's. `pollReturns` has the
  clean-up for a coroutine that neither an event nor the timer resumed
  (`b_hook.cc:276`); what would do so, a task left by `timeWait`, is not in this
  module.
- `Hooks` extends `Poll`: a hooked call of `r` is split where it leaves the
  library, at a kernel call or in `poll`. On a descriptor without `fileDesc`, or
  whose user set `O_NONBLOCK`, it is one kernel call (`straight`). `hooksFdSet` is the `_userFlags` of the
  descriptor table, `noWait` its timeouts, as far as they make `poll` return at
  once. The kernel's part (`link`, `readable`, `writable`, `nonblock`, `Peer`) is
  external: a connection is made, closed by the peer or fails, and `SO_ERROR` is
  pending only in the last case, until a call reports it. A kernel call that would
  block is not enabled, and holds up everybody, for its caller occupies the worker.
  `OpenElsewhere` is a descriptor from a call that is not hooked. `recv` and `send` are `read`
  and `write` here: the code is the same.
- `Startup`: `get`, `init` and what they call, one access to `__bRoutineEnv` or to
  the mutex per step, by any threads; then `ProcessBegin` as far as `registe`.
- `MC...`: the symmetry sets of the instances. `QueueLemmas`, `MutexCondProofs`,
  `TaskListProofs`, `StartupProofs`, `PollProofs`, `HooksProofs`, `LifecycleProofs`,
  `TimerWheelProofs`: proofs.

Helper operators whose names say what went wrong (`PopOnlyPeeks`,
`UnlinkCountsTwice`, ...) are variants of the definition below them; no
specification uses them. Each is a plausible bug, and with it in place of the
right definition the property listed for it in `PROJECT.json` fails.

## Runs

| Run | Question | Instance | Result |
|---|---|---|---|
| `MutexCond_wait` | without `timeWait`: types, one place per coroutine, blocked where a wake-up looks for it, one holder per mutex but for stale retries, implements `Coroutines`; with a fair loop, every ready coroutine runs | 3 coroutines, a static and a heap mutex, 1 condition; 468,864 states | holds |
| `MutexCond_timed` | with `timeWait`: blocked where a wake-up looks for it, timers point at live frames | 3 coroutines, 1 heap mutex, 1 condition, `MaxCopies` = 1; 401,371 states | holds |
| `MutexCond_lost` | is somebody due to wake whoever waits for a mutex? | 2 coroutines, 1 static mutex | violated |
| `TimerWheel_wheel` | wheel and clock agree, counters cover, nothing early, nothing left behind inside a turn | 2 timers, 4 slots, timeouts 0..5, 9 ms; 1,667,376 states | holds |
| `TimerWheel_overdue` | is nothing overdue after an advance? | 1 timer, 4 slots | violated |
| `TimerWheel_hang` | does the merge return? | 1 timer, 4 slots, fair | violated |
| `TaskList_two_locks` | lock order, no task twice or out of order, a queue until a pop relies on an item that is counted and not linked | 3 threads (1 pushes, 1 pops, 1 does both), 5 tasks; 10,566 states | holds |
| `TaskList_lost` | is it a queue for two threads? | 2 threads, 4 tasks | violated |
| `Lifecycle_pools` | stacks have one owner, no dangling objects, right deletion, bounded pools, no stack smaller than asked for | 4 coroutines, 5 stacks, `MaxKeep` = 2; 70,513 states | holds |
| `Hooks_calls` | no pointer outlives a `poll`, each is woken once, counted right and registered; a kernel call blocks the worker only on a descriptor without `fileDesc` or from `accept`; `read`, `write` and `connect` tell the truth | 2 coroutines, 2 descriptors of which 1 is a socket, `Length` = 2; 1,919,379 states; with deadlock | holds |
| `Startup_race` | one environment, whole for those who waited, every call returns | 3 threads, `MaxProcesses` = 2, fair; 7,307 states; with deadlock | holds |
| `Startup_workers` | are as many workers started as were asked for? | 3 threads, `MaxProcesses` = 2 | violated |

The violated runs are findings:

- *Lost wake-up* (`b_mutex_cond.cc:61`). A failed compare-exchange stores 1 in `i`,
  and the retry compares with that. Main holds the mutex, `a` queues itself, main
  unlocks: the count is 0 and `a` is woken. `a` compares 0 with its 1, fails, and
  queues itself on the free mutex; nobody is left to wake it until somebody
  locks and unlocks again. When somebody has locked before `a` runs, the same
  retry exchanges 1 with 1: both hold the mutex, and the second `unlock` aborts
  (`:82`). That is the exception of `HeldAsCounted`.
- *One worker of N:M* (`b_routine_env.cc:162`). The loop that starts the threads
  counts the schedulers that have registered, the creator's own, and not the
  number asked for.
- *Skipped slots* (`b_epoll.cc:46`). An advance that wraps merges nothing, and
  its timers wait for another turn or for ever.
- *Endless merge* (`b_epoll.cc:46`). An advance to exactly the last slot never
  ends, for `i` wraps to 0 and stays `<= target_pos`.
- *Broken queue* (`b_task.cc:84`). The item is counted before it is linked, so a
  pop in another thread takes one mutex where it needs two.

Known and not against any promise, so no finding: `bUnSharedStackPool_t::push`
files large stacks with the small ones (`b_routine_env.cc:106`), so that a small
coroutine may get a large stack, never the other way (`StackLargeEnough`).
A timed-out `timeWait` returns without the mutex (`b_mutex_cond.cc:122`), and its
coroutine stays on the condition's list. `accept` leaves its descriptor blocking
(`b_hook.cc:457`), and calls on a descriptor without `fileDesc` are the kernel's: the
exceptions of `HeldOnlyAsKnown`. `read` with a receive timeout of zero loops without
a switch (`b_hook.cc:300`): in `Hooks` a cycle of `Glances`, which no property excludes.
A thread that finds `__bRoutineEnv` set without
taking the mutex may find no worker registered (`b_routine_env.cc:176`), the
exception of `WholeIfLocked`.

### Bounds

- `MaxCopies` (`MutexCond`): `TimeWait` is called only while the caller has
  fewer than this many pending wake-ups in any list together with the queue.
  A timeout leaves the coroutine on the condition's list, so without the bound
  the lists grow for ever; with 1, the double scheduling of a timer and a
  signal is still reached. `lockCount` has the value 2 for all values other
  than 0 and 1, which the code does not tell apart.
- `MaxTime`, `MaxLag`, `MaxCount` (`TimerWheel`): the clock stops after two turns
  of the wheel and a bit; it runs at most `MaxLag` ahead of the wheel (with 5
  of 4 slots, an advance can skip a turn); a counter that has drifted to
  `MaxCount` accepts no more tasks. Four slots stand for the 30,000 of the code:
  the loop depends on the order of first index, target and end only, and all
  the orders occur.
- `MaxKeep` (`Lifecycle`) is `Max_Keep_Routines_Thread`; with 2 and four
  coroutines the pools run full, are drained and refill.
- In `TaskList` each task is pushed once. Five tasks and three threads are
  enough for a queue that crosses two items in both directions while a push and
  a pop are under way.
- `Length` (`Hooks`): with two bytes a write is taken whole or in part, and cut
  short. One socket that two coroutines use, close and make anew, and one plain
  descriptor that they poll beside it, give every event two readers and a poll
  of two descriptors, of which one or both report in the same `epoll_wait`.
- `MaxProcesses` (`Startup`): with 2, a second worker would be started if `size`
  were what was asked for; three threads are the creator, one that waits for
  the mutex and one that looks without it.
- Deadlock is checked in `Hooks_calls` and `Startup_race`. In the others
  applications may end, or all wait for each other; a stopped clock or an
  exhausted supply of tasks ends the rest. Of the queue's two mutexes
  `LockOrder` excludes it.

### Fairness

`MutexCond_wait` assumes, for `ReadyRuns`, that the worker's loop keeps running (it never blocks
for long: `hangTimeOut` is an absolute time in 1970), that a resumed library
call proceeds, and that a running application coroutine gives way some time,
as cooperative scheduling demands of it: weak fairness of `LoopDispatch` and
`Continue(r)` together, and of `Yield(r)`, for any `r`, since one place is taken
at a time. `Continue(r)` includes the endless retry on a
list that was never initialised, so even that does not starve others.
`TimerWheel_hang` assumes that the clock goes on and that the worker keeps
taking steps; the loop takes them for ever.
`Startup_race` assumes that each thread inside the library keeps running:
weak fairness of `InLibrary(t)`, which includes the mutex but not a fair one.

## Proofs

All are for arbitrary sets of coroutines, mutexes, conditions, threads and
tasks, under the `ASSUME`s of the modules (disjoint kinds, `Main` a coroutine,
`Loop` none, `NULL` none of them), which say no more than that different
things are different, and that threads, coroutines and descriptors are finitely
many where something counts them.

- `TypeCorrect`: `Spec => []TypeOK` of `MutexCond`. Not inductive by itself:
  `LockRetry` uses `mtx[r]` as a mutex, and a switch of a running coroutine leads
  to `pendingRoutine`. `SwitchInv` adds that a coroutine suspended in a call has
  its mutex and that while a coroutine runs, `pendingRoutine` is `Loop`.
  The lemmas of `QueueLemmas` give the elements of `Append`, `Tail` and `\o`;
  `AddToList` and `WakeAndPop` lift them to the waiting lists.
- `BlockedWhereWoken`: `Spec => []SuspendedIsReachable`. `StaysPlaced` shows for each
  action that a live coroutine that stood where its call's wake-up looks for it
  still does, or finishes; `Birth` that only `Start` makes one live, and `Start`
  queues it. It holds with `timeWait` and with memory that was not initialised, and
  says nothing of whether the wake-up comes: `NoLostWakeup` says that, and is false.
- `ExclusiveUnlessTakenStale`: `Spec => []HeldAsCounted`, mutual exclusion with its one
  exception. It is inductive with `SwitchInv`: only a retry exchanges another
  value than 0 (`TryLockCounted`), and only a mutex taken so can be held when its
  count is not 1 (`UnlockCounted`).
- `TimersPointAtLiveFrames`: `Spec => []ArmedOnlyWhileWaiting`, inductive with
  the fact that no timeout is pending outside `timeWait`.
- `ScheduledOnce`, `WaitersAreBlocked`, `CoroutinesImplemented`: `AtMostOnePlace`,
  `BlockedWhereListed` and the refinement `ImplementsCoroutines`, for any number
  of coroutines, mutexes and conditions of which none is used with `timeWait`
  (`TimedConds = {}`, the instance of `MutexCond_wait`). The hypothesis is the
  code's, not the proof's: a timeout resumes a coroutine and leaves it on the
  condition's list, so that with `timeWait` the three are false.
  `PlaceInv` says where each coroutine may be (`PlaceOf`): in one of the queue,
  the waiting lists and the worker, and on a list only if blocked on that list's
  object. It is stated per coroutine, so that a step needs an argument only for
  the one it moves (`Unmoved` is the lemma for the others).
  The refinement maps `Init` to `Init` (`StatusInit`) and each action to a step of
  `Coroutines` or a stutter (`StatusStep`, by one lemma per action).
- `LocksOrdered`: `Spec => []LockOrder` of `TaskList`, for any number of
  threads, inductive with the fact that a pop that is about to look at the
  count does not hold `TailMutex`.
- `ListTypeCorrect`: `Spec => []TypeOK` of `TaskList`; a thread past its entry
  has an item in hand. It includes that `ItemCount` never goes below zero.
- `TakenInTurn`: `Spec => []TakenOnceInOrder`, for any threads and tasks, the races
  that break the list included. `OrderInv` is inductive: a link leads only
  forward in the order of counting in (`LinkInv`), what was taken lies before
  `head` and before whatever a pop has in hand (`TakenInv`), and whoever changes
  an end holds its mutex (`EndsLocked`).
- `QueueWhileCounted`: `Spec => []QueueUnlessMiscounted`, with any number of pushes and
  pops under way at once. `CountedInv` is inductive as long as no pop has relied on
  an item not linked: `ListShape` gives the links, ends and count of the list in terms
  of what was pushed and popped and of how far the one push and the one pop in the
  list have come, and `Sides` says why those two do not touch the same item: a pop
  without `TailMutex` has another item between it and the tail, a push without
  `HeadMutex` an item before its own.
- `WheelTypeCorrect`, `WheelAlwaysInStep`, `CountNeverWraps`, `NeverEarly`,
  `NothingLeftWithinTurn`: all five properties of `TimerWheel_wheel`, for any size
  of the wheel and any timeouts. The inductive invariant adds that the merge
  works with a reading of the clock between `LastCheckTime` and now, that a linked
  task is due within a turn, that the slots the merge has passed are empty, and
  that what it has collected is due, unless it is the merge that wraps and never
  ends (`MergeInv`): which is why that bug makes nothing early. `DivMod`,
  `ModUnique`, `Distance` and `WithinTurn` are the arithmetic, for the provers know
  none of `%` by a variable.
- `LifeTypeCorrect`, `StacksNeverShared`, `NothingDangles`, `OnlyTheFinishedDeleted`,
  `PoolsStayBounded`, `StacksLargeEnough`: all six invariants of `Lifecycle`, for any
  coroutines, stacks and `MaxKeep`. Together they are almost inductive. What
  they lack is the order of the worker's steps (`WorkerInv`): a coroutine that can
  finish was dispatched by the loop, which stands behind its switch, so that the
  flag of `bRoutineRecycle` is the next thing the loop looks at; that `main` is
  never recycled (`MainInv`); and that a list holds its own level's stacks and
  large ones (`FiledInv`).
- `OneWorkerOnly`, `EnvironmentMadeOnce`, `WholeAfterLock`, `StartTypeCorrect`:
  the three invariants of `Startup_race` and `SingleWorker`, for any number of threads and processes asked
  for. The inductive invariant says that a thread is between `Lock` and the
  unlock exactly when it holds the mutex, and how far the one that makes the
  environment has come; `NoneToStart` is the arithmetic of line 162.
- `HooksImplementPoll`: `Spec => PollSpec`. The hooked calls enter `poll` only from
  outside of it and with a descriptor of the table, so each of their steps is a
  step of `Poll` or leaves its variables alone.
- `PollMessageOutlivesPointers`, `PollWokenOnce`, `NoPollerLost`, `PollResult`,
  `StaysRegistered`: the invariants about `poll`, for any coroutines and
  descriptors. `Inv` of `PollProofs` is their strengthening. Its centre is
  `Suspended(r)`, in `poll` and not committed: whatever points at a `poll_message`
  points at a suspended one (`Owners`), suspended is the opposite of committed
  (`Queued`), something leads to each suspended one (`Led`), the counters are the
  cardinalities of what was reported and of what is yet to be handled (`Counts`:
  this is why the last event, and only that, commits), and two suspended calls
  share a descriptor only after they have interfered (`Apart`: this is why the
  DEL of one leaves the registrations of the other). There is one lemma per
  action; `pollCallback` has two, for the last event and for the others.
- `HooksTypeCorrect` and `WorkerHeldOnlyAsKnown`: with `HookInv`, which says where in
  a call a coroutine in `poll` is, that `connect` has an attempt left where it
  waits, and that a socket with a `fileDesc` is open, and non-blocking or from
  `accept` (`Marked`).
- `ReadsGetTheirData`, `WritesAreWhole`, `ConnectsAreTrue`: the action properties of the
  hooked calls. `TruthOf(r)` says what the call of `r` may rely on between an event
  and the kernel call that follows it, other coroutines running meanwhile: unless
  one of them used the socket (`raced`), it is open, and the event is still true
  (`Expects`, `Ready`). `PeerHelps` is why the other end cannot spoil it, `Elsewhere`
  why a step on another socket does not. For `connect` it says that the socket is
  not idle again, so that one that is writable was connected (`TableInv`: nothing
  has room before) and `SO_ERROR` is that of this attempt.

Only model-checked: the liveness properties `ReadyRuns` and `EveryCallReturns`, for
fairness is out of the prover's reach, and that `Hooks_calls` and `Startup_race`
do not deadlock, which is a statement about ENABLED. Every invariant, every
action property and the refinement that the passing runs check are proved.
`MutexCond` with `timeWait` is proved where the statement holds with it.

## Plan

Done: `Scheduler`, `Coroutines`, `MutexCond`, `TimerWheel`, `TaskList`, `Lifecycle`,
`Poll`, `Hooks` and `Startup` with their runs, and the proofs above. Next, in this
order:

1. Coroutines with hooks disabled beside others, in `Hooks`.
2. An abstract queue that `TaskList` implements for one thread, and an abstract
   set of deadlines that `TimerWheel` implements within a turn.

## Not modelled

- Stealing (`Try2stealTask`): `stealTaskRoutine`'s loop runs over the schedulers
  other than the caller's, and by `OneWorkerOnly` there is none. The code is
  never reached, and its states are none the program can be in. What would go
  wrong with a second worker is therefore out of the model too: the loop's index
  (`b_routine_env.cc:353`), a single task pushed back and returned (`:331`),
  `AddTask`'s unlocked index (`:18`) and the unlocked unlinking of
  `RemoveSelfFromOwnerlink_Save` (`b_task.hh:103`).
- The register switch, signal masks and stack mappings: sequential, no
  interleaving.
- Of the hooked calls: with hooks disabled, and the other commands of `fcntl`, which
  go straight to the kernel and change nothing in the library; `enableHook` and
  `disableHook`; what `SO_RCVTIMEO` and `SO_SNDTIMEO` do in the kernel to a descriptor
  that blocks; listening sockets, and with them an `accept` that blocks on one
  without `O_NONBLOCK`; `poll` of the application with a timeout of 0.
- Debugging output; the clock set back; `IsStop` and `IsHangup`, which nothing
  sets; a descriptor beyond `hooksFdSet` (`b_hook.cc:102`); a coroutine resumed twice by its application.
