------------------------------ MODULE MutexCond ------------------------------
(***************************************************************************)
(* bMutex and bCond (b_mutex_cond.cc) used by coroutines on one worker.    *)
(*                                                                         *)
(* A call that may switch is split at its SwapContext: pc[r] names the     *)
(* place where r is suspended, and the step that follows its dispatch runs *)
(* the code after that place.  Applications are well behaved: a coroutine  *)
(* locks only what it does not hold, unlocks, waits with and finishes only *)
(* what lock() returned to it (held), and starts a coroutine once.         *)
(***************************************************************************)
EXTENDS Scheduler, FiniteSets

CONSTANTS
  Main,            \* the coroutine of main()
  Mutexes, Conds,  \* the bMutex and the bCond objects
  StaticMutexes,   \* the mutexes in static storage, whose lockCount starts at 0
  TimedConds,      \* the conditions on which the application calls timeWait
  MaxCopies,       \* bound: pending wake-ups of one coroutine before timeWait
  NoMutex

Lists == Mutexes \cup Conds      \* each object has one bMutexCondTaskList

ASSUME MutexCondAssumption ==
  /\ Main \in Routines
  /\ Mutexes \cap Conds = {}
  /\ StaticMutexes \subseteq Mutexes
  /\ TimedConds \subseteq Conds
  /\ NoMutex \notin Mutexes
  /\ MaxCopies \in Nat

VARIABLES
  lockCount,   \* bMutex::lockCount; 2 stands for any value but 0 and 1
  list,        \* the waiting list of each object
  usable,      \* FALSE: pthread_mutex_trylock on the list's mutex always fails
  pc,          \* where the coroutine is suspended, or is about to go on
  mtx,         \* the mutex argument of the call in progress
  expected,    \* local i of bMutex::lock
  IsTimeout,   \* local IsTimeout of bCond::timeWait
  armed,       \* the coroutines whose timeWait TaskItem is in the time wheel
  held,        \* the mutexes whose lock() returned and that were not unlocked
  fault,       \* "abort": unlock aborted; "segv": the process crashed
  takenStale   \* history: the mutexes that a lock() took by exchanging
               \* another value than 0, the stale one of a failed attempt

frameVars == <<pc, mtx, expected, IsTimeout>>
vars == <<schedVars, lockCount, list, usable, frameVars, armed, held, fault, takenStale>>

PCs == {"unborn", "user", "lock", "wait", "timeWait", "spin", "done"}

TypeOK ==
  /\ SchedTypeOK
  /\ lockCount \in [Mutexes -> 0 .. 2]
  /\ list \in [Lists -> Seq(Routines)]
  /\ usable \in [Lists -> BOOLEAN]
  /\ pc \in [Routines -> PCs]
  /\ mtx \in [Routines -> Mutexes \cup {NoMutex}]
  /\ expected \in [Routines -> 0 .. 2]
  /\ IsTimeout \in [Routines -> BOOLEAN]
  /\ armed \subseteq Routines
  /\ held \in [Routines -> SUBSET Mutexes]
  /\ fault \in {"none", "abort", "segv"}
  /\ takenStale \subseteq Mutexes

(***************************************************************************)
(* main() runs and nothing else exists.  bMutex() does not set lockCount   *)
(* and bCond() does not initialise its list's mutex: objects outside       *)
(* static storage start with whatever the memory held.                     *)
(***************************************************************************)
Init ==
  /\ occupyRoutine = Main
  /\ pendingRoutine = Loop
  /\ ActivetaskItems = <<>>
  /\ lockCount \in {n \in [Mutexes -> 0 .. 2] : \A m \in StaticMutexes : n[m] = 0}
  /\ list = [l \in Lists |-> <<>>]
  /\ usable \in {u \in [Lists -> BOOLEAN] : \A m \in Mutexes : u[m]}
  /\ pc = [r \in Routines |-> IF r = Main THEN "user" ELSE "unborn"]
  /\ mtx = [r \in Routines |-> NoMutex]
  /\ expected = [r \in Routines |-> 0]
  /\ IsTimeout = [r \in Routines |-> FALSE]
  /\ armed = {}
  /\ held = [r \in Routines |-> {}]
  /\ fault = "none"
  /\ takenStale = {}
-----------------------------------------------------------------------------
Runs(r, where) == fault = "none" /\ occupyRoutine = r /\ pc[r] = where

(* The call of r returns to the application: its locals are gone. *)
Returns(r) ==
  /\ pc' = [pc EXCEPT ![r] = "user"]
  /\ mtx' = [mtx EXCEPT ![r] = NoMutex]
  /\ expected' = [expected EXCEPT ![r] = 0]
  /\ IsTimeout' = [IsTimeout EXCEPT ![r] = FALSE]

(* bMutexCondTaskList::add and pop, on a list whose mutex can be taken. *)
AddForgotten(l, o, r) == l
Add(l, o, r) == [l EXCEPT ![o] = Append(@, r)]

PopOnlyPeeks(l, o) == l
Pop(l, o) == [l EXCEPT ![o] = IF @ = <<>> THEN @ ELSE Tail(@)]

(* The task that wakes the first waiter of o, if there is one. *)
WakeFirst(q, l, o) == IF l[o] = <<>> THEN q ELSE AddTask(q, Head(l[o]))

(***************************************************************************)
(* bMutex::lock from its label retry, with local i = e: a compare-exchange *)
(* of i with 1, which stores the value it found into i when it fails.  On  *)
(* failure r queues itself and switches; it will retry with the new i.     *)
(***************************************************************************)
TryLock(r, m, e) ==
  IF lockCount[m] = e
  THEN /\ lockCount' = [lockCount EXCEPT ![m] = 1]
       /\ held' = [held EXCEPT ![r] = @ \cup {m}]
       /\ takenStale' = IF e = 0 THEN takenStale ELSE takenStale \cup {m}
       /\ Returns(r)
       /\ UNCHANGED <<schedVars, list>>
  ELSE /\ list' = Add(list, m, r)
       /\ pc' = [pc EXCEPT ![r] = "lock"]
       /\ mtx' = [mtx EXCEPT ![r] = m]
       /\ expected' = [expected EXCEPT ![r] = lockCount[m]]
       /\ IsTimeout' = [IsTimeout EXCEPT ![r] = FALSE]
       /\ SwapContext
       /\ UNCHANGED <<ActivetaskItems, lockCount, held, takenStale>>

Lock(r, m) ==
  /\ Runs(r, "user")
  /\ m \notin held[r]
  /\ TryLock(r, m, 0)
  /\ UNCHANGED <<usable, armed, fault>>

(* r is resumed inside lock(): goto retry. *)
LockRetry(r) ==
  /\ Runs(r, "lock")
  /\ TryLock(r, mtx[r], expected[r])
  /\ UNCHANGED <<usable, armed, fault>>

(* The compare-exchange of unlock fails: abort(). *)
UnlockAborts(m) ==
  /\ lockCount[m] # 1
  /\ fault' = "abort"
  /\ UNCHANGED <<schedVars, lockCount, list, usable, frameVars, armed, held, takenStale>>

(* The compare-exchange of unlock: the mutex is free, waiters or not. *)
ReleaseHandsOver(m) == [lockCount EXCEPT ![m] = IF list[m] = <<>> THEN 0 ELSE 1]
Release(m) == [lockCount EXCEPT ![m] = 0]

(* bMutex::unlock: the mutex is free and its first waiter is ready. *)
Unlock(r, m) ==
  /\ Runs(r, "user")
  /\ m \in held[r]
  /\ \/ UnlockAborts(m)
     \/ /\ lockCount[m] = 1
        /\ lockCount' = Release(m)
        /\ held' = [held EXCEPT ![r] = @ \ {m}]
        /\ ActivetaskItems' = WakeFirst(ActivetaskItems, list, m)
        /\ list' = Pop(list, m)
        /\ UNCHANGED <<occupyRoutine, pendingRoutine, usable, frameVars, armed, fault,
                       takenStale>>

(***************************************************************************)
(* bCond::wait and the first half of bCond::timeWait: unlock, queue on the *)
(* condition, arm a timer (timeWait only) and switch.  When the trylock of *)
(* the list's mutex cannot succeed, add() yields and retries for ever.     *)
(***************************************************************************)
Enqueue(r, c, m, place, timers) ==
  /\ Runs(r, "user")
  /\ m \in held[r]
  /\ \/ UnlockAborts(m)
     \/ /\ lockCount[m] = 1
        /\ lockCount' = Release(m)
        /\ held' = [held EXCEPT ![r] = @ \ {m}]
        /\ mtx' = [mtx EXCEPT ![r] = m]
        /\ SwapContext
        /\ \/ /\ usable[c]
              /\ ActivetaskItems' = WakeFirst(ActivetaskItems, list, m)
              /\ list' = Add(Pop(list, m), c, r)
              /\ pc' = [pc EXCEPT ![r] = place]
              /\ armed' = timers
           \/ /\ ~usable[c]
              /\ ActivetaskItems' = AddTask(WakeFirst(ActivetaskItems, list, m), r)
              /\ list' = Pop(list, m)
              /\ pc' = [pc EXCEPT ![r] = "spin"]
              /\ UNCHANGED armed
        /\ UNCHANGED <<usable, expected, IsTimeout, fault, takenStale>>

Wait(r, c, m) == Enqueue(r, c, m, "wait", armed)

(* How often r occurs in the queue q. *)
Copies(q, r) == Cardinality({i \in 1 .. Len(q) : q[i] = r})

TimeWait(r, c, m) ==
  /\ \A l \in Lists : Copies(ActivetaskItems, r) + Copies(list[l], r) < MaxCopies
  /\ Enqueue(r, c, m, "timeWait", armed \cup {r})

(* bCond::wait after its switch: lock() anew. *)
WaitResumed(r) ==
  /\ Runs(r, "wait")
  /\ TryLock(r, mtx[r], 0)
  /\ UNCHANGED <<usable, armed, fault>>

(* RemoveSelfFromOwnerlink_Save of the task that timeWait put in the wheel. *)
TimerLeftBehind(timers, r) == timers
Disarm(timers, r) == timers \ {r}

(***************************************************************************)
(* bCond::timeWait after its switch.  If the timer has not run, the task   *)
(* leaves the wheel and the mutex is locked anew; if it has, the call      *)
(* returns 0 at once, without the mutex and still on the condition's list. *)
(***************************************************************************)
TimeWaitSignalled(r) ==
  /\ Runs(r, "timeWait")
  /\ ~IsTimeout[r]
  /\ armed' = Disarm(armed, r)
  /\ TryLock(r, mtx[r], 0)
  /\ UNCHANGED <<usable, fault>>

TimeWaitTimedOut(r) ==
  /\ Runs(r, "timeWait")
  /\ IsTimeout[r]
  /\ Returns(r)
  /\ UNCHANGED <<schedVars, lockCount, list, usable, armed, held, fault, takenStale>>

(* r is in the retry loop of add() or pop() on a list it cannot lock. *)
Spin(r) ==
  /\ Runs(r, "spin")
  /\ YieldSelf(r)
  /\ UNCHANGED <<lockCount, list, usable, frameVars, armed, held, fault, takenStale>>

(* bCond::signalAll: every waiter becomes ready, in the order of the list. *)
SignalAll(r, c) ==
  /\ Runs(r, "user")
  /\ \/ /\ usable[c]
        /\ ActivetaskItems' = ActivetaskItems \o list[c]
        /\ list' = [list EXCEPT ![c] = <<>>]
        /\ UNCHANGED <<occupyRoutine, pendingRoutine, pc>>
     \/ /\ ~usable[c]
        /\ YieldSelf(r)
        /\ pc' = [pc EXCEPT ![r] = "spin"]
        /\ UNCHANGED list
  /\ UNCHANGED <<lockCount, usable, mtx, expected, IsTimeout, armed, held, fault,
                 takenStale>>

(* bCond::signalOnce: the result of pop() is used without a test. *)
SignalOnce(r, c) ==
  /\ Runs(r, "user")
  /\ \/ /\ usable[c] /\ list[c] # <<>>
        /\ ActivetaskItems' = WakeFirst(ActivetaskItems, list, c)
        /\ list' = Pop(list, c)
        /\ UNCHANGED <<occupyRoutine, pendingRoutine, pc, fault>>
     \/ /\ usable[c] /\ list[c] = <<>>
        /\ fault' = "segv"
        /\ UNCHANGED <<schedVars, list, pc>>
     \/ /\ ~usable[c]
        /\ YieldSelf(r)
        /\ pc' = [pc EXCEPT ![r] = "spin"]
        /\ UNCHANGED <<list, fault>>
  /\ UNCHANGED <<lockCount, usable, mtx, expected, IsTimeout, armed, held, takenStale>>
-----------------------------------------------------------------------------
(* bRoutine::New(...)->Resume(), as every program under testCase/ does it. *)
Start(r, n) ==
  /\ Runs(r, "user")
  /\ pc[n] = "unborn"
  /\ ResumeTarget(r, n)
  /\ pc' = [pc EXCEPT ![n] = "user"]
  /\ UNCHANGED <<lockCount, list, usable, mtx, expected, IsTimeout, armed, held, fault,
                 takenStale>>

Yield(r) ==
  /\ Runs(r, "user")
  /\ YieldSelf(r)
  /\ UNCHANGED <<lockCount, list, usable, frameVars, armed, held, fault, takenStale>>

(***************************************************************************)
(* func returned, or deleteSelf: the coroutine switches for the last time. *)
(* Its object is deleted, or waits in the pool for a New() to start a new  *)
(* coroutine in it; a task left from the old one then resumes the new one. *)
(* (Main is not pooled: its return ends the process.)                      *)
(***************************************************************************)
Finish(r) ==
  /\ Runs(r, "user")
  /\ held[r] = {}
  /\ \E after \in IF r = Main THEN {"done"} ELSE {"unborn", "done"} :
       pc' = [pc EXCEPT ![r] = after]
  /\ SwapContext
  /\ UNCHANGED <<ActivetaskItems, lockCount, list, usable, mtx, expected, IsTimeout,
                 armed, held, fault, takenStale>>

(* A stale task resumed a finished coroutine that no New() has taken anew: *)
(* RoutineBegin returns into an empty stack.                               *)
ResumedDead(r) ==
  /\ Runs(r, "done") \/ Runs(r, "unborn")
  /\ fault' = "segv"
  /\ UNCHANGED <<schedVars, lockCount, list, usable, frameVars, armed, held, takenStale>>

LoopDispatch ==
  /\ fault = "none"
  /\ Dispatch
  /\ UNCHANGED <<lockCount, list, usable, frameVars, armed, held, fault, takenStale>>

(* bRoutineEnv::Deal runs a due timer: CondTimeOutCallback, then AddTask.  *)
TimerFires(r) ==
  /\ fault = "none"
  /\ occupyRoutine = Loop
  /\ r \in armed
  /\ armed' = armed \ {r}
  /\ IsTimeout' = [IsTimeout EXCEPT ![r] = TRUE]
  /\ ActivetaskItems' = AddTask(ActivetaskItems, r)
  /\ UNCHANGED <<occupyRoutine, pendingRoutine, lockCount, list, usable, pc, mtx,
                 expected, held, fault, takenStale>>

(* The code that runs when r is resumed inside a call of the library. *)
Continue(r) ==
  \/ LockRetry(r)
  \/ WaitResumed(r)
  \/ TimeWaitSignalled(r)
  \/ TimeWaitTimedOut(r)
  \/ Spin(r)
  \/ ResumedDead(r)

Call(r) ==
  \/ \E m \in Mutexes : Lock(r, m) \/ Unlock(r, m)
  \/ \E m \in Mutexes, c \in Conds : Wait(r, c, m)
  \/ \E m \in Mutexes, c \in TimedConds : TimeWait(r, c, m)
  \/ \E c \in Conds : SignalAll(r, c) \/ SignalOnce(r, c)
  \/ \E n \in Routines : Start(r, n)
  \/ Yield(r)
  \/ Finish(r)

Next ==
  \/ LoopDispatch
  \/ \E r \in Routines : TimerFires(r) \/ Continue(r) \/ Call(r)

(***************************************************************************)
(* Cooperative scheduling: the worker's loop keeps running, a resumed      *)
(* library call goes on, and an application coroutine does not run for     *)
(* ever without giving way.                                                *)
(***************************************************************************)
Fairness ==
  /\ WF_vars(LoopDispatch \/ \E r \in Routines : Continue(r))
  /\ WF_vars(\E r \in Routines : Yield(r))

Spec == Init /\ [][Next]_vars
FairSpec == Spec /\ Fairness
-----------------------------------------------------------------------------
Waits(r) == \E l \in Lists : In(list[l], r)
Live(r) == pc[r] \notin {"unborn", "done"}

(***************************************************************************)
(* A coroutine is scheduled at most once: it does not run, stand in the    *)
(* ready queue and stand in a waiting list at the same time, nor twice in  *)
(* one of them, and one that has finished or not begun is nowhere.  Two    *)
(* tasks of one coroutine would resume it a second time in the middle of   *)
(* whatever call it has reached by then.  (Without timeWait, whose timeout *)
(* leaves the coroutine on the condition's list.)                          *)
(***************************************************************************)
AtMostOnePlace ==
  /\ NoDuplicates(ActivetaskItems)
  /\ \A l \in Lists : NoDuplicates(list[l])
  /\ \A r \in Routines :
       /\ In(ActivetaskItems, r) => Live(r) /\ occupyRoutine # r /\ ~Waits(r)
       /\ occupyRoutine = r => Live(r) /\ ~Waits(r)
       /\ Waits(r) => Live(r)
       /\ \A l, k \in Lists : In(list[l], r) /\ In(list[k], r) => l = k

(***************************************************************************)
(* A suspended coroutine stands where a wake-up of its call looks for it:  *)
(* it is in the ready queue, or it is blocked in lock() on the list of     *)
(* that very mutex, in wait() on a condition's list, in timeWait() on a    *)
(* condition's list with its timer in the wheel.  Every path of lock,      *)
(* unlock, wait, timeWait, signal and of a late or stale wake-up keeps it  *)
(* there.  (Whether the wake-up comes is another matter: NoLostWakeup.)    *)
(***************************************************************************)
AwaitsIn(r) ==
  IF pc[r] = "lock" THEN {mtx[r]}
  ELSE IF pc[r] = "wait" \/ (pc[r] = "timeWait" /\ r \in armed) THEN Conds ELSE {}

SuspendedIsReachable ==
  \A r \in Routines :
    Live(r) => \/ occupyRoutine = r
               \/ In(ActivetaskItems, r)
               \/ \E l \in AwaitsIn(r) : In(list[l], r)

(***************************************************************************)
(* No wake-up of a mutex is lost: while a coroutine is on its list,        *)
(* somebody is due to take it off, a holder that will unlock, or one that  *)
(* is on its way to take the mutex and will unlock then.                   *)
(***************************************************************************)
NoLostWakeup ==
  \A m \in Mutexes :
    list[m] # <<>> =>
      \E r \in Routines :
        \/ m \in held[r]
        \/ /\ occupyRoutine = r \/ In(ActivetaskItems, r)
           /\ pc[r] \in {"lock", "wait", "timeWait"} /\ ~IsTimeout[r]
           /\ mtx[r] = m

(***************************************************************************)
(* lockCount tells the truth: a mutex has one holder at most and none when *)
(* it is not 1, unless a retry of lock() took it with a stale value        *)
(* (b_mutex_cond.cc:61), and unlock() aborts after such a retry only;      *)
(* conversely a mutex of static storage is free when nobody holds it, so   *)
(* whoever waits while it is locked waits for a coroutine that will        *)
(* unlock.                                                                 *)
(***************************************************************************)
HeldAsCounted ==
  /\ \A m \in Mutexes \ takenStale, r \in Routines :
       m \in held[r] => /\ lockCount[m] = 1
                       /\ \A q \in Routines : m \in held[q] => q = r
  /\ fault = "abort" => takenStale # {}
  /\ \A m \in StaticMutexes :
       lockCount[m] # 0 => \E r \in Routines : m \in held[r]

(***************************************************************************)
(* A waiting list holds only coroutines blocked on its object: whoever     *)
(* unlock or signal wakes resumes behind the switch of the call that put   *)
(* it on the list.  (Without timeWait.)                                    *)
(***************************************************************************)
BlockedWhereListed ==
  \A r \in Routines :
    /\ \A m \in Mutexes : In(list[m], r) => pc[r] = "lock" /\ mtx[r] = m
    /\ \A c \in Conds : In(list[c], r) => pc[r] = "wait"

(***************************************************************************)
(* CondTimeOutCallback writes through a pointer into the frame of          *)
(* timeWait: a timer is in the wheel only while that frame is alive and    *)
(* the timeout has not been reported.                                      *)
(***************************************************************************)
ArmedOnlyWhileWaiting ==
  \A r \in armed : pc[r] = "timeWait" /\ ~IsTimeout[r]

(***************************************************************************)
(* No ready coroutine starves: the queue is served in order, whatever the  *)
(* others do, unless the process dies.                                     *)
(***************************************************************************)
ReadyRuns ==
  \A r \in Routines :
    In(ActivetaskItems, r) ~> (occupyRoutine = r \/ fault # "none")

(***************************************************************************)
(* The promise of Coroutines is kept: a coroutine's state is read off its  *)
(* place.  (Without timeWait.)                                             *)
(***************************************************************************)
Status ==
  [r \in Routines |->
     IF ~Live(r) THEN pc[r]
     ELSE IF occupyRoutine = r THEN "running"
     ELSE IF In(ActivetaskItems, r) THEN "ready" ELSE "blocked"]

Abs == INSTANCE Coroutines WITH st <- Status
ImplementsCoroutines == Abs!Spec
=============================================================================
