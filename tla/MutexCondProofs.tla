--------------------------- MODULE MutexCondProofs ---------------------------
(***************************************************************************)
(* Proofs about MutexCond for any set of coroutines, mutexes and           *)
(* conditions.                                                             *)
(***************************************************************************)
EXTENDS MutexCond, QueueLemmas

USE MutexCondAssumption, LoopAssumption DEF Lists, Release

(* While a coroutine runs, the next switch leads back to the worker's      *)
(* loop; a coroutine suspended in a call still knows its mutex.            *)
SwitchInv ==
  /\ occupyRoutine # Loop => pendingRoutine = Loop
  /\ \A r \in Routines : pc[r] \in {"lock", "wait", "timeWait"} => mtx[r] \in Mutexes

Basic == TypeOK /\ SwitchInv

(* add() of a waiting list adds r to the list of o and nothing else. *)
LEMMA AddToList ==
  ASSUME NEW l \in [Lists -> Seq(Routines)], NEW o \in Lists, NEW r \in Routines
  PROVE  /\ Add(l, o, r) \in [Lists -> Seq(Routines)]
         /\ \A k \in Lists : \A x : In(Add(l, o, r)[k], x) <=> In(l[k], x) \/ (k = o /\ x = r)
         /\ \A k \in Lists : NoDuplicates(l[k]) /\ (k = o => ~In(l[o], r))
                               => NoDuplicates(Add(l, o, r)[k])
<1>1. Add(l, o, r)[o] = Append(l[o], r)
  BY DEF Add
<1>2. \A k \in Lists : k # o => Add(l, o, r)[k] = l[k]
  BY DEF Add
<1>3. l[o] \in Seq(Routines)
  OBVIOUS
<1>4. /\ Append(l[o], r) \in Seq(Routines)
      /\ \A x : In(Append(l[o], r), x) <=> In(l[o], x) \/ x = r
      /\ NoDuplicates(l[o]) /\ ~In(l[o], r) => NoDuplicates(Append(l[o], r))
  BY <1>3, AppendIn
<1>5. Add(l, o, r) \in [Lists -> Seq(Routines)]
  BY <1>4 DEF Add
<1> QED BY <1>1, <1>2, <1>4, <1>5

(* unlock and signalOnce move the first waiter of o, if there is one, to   *)
(* the ready queue, and no other coroutine.                                *)
LEMMA WakeAndPop ==
  ASSUME NEW q \in Seq(Routines), NEW l \in [Lists -> Seq(Routines)], NEW o \in Lists
  PROVE  /\ WakeFirst(q, l, o) \in Seq(Routines)
         /\ Pop(l, o) \in [Lists -> Seq(Routines)]
         /\ \A x : In(WakeFirst(q, l, o), x) => In(q, x) \/ In(l[o], x)
         /\ \A x : In(q, x) => In(WakeFirst(q, l, o), x)
         /\ \A k \in Lists : \A x : In(Pop(l, o)[k], x) => In(l[k], x)
         /\ \A k \in Lists : \A x :
              In(l[k], x) => In(Pop(l, o)[k], x) \/ (k = o /\ In(WakeFirst(q, l, o), x))
         /\ NoDuplicates(q) /\ (\A x : ~(In(q, x) /\ In(l[o], x)))
              => NoDuplicates(WakeFirst(q, l, o))
         /\ \A k \in Lists : NoDuplicates(l[k]) => NoDuplicates(Pop(l, o)[k])
         /\ NoDuplicates(l[o])
              => \A x : In(Pop(l, o)[o], x) /\ In(WakeFirst(q, l, o), x) => In(q, x)
<1>1. l[o] \in Seq(Routines)
  OBVIOUS
<1>2. \A k \in Lists : k # o => Pop(l, o)[k] = l[k]
  BY DEF Pop
<1>3. CASE l[o] = <<>>
  <2>1. WakeFirst(q, l, o) = q
    BY <1>3 DEF WakeFirst
  <2>2. Pop(l, o)[o] = l[o] /\ Pop(l, o) \in [Lists -> Seq(Routines)]
    BY <1>3 DEF Pop
  <2>3. \A x : ~In(l[o], x)
    BY <1>3 DEF In
  <2> QED BY <2>1, <2>2, <2>3, <1>2
<1>4. CASE l[o] # <<>>
  <2>1. WakeFirst(q, l, o) = Append(q, Head(l[o]))
    BY <1>4 DEF WakeFirst, AddTask
  <2>2. Pop(l, o)[o] = Tail(l[o])
    BY <1>4 DEF Pop
  <2>3. /\ Head(l[o]) \in Routines
        /\ Tail(l[o]) \in Seq(Routines)
        /\ \A x : In(l[o], x) <=> In(Tail(l[o]), x) \/ x = Head(l[o])
        /\ NoDuplicates(l[o]) => NoDuplicates(Tail(l[o])) /\ ~In(Tail(l[o]), Head(l[o]))
    BY <1>1, <1>4, TailIn
  <2>4. /\ Append(q, Head(l[o])) \in Seq(Routines)
        /\ \A x : In(Append(q, Head(l[o])), x) <=> In(q, x) \/ x = Head(l[o])
        /\ NoDuplicates(q) /\ ~In(q, Head(l[o])) => NoDuplicates(Append(q, Head(l[o])))
    BY <2>3, AppendIn
  <2>5. Pop(l, o) \in [Lists -> Seq(Routines)]
    BY <2>3 DEF Pop
  <2> QED BY <2>1, <2>2, <2>3, <2>4, <2>5, <1>2
<1> QED BY <1>3, <1>4
-----------------------------------------------------------------------------
(* A compare-exchange of lock() keeps the types, whether it takes the      *)
(* mutex or queues the caller.                                             *)
LEMMA TryLockBasic ==
  ASSUME Basic, NEW r \in Routines, NEW m \in Mutexes, NEW e \in 0 .. 2,
         occupyRoutine = r, TryLock(r, m, e)
  PROVE  /\ SchedTypeOK'
         /\ SwitchInv'
         /\ lockCount' \in [Mutexes -> 0 .. 2]
         /\ list' \in [Lists -> Seq(Routines)]
         /\ pc' \in [Routines -> PCs]
         /\ mtx' \in [Routines -> Mutexes \cup {NoMutex}]
         /\ expected' \in [Routines -> 0 .. 2]
         /\ IsTimeout' \in [Routines -> BOOLEAN]
         /\ held' \in [Routines -> SUBSET Mutexes]
         /\ takenStale' \subseteq Mutexes
<1> USE DEF Basic, TypeOK, SchedTypeOK, SwitchInv, Coroutines, PCs
<1>1. CASE lockCount[m] = e
  <2>1. /\ lockCount' = [lockCount EXCEPT ![m] = 1]
        /\ held' = [held EXCEPT ![r] = @ \cup {m}]
        /\ pc' = [pc EXCEPT ![r] = "user"]
        /\ mtx' = [mtx EXCEPT ![r] = NoMutex]
        /\ expected' = [expected EXCEPT ![r] = 0]
        /\ IsTimeout' = [IsTimeout EXCEPT ![r] = FALSE]
        /\ takenStale' \in {takenStale, takenStale \cup {m}}
        /\ UNCHANGED <<occupyRoutine, pendingRoutine, ActivetaskItems, list>>
    BY <1>1 DEF TryLock, Returns, schedVars
  <2>2. \A x \in Routines : x # r => pc'[x] = pc[x] /\ mtx'[x] = mtx[x]
    BY <2>1
  <2>3. pc'[r] = "user"
    BY <2>1
  <2>4. SwitchInv'
    BY <2>1, <2>2, <2>3
  <2> QED BY <2>1, <2>4
<1>2. CASE lockCount[m] # e
  <2>1. /\ list' = Add(list, m, r)
        /\ pc' = [pc EXCEPT ![r] = "lock"]
        /\ mtx' = [mtx EXCEPT ![r] = m]
        /\ expected' = [expected EXCEPT ![r] = lockCount[m]]
        /\ IsTimeout' = [IsTimeout EXCEPT ![r] = FALSE]
        /\ occupyRoutine' = pendingRoutine /\ pendingRoutine' = occupyRoutine
        /\ UNCHANGED <<ActivetaskItems, lockCount, held, takenStale>>
    BY <1>2 DEF TryLock, SwapContext
  <2>2. list' \in [Lists -> Seq(Routines)]
    BY <2>1, AddToList
  <2>3. /\ \A x \in Routines : x # r => pc'[x] = pc[x] /\ mtx'[x] = mtx[x]
        /\ mtx'[r] = m
    BY <2>1
  <2>4. SwitchInv'
    BY <2>1, <2>3
  <2> QED BY <2>1, <2>2, <2>4
<1> QED BY <1>1, <1>2

(* So does every step that is such an attempt.                             *)
LEMMA LockingBasic ==
  ASSUME Basic, NEW r \in Routines, NEW m \in Mutexes, NEW e \in 0 .. 2,
         occupyRoutine = r, TryLock(r, m, e), armed' \in SUBSET Routines,
         UNCHANGED <<usable, fault>>
  PROVE  Basic'
<1>1. usable' \in [Lists -> BOOLEAN] /\ fault' \in {"none", "abort", "segv"}
  BY DEF Basic, TypeOK
<1> QED BY <1>1, TryLockBasic DEF Basic, TypeOK

(* wait and timeWait, which unlock, queue the caller and switch. *)
LEMMA EnqueueBasic ==
  ASSUME Basic, NEW r \in Routines, NEW c \in Conds, NEW m \in Mutexes,
         NEW place \in {"wait", "timeWait"}, NEW timers \in SUBSET Routines,
         Enqueue(r, c, m, place, timers)
  PROVE  Basic'
<1> USE DEF Basic, TypeOK, SchedTypeOK, SwitchInv, Coroutines, PCs
<1>1. CASE UnlockAborts(m)
  BY <1>1 DEF UnlockAborts, schedVars, frameVars
<1>2. CASE ~UnlockAborts(m)
  <2>1. /\ WakeFirst(ActivetaskItems, list, m) \in Seq(Routines)
        /\ Pop(list, m) \in [Lists -> Seq(Routines)]
    BY WakeAndPop
  <2>2. /\ AddTask(WakeFirst(ActivetaskItems, list, m), r) \in Seq(Routines)
        /\ Add(Pop(list, m), c, r) \in [Lists -> Seq(Routines)]
    BY <2>1, AppendIn, AddToList DEF AddTask
  <2>3. /\ lockCount' = [lockCount EXCEPT ![m] = 0]
        /\ held' = [held EXCEPT ![r] = @ \ {m}]
        /\ mtx' = [mtx EXCEPT ![r] = m]
        /\ occupyRoutine' = pendingRoutine /\ pendingRoutine' = occupyRoutine
        /\ occupyRoutine = r
        /\ UNCHANGED <<usable, expected, IsTimeout, fault, takenStale>>
    BY <1>2 DEF Enqueue, SwapContext, Runs
  <2>4. \/ /\ ActivetaskItems' = WakeFirst(ActivetaskItems, list, m)
           /\ list' = Add(Pop(list, m), c, r)
           /\ pc' = [pc EXCEPT ![r] = place]
           /\ armed' = timers
        \/ /\ ActivetaskItems' = AddTask(WakeFirst(ActivetaskItems, list, m), r)
           /\ list' = Pop(list, m)
           /\ pc' = [pc EXCEPT ![r] = "spin"]
           /\ armed' = armed
    BY <1>2 DEF Enqueue
  <2>5. ActivetaskItems' \in Seq(Routines) /\ list' \in [Lists -> Seq(Routines)]
    BY <2>1, <2>2, <2>4
  <2>6. /\ pc' \in [Routines -> PCs]
        /\ armed' \in SUBSET Routines
        /\ \A x \in Routines : x # r => pc'[x] = pc[x]
    BY <2>4
  <2>7. /\ lockCount' \in [Mutexes -> 0 .. 2]
        /\ held' \in [Routines -> SUBSET Mutexes]
        /\ mtx' \in [Routines -> Mutexes \cup {NoMutex}]
        /\ mtx'[r] = m
        /\ \A x \in Routines : x # r => mtx'[x] = mtx[x]
    BY <2>3
  <2>8. occupyRoutine' = Loop /\ pendingRoutine' \in Coroutines
    BY <2>3
  <2>9. SwitchInv'
    BY <2>6, <2>7, <2>8
  <2> QED BY <2>3, <2>5, <2>6, <2>7, <2>8, <2>9
<1> QED BY <1>1, <1>2

(* signalAll and signalOnce, with the spinning of a list never initialised. *)
LEMMA SignalBasic ==
  ASSUME Basic, NEW r \in Routines, NEW c \in Conds, SignalAll(r, c) \/ SignalOnce(r, c)
  PROVE  Basic'
<1> USE DEF Basic, TypeOK, SchedTypeOK, SwitchInv, Coroutines, PCs
<1>1. /\ ActivetaskItems \o list[c] \in Seq(Routines)
      /\ AddTask(ActivetaskItems, r) \in Seq(Routines)
      /\ WakeFirst(ActivetaskItems, list, c) \in Seq(Routines)
      /\ Pop(list, c) \in [Lists -> Seq(Routines)]
      /\ [list EXCEPT ![c] = <<>>] \in [Lists -> Seq(Routines)]
  <2>1. list[c] \in Seq(Routines) /\ c \in Lists /\ <<>> \in Seq(Routines)
    OBVIOUS
  <2>2. ActivetaskItems \o list[c] \in Seq(Routines)
    BY <2>1, ConcatIn
  <2>3. AddTask(ActivetaskItems, r) \in Seq(Routines)
    BY AppendIn DEF AddTask
  <2>4. /\ WakeFirst(ActivetaskItems, list, c) \in Seq(Routines)
        /\ Pop(list, c) \in [Lists -> Seq(Routines)]
    BY <2>1, WakeAndPop
  <2>5. [list EXCEPT ![c] = <<>>] \in [Lists -> Seq(Routines)]
    BY <2>1
  <2> QED BY <2>2, <2>3, <2>4, <2>5
<1>2. /\ occupyRoutine = r /\ r # Loop
      /\ UNCHANGED <<lockCount, usable, mtx, expected, IsTimeout, armed, held, takenStale>>
  BY DEF SignalAll, SignalOnce, Runs
<1>3. /\ ActivetaskItems' \in Seq(Routines)
      /\ list' \in [Lists -> Seq(Routines)]
      /\ fault' \in {"none", "abort", "segv"}
  BY <1>1 DEF SignalAll, SignalOnce, YieldSelf, schedVars
<1>4. \/ UNCHANGED <<occupyRoutine, pendingRoutine, pc>>
      \/ /\ occupyRoutine' = pendingRoutine /\ pendingRoutine' = occupyRoutine
         /\ pc' = [pc EXCEPT ![r] = "spin"]
  BY DEF SignalAll, SignalOnce, YieldSelf, SwapContext, schedVars
<1>5. /\ pc' \in [Routines -> PCs]
      /\ \A x \in Routines : pc'[x] \in {"lock", "wait", "timeWait"} => pc'[x] = pc[x]
      /\ occupyRoutine' # Loop => pendingRoutine' = Loop
      /\ occupyRoutine' \in Coroutines /\ pendingRoutine' \in Coroutines
  BY <1>2, <1>4
<1> QED BY <1>2, <1>3, <1>5

(* Whatever the memory of the objects held, the first state is typed.      *)
LEMMA BasicInit == Init => Basic
<1> SUFFICES ASSUME Init PROVE Basic
  OBVIOUS
<1> USE DEF Init, Basic, TypeOK, SchedTypeOK, SwitchInv, Coroutines, PCs
<1>1. list \in [Lists -> Seq(Routines)] /\ ActivetaskItems \in Seq(Routines)
  OBVIOUS
<1>2. lockCount \in [Mutexes -> 0 .. 2] /\ usable \in [Lists -> BOOLEAN]
  OBVIOUS
<1>3. pc \in [Routines -> PCs] /\ \A r \in Routines : pc[r] \in {"user", "unborn"}
  OBVIOUS
<1> QED BY <1>1, <1>2, <1>3

(* Every step of the worker, of a timer and of a coroutine keeps Basic.    *)
LEMMA BasicStep == Basic /\ [Next]_vars => Basic'
<1> SUFFICES ASSUME Basic, [Next]_vars PROVE Basic'
  OBVIOUS
<1> USE DEF Basic, TypeOK, SchedTypeOK, SwitchInv, Coroutines, PCs
<1>0. CASE UNCHANGED vars
  BY <1>0 DEF vars, schedVars, frameVars
<1>1. CASE LoopDispatch
  <2>1. /\ ActivetaskItems # <<>>
        /\ occupyRoutine' = Head(ActivetaskItems) /\ pendingRoutine' = Loop
        /\ ActivetaskItems' = Tail(ActivetaskItems)
        /\ UNCHANGED <<lockCount, list, usable, frameVars, armed, held, fault, takenStale>>
    BY <1>1 DEF LoopDispatch, Dispatch
  <2>2. Head(ActivetaskItems) \in Routines /\ Tail(ActivetaskItems) \in Seq(Routines)
    BY <2>1, TailIn
  <2> QED BY <2>1, <2>2 DEF frameVars
<1>2. ASSUME NEW r \in Routines, TimerFires(r) PROVE Basic'
  <2>1. AddTask(ActivetaskItems, r) \in Seq(Routines)
    BY AppendIn DEF AddTask
  <2>2. /\ armed' = armed \ {r}
        /\ IsTimeout' = [IsTimeout EXCEPT ![r] = TRUE]
        /\ ActivetaskItems' \in Seq(Routines)
        /\ UNCHANGED <<occupyRoutine, pendingRoutine, lockCount, list, usable, pc, mtx,
                       expected, held, fault, takenStale>>
    BY <1>2, <2>1 DEF TimerFires
  <2> QED BY <2>2
<1>3. ASSUME NEW r \in Routines, Continue(r) PROVE Basic'
  <2>1. 0 \in 0 .. 2
    OBVIOUS
  <2>2. CASE LockRetry(r)
    <3>1. /\ occupyRoutine = r /\ mtx[r] \in Mutexes /\ TryLock(r, mtx[r], expected[r])
          /\ expected[r] \in 0 .. 2
          /\ armed' \in SUBSET Routines /\ UNCHANGED <<usable, fault>>
      BY <2>2 DEF LockRetry, Runs
    <3> QED BY ONLY Basic, <3>1, r \in Routines, LockingBasic
  <2>3. CASE WaitResumed(r)
    <3>1. /\ occupyRoutine = r /\ mtx[r] \in Mutexes /\ TryLock(r, mtx[r], 0)
          /\ armed' \in SUBSET Routines /\ UNCHANGED <<usable, fault>>
      BY <2>3 DEF WaitResumed, Runs
    <3> QED BY ONLY Basic, <2>1, <3>1, r \in Routines, LockingBasic
  <2>4. CASE TimeWaitSignalled(r)
    <3>1. Disarm(armed, r) \in SUBSET Routines
      BY DEF Disarm
    <3>2. /\ occupyRoutine = r /\ mtx[r] \in Mutexes /\ TryLock(r, mtx[r], 0)
          /\ armed' \in SUBSET Routines /\ UNCHANGED <<usable, fault>>
      BY <2>4, <3>1 DEF TimeWaitSignalled, Runs
    <3> QED BY ONLY Basic, <2>1, <3>2, r \in Routines, LockingBasic
  <2>5. CASE TimeWaitTimedOut(r)
    <3>1. /\ pc' = [pc EXCEPT ![r] = "user"]
          /\ mtx' = [mtx EXCEPT ![r] = NoMutex]
          /\ expected' = [expected EXCEPT ![r] = 0]
          /\ IsTimeout' = [IsTimeout EXCEPT ![r] = FALSE]
          /\ UNCHANGED <<occupyRoutine, pendingRoutine, ActivetaskItems, lockCount, list,
                         usable, armed, held, fault, takenStale>>
      BY <2>5 DEF TimeWaitTimedOut, Returns, schedVars
    <3>2. pc'[r] = "user" /\ \A x \in Routines : x # r => pc'[x] = pc[x] /\ mtx'[x] = mtx[x]
      BY <3>1
    <3>3. SwitchInv'
      BY <3>1, <3>2
    <3> QED BY <3>1, <3>3
  <2>6. CASE Spin(r)
    <3>1. AddTask(ActivetaskItems, r) \in Seq(Routines)
      BY AppendIn DEF AddTask
    <3> QED BY <2>6, <3>1 DEF Spin, Runs, YieldSelf, SwapContext, frameVars
  <2>7. CASE ResumedDead(r)
    BY <2>7 DEF ResumedDead, schedVars, frameVars
  <2> QED BY <1>3, <2>2, <2>3, <2>4, <2>5, <2>6, <2>7 DEF Continue
<1>4. ASSUME NEW r \in Routines, Call(r) PROVE Basic'
  <2>1. ASSUME NEW m \in Mutexes, Lock(r, m) PROVE Basic'
    <3>1. /\ occupyRoutine = r /\ TryLock(r, m, 0)
          /\ armed' = armed /\ UNCHANGED <<usable, fault>>
      BY <2>1 DEF Lock, Runs
    <3>2. 0 \in 0 .. 2
      OBVIOUS
    <3> QED BY ONLY Basic, <3>1, <3>2, r \in Routines, m \in Mutexes, LockingBasic
  <2>2. ASSUME NEW m \in Mutexes, Unlock(r, m) PROVE Basic'
    <3>1. CASE UnlockAborts(m)
      BY <3>1 DEF UnlockAborts, schedVars, frameVars
    <3>2. CASE ~UnlockAborts(m)
      <4>1. /\ WakeFirst(ActivetaskItems, list, m) \in Seq(Routines)
            /\ Pop(list, m) \in [Lists -> Seq(Routines)]
        BY WakeAndPop
      <4>2. /\ lockCount' = [lockCount EXCEPT ![m] = 0]
            /\ held' = [held EXCEPT ![r] = @ \ {m}]
            /\ ActivetaskItems' = WakeFirst(ActivetaskItems, list, m)
            /\ list' = Pop(list, m)
            /\ UNCHANGED <<occupyRoutine, pendingRoutine, usable, pc, mtx, expected,
                           IsTimeout, armed, fault, takenStale>>
        BY <2>2, <3>2 DEF Unlock, frameVars
      <4> QED BY <4>1, <4>2
    <3> QED BY <3>1, <3>2
  <2>3. ASSUME NEW c \in Conds, NEW m \in Mutexes, Wait(r, c, m) PROVE Basic'
    BY <2>3, EnqueueBasic DEF Wait
  <2>4. ASSUME NEW c \in TimedConds, NEW m \in Mutexes, TimeWait(r, c, m) PROVE Basic'
    <3>1. c \in Conds /\ armed \cup {r} \in SUBSET Routines
      OBVIOUS
    <3> QED BY <2>4, <3>1, EnqueueBasic DEF TimeWait
  <2>5. ASSUME NEW c \in Conds, SignalAll(r, c) \/ SignalOnce(r, c) PROVE Basic'
    BY <2>5, SignalBasic
  <2>6. ASSUME NEW n \in Routines, Start(r, n) PROVE Basic'
    <3>1. AddTask(AddTask(ActivetaskItems, n), r) \in Seq(Routines)
      BY AppendIn DEF AddTask
    <3>2. /\ pc' = [pc EXCEPT ![n] = "user"]
          /\ occupyRoutine = r
          /\ occupyRoutine' = pendingRoutine /\ pendingRoutine' = occupyRoutine
          /\ ActivetaskItems' \in Seq(Routines)
          /\ UNCHANGED <<lockCount, list, usable, mtx, expected, IsTimeout, armed, held, fault, takenStale>>
      BY <2>6, <3>1 DEF Start, Runs, ResumeTarget, SwapContext
    <3>3. SwitchInv'
      BY <3>2
    <3> QED BY <3>2, <3>3
  <2>7. CASE Yield(r)
    <3>1. AddTask(ActivetaskItems, r) \in Seq(Routines)
      BY AppendIn DEF AddTask
    <3> QED BY <2>7, <3>1 DEF Yield, Runs, YieldSelf, SwapContext, frameVars
  <2>8. CASE Finish(r)
    <3>1. /\ \E after \in {"unborn", "done"} : pc' = [pc EXCEPT ![r] = after]
          /\ occupyRoutine = r
          /\ occupyRoutine' = pendingRoutine /\ pendingRoutine' = occupyRoutine
          /\ UNCHANGED <<ActivetaskItems, lockCount, list, usable, mtx, expected, IsTimeout,
                         armed, held, fault, takenStale>>
      BY <2>8 DEF Finish, Runs, SwapContext
    <3>2. SwitchInv'
      BY <3>1
    <3> QED BY <3>1, <3>2
  <2> QED BY <1>4, <2>1, <2>2, <2>3, <2>4, <2>5, <2>6, <2>7, <2>8 DEF Call
<1> QED BY <1>0, <1>1, <1>2, <1>3, <1>4 DEF Next

(* lockCount, the lists, the frames and the worker's pointers keep their   *)
(* types; in particular a worker's loop is never put in the ready queue,   *)
(* which AddTask would refuse with a throw (b_routine_env.cc:19).          *)
THEOREM TypeCorrect == Spec => []TypeOK
<1>1. Basic => TypeOK
  BY DEF Basic
<1> QED BY BasicInit, BasicStep, <1>1, PTL DEF Spec
-----------------------------------------------------------------------------
(* Coroutine x goes on, is ready, or stands where its call is woken.       *)
Placed(x) ==
  \/ occupyRoutine = x
  \/ In(ActivetaskItems, x)
  \/ \E l \in AwaitsIn(x) : In(list[l], x)

(* A coroutine keeps its place while others move it on to the ready queue  *)
(* only, and leave its frame and its timer alone.                          *)
LEMMA OthersPlaced ==
  ASSUME Basic, NEW x \in Routines, Placed(x),
         pc'[x] = pc[x], mtx'[x] = mtx[x], x \in armed => x \in armed',
         occupyRoutine = x => occupyRoutine' = x \/ In(ActivetaskItems', x),
         In(ActivetaskItems, x) => In(ActivetaskItems', x) \/ occupyRoutine' = x,
         \A k \in Lists : In(list[k], x) => In(list'[k], x) \/ In(ActivetaskItems', x)
  PROVE  Placed(x)'
<1>1. AwaitsIn(x) \subseteq Lists /\ AwaitsIn(x) \subseteq AwaitsIn(x)'
  BY DEF AwaitsIn, Basic, SwitchInv
<1> QED BY <1>1 DEF Placed

(* The attempt to lock keeps everyone placed: it disturbs only the caller, *)
(* which goes on or joins the mutex's list.                                *)
LEMMA TryLockPlaced ==
  ASSUME Basic, NEW r \in Routines, NEW m \in Mutexes, NEW e,
         occupyRoutine = r, TryLock(r, m, e), armed \ {r} \subseteq armed',
         NEW x \in Routines, Placed(x)
  PROVE  Placed(x)'
<1>1. CASE lockCount[m] = e
  <2>1. /\ UNCHANGED <<occupyRoutine, ActivetaskItems, list>>
        /\ pc' = [pc EXCEPT ![r] = "user"] /\ mtx' = [mtx EXCEPT ![r] = NoMutex]
    BY <1>1 DEF TryLock, Returns, schedVars
  <2>2. CASE x = r
    BY <2>1, <2>2 DEF Placed
  <2>3. CASE x # r
    BY <2>1, <2>3, OthersPlaced DEF Basic, TypeOK
  <2> QED BY <2>2, <2>3
<1>2. CASE lockCount[m] # e
  <2>1. /\ list' = Add(list, m, r) /\ ActivetaskItems' = ActivetaskItems
        /\ pc' = [pc EXCEPT ![r] = "lock"] /\ mtx' = [mtx EXCEPT ![r] = m]
    BY <1>2 DEF TryLock
  <2>2. \A k \in Lists : \A y : In(Add(list, m, r)[k], y) <=> In(list[k], y) \/ (k = m /\ y = r)
    BY AddToList DEF Basic, TypeOK
  <2>3. In(list'[m], r) /\ pc'[r] = "lock" /\ mtx'[r] = m
    BY <2>1, <2>2 DEF Basic, TypeOK
  <2>4. CASE x = r
    BY <2>3, <2>4 DEF Placed, AwaitsIn
  <2>5. CASE x # r
    <3>1. /\ pc'[x] = pc[x] /\ mtx'[x] = mtx[x]
          /\ \A k \in Lists : In(list[k], x) => In(list'[k], x)
      BY <2>1, <2>2, <2>5 DEF Basic, TypeOK
    <3> QED BY <2>1, <2>5, <3>1, OthersPlaced
  <2> QED BY <2>4, <2>5
<1> QED BY <1>1, <1>2

(* Unlocking and then joining a list or the ready queue loses nobody.      *)
LEMMA EnqueuePlaced ==
  ASSUME Basic, NEW r \in Routines, NEW c \in Conds, NEW m \in Mutexes,
         NEW place \in {"wait", "timeWait"}, NEW timers,
         armed \subseteq timers, place = "timeWait" => r \in timers,
         Enqueue(r, c, m, place, timers), NEW x \in Routines, Placed(x)
  PROVE  Placed(x)'
<1>1. CASE UnlockAborts(m)
  BY <1>1, OthersPlaced DEF UnlockAborts, schedVars, frameVars
<1>2. CASE ~UnlockAborts(m)
  <2> DEFINE q == WakeFirst(ActivetaskItems, list, m)
             l == Pop(list, m)
  <2>1. /\ ActivetaskItems \in Seq(Routines)
        /\ list \in [Lists -> Seq(Routines)]
        /\ m \in Lists /\ c \in Lists
    BY DEF Basic, TypeOK, SchedTypeOK
  <2>2. /\ q \in Seq(Routines) /\ l \in [Lists -> Seq(Routines)]
        /\ \A y : In(ActivetaskItems, y) => In(q, y)
        /\ \A k \in Lists : \A y : In(list[k], y) => In(l[k], y) \/ In(q, y)
    BY <2>1, WakeAndPop
  <2> HIDE DEF q, l
  <2>3. /\ occupyRoutine = r
        /\ \A y \in Routines : y # r => pc'[y] = pc[y] /\ mtx'[y] = mtx[y]
    BY <1>2 DEF Enqueue, Runs, Basic, TypeOK
  <2>4. CASE ActivetaskItems' = q /\ list' = Add(l, c, r) /\ armed' = timers /\ pc'[r] = place
    <3>0. \A k \in Lists : \A y : In(Add(l, c, r)[k], y) <=> In(l[k], y) \/ (k = c /\ y = r)
      <4>1. l \in [Lists -> Seq(Routines)] /\ c \in Lists
        BY <2>1, <2>2
      <4> QED BY ONLY <4>1, r \in Routines, AddToList
    <3>1. \A k \in Lists : \A y : In(list'[k], y) <=> In(l[k], y) \/ (k = c /\ y = r)
      BY <2>4, <3>0
    <3>2. In(list'[c], r) /\ c \in AwaitsIn(r)'
      BY <2>1, <2>4, <3>1 DEF AwaitsIn
    <3>3. x = r => Placed(x)'
      BY <3>2 DEF Placed
    <3>4. x # r => Placed(x)'
      BY <2>2, <2>3, <2>4, <3>1, OthersPlaced
    <3> QED BY <3>3, <3>4
  <2>5. CASE ActivetaskItems' = AddTask(q, r) /\ list' = l /\ armed' = armed
    <3>1. \A y : In(ActivetaskItems', y) <=> In(q, y) \/ y = r
      BY <2>2, <2>5, AppendIn DEF AddTask
    <3>2. x = r => Placed(x)'
      BY <3>1 DEF Placed
    <3>3. x # r => Placed(x)'
      BY <2>2, <2>3, <2>5, <3>1, OthersPlaced
    <3> QED BY <3>2, <3>3
  <2>6. \/ ActivetaskItems' = q /\ list' = Add(l, c, r) /\ armed' = timers /\ pc'[r] = place
        \/ ActivetaskItems' = AddTask(q, r) /\ list' = l /\ armed' = armed
    BY <1>2 DEF Enqueue, q, l, Basic, TypeOK
  <2> QED BY <2>4, <2>5, <2>6
<1> QED BY <1>1, <1>2

(* No step of anybody displaces a coroutine, but for the one that finishes. *)
LEMMA StaysPlaced ==
  ASSUME Basic, [Next]_vars, NEW x \in Routines, Placed(x)
  PROVE  Placed(x)' \/ pc'[x] \in {"unborn", "done"}
<1>t. /\ ActivetaskItems \in Seq(Routines)
      /\ list \in [Lists -> Seq(Routines)]
      /\ \A r \in Routines : pc[r] \in {"lock", "wait", "timeWait"} => mtx[r] \in Mutexes
      /\ pc \in [Routines -> PCs] /\ mtx \in [Routines -> Mutexes \cup {NoMutex}]
  BY DEF Basic, TypeOK, SchedTypeOK, SwitchInv
<1>a. ASSUME NEW r \in Routines
      PROVE  \A y : In(AddTask(ActivetaskItems, r), y) <=> In(ActivetaskItems, y) \/ y = r
  BY <1>t, AppendIn DEF AddTask
<1>y. ASSUME NEW r \in Routines, YieldSelf(r), UNCHANGED <<list, armed, mtx>>,
             \A y \in Routines : y # r => pc'[y] = pc[y]
      PROVE  Placed(x)'
  <2>1. x # r => Placed(x)'
    BY <1>y, <1>a, OthersPlaced DEF YieldSelf
  <2>2. x = r => Placed(x)'
    BY <1>y, <1>a DEF YieldSelf, Placed
  <2> QED BY <2>1, <2>2
<1>u. ASSUME UNCHANGED <<schedVars, list, armed, pc, mtx>>
      PROVE  Placed(x)'
  BY <1>u, OthersPlaced DEF schedVars
<1>w. ASSUME NEW o \in Lists, UNCHANGED <<occupyRoutine, armed, pc, mtx>>,
             ActivetaskItems' = WakeFirst(ActivetaskItems, list, o), list' = Pop(list, o)
      PROVE  Placed(x)'
  <2>1. /\ \A y : In(ActivetaskItems, y) => In(ActivetaskItems', y)
        /\ \A k \in Lists : \A y : In(list[k], y) => In(list'[k], y) \/ In(ActivetaskItems', y)
    <3>1. /\ \A y : In(ActivetaskItems, y) => In(WakeFirst(ActivetaskItems, list, o), y)
          /\ \A k \in Lists : \A y : In(list[k], y) => \/ In(Pop(list, o)[k], y)
                                                      \/ In(WakeFirst(ActivetaskItems, list, o), y)
      BY <1>t, WakeAndPop
    <3> QED BY <1>w, <3>1
  <2> QED BY <2>1, <1>w, OthersPlaced
<1>0. CASE UNCHANGED vars
  BY <1>0, <1>u DEF vars, frameVars
<1>1. CASE LoopDispatch
  <2>1. \A y : In(ActivetaskItems, y) <=> In(Tail(ActivetaskItems), y) \/ y = Head(ActivetaskItems)
    BY <1>1, <1>t, TailIn DEF LoopDispatch, Dispatch
  <2>2. x # Loop
    OBVIOUS
  <2> QED BY <1>1, <2>1, <2>2, OthersPlaced DEF LoopDispatch, Dispatch, frameVars
<1>2. ASSUME NEW r \in Routines, TimerFires(r) PROVE Placed(x)'
  <2>1. x = r => Placed(x)'
    BY <1>2, <1>a DEF TimerFires, Placed
  <2>2. x # r => Placed(x)'
    BY <1>2, <1>a, OthersPlaced DEF TimerFires
  <2> QED BY <2>1, <2>2
<1>3. ASSUME NEW r \in Routines, Continue(r) PROVE Placed(x)'
  <2>1. CASE LockRetry(r)
    <3>1. occupyRoutine = r /\ mtx[r] \in Mutexes /\ TryLock(r, mtx[r], expected[r]) /\ armed' = armed
      BY <2>1, <1>t DEF LockRetry, Runs
    <3> QED BY <3>1, TryLockPlaced
  <2>2. CASE WaitResumed(r)
    <3>1. occupyRoutine = r /\ mtx[r] \in Mutexes /\ TryLock(r, mtx[r], 0) /\ armed' = armed
      BY <2>2, <1>t DEF WaitResumed, Runs
    <3> QED BY <3>1, TryLockPlaced
  <2>3. CASE TimeWaitSignalled(r)
    <3>1. /\ occupyRoutine = r /\ mtx[r] \in Mutexes /\ TryLock(r, mtx[r], 0)
          /\ armed' = armed \ {r}
      BY <2>3, <1>t DEF TimeWaitSignalled, Runs, Disarm
    <3> QED BY <3>1, TryLockPlaced
  <2>4. CASE TimeWaitTimedOut(r)
    <3>1. x = r => Placed(x)'
      BY <2>4 DEF TimeWaitTimedOut, Runs, schedVars, Placed
    <3>2. x # r => Placed(x)'
      BY <2>4, <1>t, OthersPlaced DEF TimeWaitTimedOut, Returns, schedVars
    <3> QED BY <3>1, <3>2
  <2>5. CASE Spin(r)
    BY <2>5, <1>y DEF Spin, frameVars
  <2>6. CASE ResumedDead(r)
    BY <2>6, <1>u DEF ResumedDead, frameVars
  <2> QED BY <1>3, <2>1, <2>2, <2>3, <2>4, <2>5, <2>6 DEF Continue
<1>4. ASSUME NEW r \in Routines, Call(r)
      PROVE  Placed(x)' \/ pc'[x] \in {"unborn", "done"}
  <2>1. ASSUME NEW m \in Mutexes, Lock(r, m) PROVE Placed(x)'
    <3>1. occupyRoutine = r /\ TryLock(r, m, 0) /\ armed' = armed
      BY <2>1 DEF Lock, Runs
    <3> QED BY <3>1, TryLockPlaced
  <2>2. ASSUME NEW m \in Mutexes, Unlock(r, m) PROVE Placed(x)'
    BY <2>2, <1>u, <1>w DEF Unlock, UnlockAborts, frameVars
  <2>3. ASSUME NEW c \in Conds, NEW m \in Mutexes, Wait(r, c, m) PROVE Placed(x)'
    BY <2>3, EnqueuePlaced DEF Wait
  <2>4. ASSUME NEW c \in TimedConds, NEW m \in Mutexes, TimeWait(r, c, m) PROVE Placed(x)'
    BY <2>4, EnqueuePlaced DEF TimeWait
  <2>5. ASSUME NEW c \in Conds, SignalAll(r, c) PROVE Placed(x)'
    <3>1. CASE ActivetaskItems' = ActivetaskItems \o list[c] /\ list' = [list EXCEPT ![c] = <<>>]
      <4>1. \A y : In(ActivetaskItems', y) <=> In(ActivetaskItems, y) \/ In(list[c], y)
        BY <1>t, <3>1, ConcatIn
      <4>2. \A k \in Lists : k # c => list'[k] = list[k]
        BY <3>1
      <4>3. occupyRoutine' = occupyRoutine \/ In(ActivetaskItems', r)
        <5>1. In(AddTask(ActivetaskItems, r), r)
          BY <1>a
        <5>2. occupyRoutine' = occupyRoutine \/ ActivetaskItems' = AddTask(ActivetaskItems, r)
          BY <2>5 DEF SignalAll, YieldSelf
        <5> QED BY <5>1, <5>2
      <4>4. /\ armed' = armed /\ occupyRoutine = r /\ mtx' = mtx
            /\ \A y \in Routines : y # r => pc'[y] = pc[y]
        BY <2>5, <1>t DEF SignalAll, Runs
      <4>5. x = r => Placed(x)'
        BY <4>3, <4>4 DEF Placed
      <4>6. x # r => Placed(x)'
        BY <4>1, <4>2, <4>4, OthersPlaced
      <4> QED BY <4>5, <4>6
    <3>2. CASE YieldSelf(r) /\ list' = list
      BY <2>5, <3>2, <1>t, <1>y DEF SignalAll
    <3> QED BY <2>5, <3>1, <3>2 DEF SignalAll
  <2>6. ASSUME NEW c \in Conds, SignalOnce(r, c) PROVE Placed(x)'
    <3>0. UNCHANGED <<armed, mtx>>
      BY <2>6 DEF SignalOnce
    <3>1. CASE YieldSelf(r) /\ list' = list /\ pc' = [pc EXCEPT ![r] = "spin"]
      BY <3>0, <3>1, <1>t, <1>y
    <3>2. CASE /\ UNCHANGED <<occupyRoutine, pc>>
               /\ ActivetaskItems' = WakeFirst(ActivetaskItems, list, c)
               /\ list' = Pop(list, c)
      BY <3>0, <3>2, <1>w
    <3>3. CASE UNCHANGED <<schedVars, list, pc>>
      BY <3>0, <3>3, <1>u
    <3> QED BY <2>6, <3>1, <3>2, <3>3 DEF SignalOnce
  <2>7. ASSUME NEW n \in Routines, Start(r, n) PROVE Placed(x)'
    <3>1. /\ AddTask(ActivetaskItems, n) \in Seq(Routines)
          /\ \A y : In(AddTask(ActivetaskItems, n), y) <=> In(ActivetaskItems, y) \/ y = n
      BY <1>t, AppendIn DEF AddTask
    <3>2. \A y : In(AddTask(AddTask(ActivetaskItems, n), r), y)
                   <=> In(AddTask(ActivetaskItems, n), y) \/ y = r
      <4> DEFINE p == AddTask(ActivetaskItems, n)
      <4>1. p \in Seq(Routines)
        BY <3>1
      <4> HIDE DEF p
      <4>2. \A y : In(AddTask(p, r), y) <=> In(p, y) \/ y = r
        BY <4>1, AppendIn DEF AddTask
      <4> QED BY <4>2 DEF p
    <3>3. x = n \/ x = r => Placed(x)'
      BY <2>7, <3>1, <3>2 DEF Start, ResumeTarget, Placed
    <3>4. x # n /\ x # r => Placed(x)'
      BY <2>7, <1>t, <3>1, <3>2, OthersPlaced DEF Start, ResumeTarget
    <3> QED BY <3>3, <3>4
  <2>8. CASE Yield(r)
    BY <2>8, <1>y DEF Yield, frameVars
  <2>9. CASE Finish(r)
    <3>1. pc'[r] \in {"unborn", "done"}
      BY <2>9, <1>t DEF Finish
    <3>2. /\ occupyRoutine = r /\ UNCHANGED <<ActivetaskItems, list, armed, mtx>>
          /\ \A y \in Routines : y # r => pc'[y] = pc[y]
      BY <2>9, <1>t DEF Finish, Runs
    <3>3. x # r => Placed(x)'
      BY <3>2, OthersPlaced
    <3> QED BY <3>1, <3>3
  <2> QED BY <1>4, <2>1, <2>2, <2>3, <2>4, <2>5, <2>6, <2>7, <2>8, <2>9 DEF Call
<1> QED BY <1>0, <1>1, <1>2, <1>3, <1>4 DEF Next

(* Only Start brings a coroutine to life that does not live.               *)
LEMMA Birth ==
  ASSUME Basic, [Next]_vars, NEW x \in Routines, ~Live(x), Live(x)'
  PROVE  \E r \in Routines : Start(r, x)
<1> USE DEF Live
<1>t. pc \in [Routines -> PCs]
  BY DEF Basic, TypeOK
<1>u. pc' # pc
  OBVIOUS
<1>c. ASSUME NEW r \in Routines, Live(r), \A y \in Routines : y # r => pc'[y] = pc[y]
      PROVE  FALSE
  BY <1>c
<1>l. ASSUME NEW r \in Routines, Live(r), NEW m, NEW e, TryLock(r, m, e)
      PROVE  FALSE
  BY <1>l, <1>c, <1>t DEF TryLock, Returns
<1>1. Next /\ ~LoopDispatch
  BY <1>u DEF vars, frameVars, LoopDispatch
<1>2. PICK r \in Routines : Continue(r) \/ Call(r)
  BY <1>1, <1>u DEF Next, TimerFires
<1>3. CASE Continue(r)
  <2>1. CASE LockRetry(r)
    BY <2>1, <1>l DEF LockRetry, Runs
  <2>2. CASE WaitResumed(r)
    BY <2>2, <1>l DEF WaitResumed, Runs
  <2>3. CASE TimeWaitSignalled(r)
    BY <2>3, <1>l DEF TimeWaitSignalled, Runs
  <2>4. CASE TimeWaitTimedOut(r)
    BY <2>4, <1>c, <1>t DEF TimeWaitTimedOut, Runs, Returns
  <2>5. CASE Spin(r) \/ ResumedDead(r)
    BY <2>5, <1>u DEF Spin, ResumedDead, frameVars
  <2> QED BY <1>3, <2>1, <2>2, <2>3, <2>4, <2>5 DEF Continue
<1>4. CASE Call(r)
  <2>1. ASSUME NEW m \in Mutexes, Lock(r, m) PROVE FALSE
    BY <2>1, <1>l DEF Lock, Runs
  <2>2. ASSUME NEW m \in Mutexes, Unlock(r, m) PROVE FALSE
    BY <2>2, <1>u DEF Unlock, UnlockAborts, frameVars
  <2>3. ASSUME NEW c \in Conds, NEW m \in Mutexes, NEW place, NEW timers,
               Enqueue(r, c, m, place, timers)
        PROVE  FALSE
    <3>1. Live(r)
      BY <2>3 DEF Enqueue, Runs
    <3>2. \A y \in Routines : y # r => pc'[y] = pc[y]
      BY <2>3, <1>t DEF Enqueue, UnlockAborts, frameVars
    <3> QED BY <3>1, <3>2, <1>c
  <2>4. ASSUME NEW c \in Conds, SignalAll(r, c) \/ SignalOnce(r, c) PROVE FALSE
    <3>1. Live(r)
      BY <2>4 DEF SignalAll, SignalOnce, Runs
    <3>2. \A y \in Routines : y # r => pc'[y] = pc[y]
      BY <2>4, <1>t DEF SignalAll, SignalOnce
    <3> QED BY <3>1, <3>2, <1>c
  <2>5. ASSUME NEW n \in Routines, Start(r, n), n # x PROVE FALSE
    BY <2>5, <1>t DEF Start
  <2>6. CASE Yield(r)
    BY <2>6, <1>u DEF Yield, frameVars
  <2>7. CASE Finish(r)
    BY <2>7, <1>c, <1>t DEF Finish, Runs
  <2>8. TimedConds \subseteq Conds
    OBVIOUS
  <2> QED BY <1>4, <2>1, <2>2, <2>3, <2>4, <2>5, <2>6, <2>7, <2>8 DEF Call, Wait, TimeWait
<1> QED BY <1>2, <1>3, <1>4

(* At first only main() lives, and it runs.                                *)
LEMMA AllPlacedInit == Init => SuspendedIsReachable
BY DEF Init, SuspendedIsReachable, Live

(* Who lives after a step stayed in place, or Start has just resumed it.   *)
LEMMA AllPlacedStep == Basic /\ SuspendedIsReachable /\ [Next]_vars => SuspendedIsReachable'
<1> SUFFICES ASSUME Basic, SuspendedIsReachable, [Next]_vars, NEW x \in Routines, Live(x)'
             PROVE  Placed(x)'
  BY DEF SuspendedIsReachable, Placed
<1>1. CASE Live(x)
  <2>1. Placed(x) /\ pc'[x] \notin {"unborn", "done"}
    BY <1>1 DEF SuspendedIsReachable, Placed, Live
  <2> QED BY <2>1, StaysPlaced
<1>2. CASE ~Live(x)
  <2>1. PICK r \in Routines : Start(r, x)
    BY <1>2, Birth
  <2>2. /\ ActivetaskItems \in Seq(Routines)
        /\ AddTask(ActivetaskItems, x) \in Seq(Routines)
        /\ In(AddTask(ActivetaskItems, x), x)
    BY AppendIn DEF Basic, TypeOK, SchedTypeOK, AddTask
  <2>3. In(AddTask(AddTask(ActivetaskItems, x), r), x)
    <3> DEFINE p == AddTask(ActivetaskItems, x)
    <3>1. p \in Seq(Routines) /\ In(p, x)
      BY <2>2
    <3> HIDE DEF p
    <3>2. In(AddTask(p, r), x)
      BY <3>1, AppendIn DEF AddTask
    <3> QED BY <3>2 DEF p
  <2> QED BY <2>1, <2>3 DEF Placed, Start, ResumeTarget
<1> QED BY <1>1, <1>2

(* A coroutine suspended in a call stands where that call's wake-up looks  *)
(* for it, whatever the application does with lock, unlock, wait, timeWait *)
(* and signal: in lock() on the list of its own mutex, in timeWait() with  *)
(* its timer running.  (Nothing is said of whether the wake-up comes.)     *)
THEOREM BlockedWhereWoken == Spec => []SuspendedIsReachable
BY BasicInit, BasicStep, AllPlacedInit, AllPlacedStep, PTL DEF Spec
-----------------------------------------------------------------------------
(* The count after a compare-exchange of lock(), which finds the mutex     *)
(* free or has taken it stale.                                             *)
LEMMA TryLockCounted ==
  ASSUME Basic, HeldAsCounted, NEW r \in Routines, NEW m \in Mutexes, NEW e,
         TryLock(r, m, e), fault' = fault
  PROVE  HeldAsCounted'
<1> USE DEF HeldAsCounted, Basic, TypeOK
<1>1. CASE lockCount[m] # e
  BY <1>1 DEF TryLock
<1>2. CASE lockCount[m] = e
  <2>1. /\ lockCount' = [lockCount EXCEPT ![m] = 1]
        /\ held' = [held EXCEPT ![r] = @ \cup {m}]
        /\ takenStale' = IF e = 0 THEN takenStale ELSE takenStale \cup {m}
    BY <1>2 DEF TryLock
  <2>2. ASSUME NEW n \in Mutexes \ takenStale', NEW x \in Routines, n \in held'[x]
        PROVE  lockCount'[n] = 1 /\ \A q \in Routines : n \in held'[q] => q = x
    <3>1. CASE n = m
      <4>1. e = 0 /\ lockCount[m] = 0 /\ m \notin takenStale
        BY <1>2, <2>1, <2>2, <3>1
      <4>2. \A q \in Routines : m \notin held[q]
        BY <4>1
      <4> QED BY <2>1, <2>2, <3>1, <4>2
    <3>2. CASE n # m
      <4>1. lockCount'[n] = lockCount[n] /\ n \notin takenStale
        BY <2>1, <2>2, <3>2
      <4>2. \A q \in Routines : n \in held'[q] <=> n \in held[q]
        BY <2>1, <3>2
      <4> QED BY <2>2, <4>1, <4>2
    <3> QED BY <3>1, <3>2
  <2>3. ASSUME NEW n \in StaticMutexes, lockCount'[n] # 0
        PROVE  \E q \in Routines : n \in held'[q]
    <3>1. CASE n = m
      BY <2>1, <3>1
    <3>2. CASE n # m
      BY <2>1, <2>3, <3>2
    <3> QED BY <3>1, <3>2
  <2>4. fault' = "abort" => takenStale' # {}
    BY <2>1
  <2> QED BY <2>2, <2>3, <2>4
<1> QED BY <1>1, <1>2

(* unlock() aborts only where another unlock() came before, that of the    *)
(* holder whose mutex was taken stale.                                     *)
LEMMA UnlockCounted ==
  ASSUME Basic, HeldAsCounted, NEW r \in Routines, NEW m \in held[r],
         \/ UnlockAborts(m)
         \/ /\ lockCount[m] = 1
            /\ lockCount' = [lockCount EXCEPT ![m] = 0]
            /\ held' = [held EXCEPT ![r] = @ \ {m}]
            /\ UNCHANGED <<fault, takenStale>>
  PROVE  HeldAsCounted'
<1> USE DEF HeldAsCounted, Basic, TypeOK
<1>m. m \in Mutexes
  OBVIOUS
<1>1. CASE UnlockAborts(m)
  <2>1. m \in takenStale
    BY <1>1, <1>m DEF UnlockAborts
  <2> QED BY <1>1, <2>1 DEF UnlockAborts
<1>2. CASE /\ lockCount[m] = 1
           /\ lockCount' = [lockCount EXCEPT ![m] = 0]
           /\ held' = [held EXCEPT ![r] = @ \ {m}]
           /\ UNCHANGED <<fault, takenStale>>
  <2>1. ASSUME NEW n \in Mutexes \ takenStale, NEW x \in Routines, n \in held'[x]
        PROVE  lockCount'[n] = 1 /\ \A q \in Routines : n \in held'[q] => q = x
    <3>1. \A q \in Routines : n \in held'[q] => n \in held[q]
      BY <1>2
    <3>2. n # m
      BY <1>2, <1>m, <2>1, <3>1
    <3> QED BY <1>2, <2>1, <3>1, <3>2
  <2>2. ASSUME NEW n \in StaticMutexes, lockCount'[n] # 0
        PROVE  \E q \in Routines : n \in held'[q]
    <3>1. n # m /\ lockCount[n] # 0
      BY <1>2, <1>m, <2>2
    <3> QED BY <1>2, <2>2, <3>1
  <2> QED BY <1>2, <2>1, <2>2
<1> QED BY <1>1, <1>2

(* A static mutex starts free, and nobody holds anything.                  *)
LEMMA CountedInit == Init => HeldAsCounted
BY DEF Init, HeldAsCounted

(* Only lock(), unlock() and the waits touch a count or a holder.          *)
LEMMA CountedStep == Basic /\ HeldAsCounted /\ [Next]_vars => HeldAsCounted'
<1> SUFFICES ASSUME Basic, HeldAsCounted, [Next]_vars PROVE HeldAsCounted'
  OBVIOUS
<1>u. ASSUME UNCHANGED <<lockCount, held, takenStale>>, fault' = "abort" => fault = "abort"
      PROVE  HeldAsCounted'
  BY <1>u DEF HeldAsCounted
<1>t. \A r \in Routines : pc[r] \in {"lock", "wait", "timeWait"} => mtx[r] \in Mutexes
  BY DEF Basic, SwitchInv
<1>0. CASE UNCHANGED vars
  BY <1>0, <1>u DEF vars
<1>1. CASE LoopDispatch
  BY <1>1, <1>u DEF LoopDispatch
<1>2. ASSUME NEW r \in Routines, TimerFires(r) PROVE HeldAsCounted'
  BY <1>2, <1>u DEF TimerFires
<1>3. ASSUME NEW r \in Routines, Continue(r) PROVE HeldAsCounted'
  <2>1. CASE LockRetry(r)
    BY <2>1, <1>t, TryLockCounted DEF LockRetry, Runs
  <2>2. CASE WaitResumed(r)
    BY <2>2, <1>t, TryLockCounted DEF WaitResumed, Runs
  <2>3. CASE TimeWaitSignalled(r)
    BY <2>3, <1>t, TryLockCounted DEF TimeWaitSignalled, Runs
  <2>4. CASE TimeWaitTimedOut(r)
    BY <2>4, <1>u DEF TimeWaitTimedOut
  <2>5. CASE Spin(r)
    BY <2>5, <1>u DEF Spin
  <2>6. CASE ResumedDead(r)
    BY <2>6, <1>u DEF ResumedDead
  <2> QED BY <1>3, <2>1, <2>2, <2>3, <2>4, <2>5, <2>6 DEF Continue
<1>4. ASSUME NEW r \in Routines, Call(r) PROVE HeldAsCounted'
  <2>1. ASSUME NEW m \in Mutexes, Lock(r, m) PROVE HeldAsCounted'
    BY <2>1, TryLockCounted DEF Lock
  <2>2. ASSUME NEW m \in Mutexes, Unlock(r, m) PROVE HeldAsCounted'
    BY <2>2, UnlockCounted DEF Unlock
  <2>3. ASSUME NEW c \in Conds, NEW m \in Mutexes, NEW place, NEW timers,
               Enqueue(r, c, m, place, timers)
        PROVE  HeldAsCounted'
    BY <2>3, UnlockCounted DEF Enqueue
  <2>4. ASSUME NEW c \in Conds, SignalAll(r, c) \/ SignalOnce(r, c) PROVE HeldAsCounted'
    BY <2>4, <1>u DEF SignalAll, SignalOnce
  <2>5. ASSUME NEW n \in Routines, Start(r, n) PROVE HeldAsCounted'
    BY <2>5, <1>u DEF Start
  <2>6. CASE Yield(r)
    BY <2>6, <1>u DEF Yield
  <2>7. CASE Finish(r)
    BY <2>7, <1>u DEF Finish
  <2>8. TimedConds \subseteq Conds
    OBVIOUS
  <2> QED BY <1>4, <2>1, <2>2, <2>3, <2>4, <2>5, <2>6, <2>7, <2>8 DEF Call, Wait, TimeWait
<1> QED BY <1>0, <1>1, <1>2, <1>3, <1>4 DEF Next

(* Mutual exclusion, with its one exception: until a retry of lock() takes *)
(* a mutex with the stale value of its failed attempt, the mutex has one   *)
(* holder and unlock() does not abort; and whoever waits for a static      *)
(* mutex that is locked waits for a coroutine that holds it.               *)
THEOREM ExclusiveUnlessTakenStale == Spec => []HeldAsCounted
BY BasicInit, BasicStep, CountedInit, CountedStep, PTL DEF Spec
-----------------------------------------------------------------------------
(* Inductive with what timeWait relies on when it arms a timer: outside    *)
(* the call, no timeout is pending.                                        *)
ArmedInv ==
  /\ ArmedOnlyWhileWaiting
  /\ \A r \in Routines : pc[r] # "timeWait" => ~IsTimeout[r]

(* No timer exists before the first timeWait.                              *)
LEMMA ArmedInit == Init => ArmedInv
BY DEF Init, ArmedInv, ArmedOnlyWhileWaiting

(* Leaving timeWait takes the task out of the wheel; running it does too.  *)
LEMMA ArmedStep == Basic /\ ArmedInv /\ [Next]_vars => ArmedInv'
<1> SUFFICES ASSUME Basic, ArmedInv, [Next]_vars
             PROVE  ArmedInv'
  OBVIOUS
<1> USE DEF ArmedInv, ArmedOnlyWhileWaiting
<1>t. /\ pc \in [Routines -> PCs] /\ IsTimeout \in [Routines -> BOOLEAN]
      /\ armed \subseteq Routines
  BY DEF Basic, TypeOK
<1>c. ASSUME NEW r \in Routines, armed' \subseteq armed, r \notin armed',
             pc'[r] # "timeWait" => ~IsTimeout'[r],
             \A y \in Routines : y # r => pc'[y] = pc[y] /\ IsTimeout'[y] = IsTimeout[y]
      PROVE  ArmedInv'
  BY <1>c, <1>t
<1>u. ASSUME UNCHANGED <<pc, IsTimeout, armed>> PROVE ArmedInv'
  BY <1>u
<1>l. ASSUME NEW r \in Routines, NEW m, NEW e, TryLock(r, m, e), armed' = armed \ {r}
      PROVE  ArmedInv'
  <2>1. \A y \in Routines : y # r => pc'[y] = pc[y] /\ IsTimeout'[y] = IsTimeout[y]
    BY <1>l, <1>t DEF TryLock, Returns
  <2>2. ~IsTimeout'[r]
    BY <1>l, <1>t DEF TryLock, Returns
  <2> QED BY <2>1, <2>2, <1>l, <1>c
<1>n. ASSUME NEW r \in Routines, Runs(r, "user") \/ Runs(r, "lock") \/ Runs(r, "wait")
      PROVE  r \notin armed /\ armed = armed \ {r} /\ ~IsTimeout[r]
  BY <1>n DEF Runs
<1>0. CASE UNCHANGED vars
  BY <1>0, <1>u DEF vars, frameVars
<1>1. CASE LoopDispatch
  BY <1>1, <1>u DEF LoopDispatch, frameVars
<1>2. ASSUME NEW r \in Routines, TimerFires(r) PROVE ArmedInv'
  BY <1>2, <1>t DEF TimerFires
<1>3. ASSUME NEW r \in Routines, Continue(r) PROVE ArmedInv'
  <2>1. CASE LockRetry(r)
    BY <2>1, <1>l, <1>n DEF LockRetry
  <2>2. CASE WaitResumed(r)
    BY <2>2, <1>l, <1>n DEF WaitResumed
  <2>3. CASE TimeWaitSignalled(r)
    BY <2>3, <1>l DEF TimeWaitSignalled, Disarm
  <2>4. CASE TimeWaitTimedOut(r)
    BY <2>4, <1>c, <1>t DEF TimeWaitTimedOut, Returns
  <2>5. CASE Spin(r) \/ ResumedDead(r)
    BY <2>5, <1>u DEF Spin, ResumedDead, frameVars
  <2> QED BY <1>3, <2>1, <2>2, <2>3, <2>4, <2>5 DEF Continue
<1>4. ASSUME NEW r \in Routines, Call(r) PROVE ArmedInv'
  <2>1. ASSUME NEW m \in Mutexes, Lock(r, m) PROVE ArmedInv'
    BY <2>1, <1>l, <1>n DEF Lock
  <2>2. ASSUME NEW m \in Mutexes, Unlock(r, m) PROVE ArmedInv'
    BY <2>2, <1>u DEF Unlock, UnlockAborts, frameVars
  <2>3. ASSUME NEW c \in Conds, NEW m \in Mutexes, Wait(r, c, m)
        PROVE  ArmedInv'
    <3>1. r \notin armed /\ armed' = armed /\ IsTimeout' = IsTimeout /\ ~IsTimeout[r]
      BY <2>3, <1>n DEF Wait, Enqueue, UnlockAborts, frameVars
    <3>2. \A y \in Routines : y # r => pc'[y] = pc[y]
      BY <2>3, <1>t DEF Wait, Enqueue, UnlockAborts, frameVars
    <3> QED BY <3>1, <3>2, <1>c
  <2>4. ASSUME NEW c \in TimedConds, NEW m \in Mutexes, TimeWait(r, c, m)
        PROVE  ArmedInv'
    <3>1. r \notin armed /\ IsTimeout' = IsTimeout /\ ~IsTimeout[r]
      BY <2>4, <1>n DEF TimeWait, Enqueue, UnlockAborts, frameVars
    <3>2. \A y \in Routines : y # r => pc'[y] = pc[y]
      BY <2>4, <1>t DEF TimeWait, Enqueue, UnlockAborts, frameVars
    <3>3. armed' = armed \/ (armed' = armed \cup {r} /\ pc'[r] = "timeWait")
      BY <2>4, <1>t DEF TimeWait, Enqueue, UnlockAborts
    <3> QED BY <3>1, <3>2, <3>3, <1>t
  <2>5. ASSUME NEW c \in Conds, SignalAll(r, c) \/ SignalOnce(r, c)
        PROVE  ArmedInv'
    <3>1. r \notin armed /\ armed' = armed /\ IsTimeout' = IsTimeout /\ ~IsTimeout[r]
      BY <2>5, <1>n DEF SignalAll, SignalOnce
    <3>2. \A y \in Routines : y # r => pc'[y] = pc[y]
      BY <2>5, <1>t DEF SignalAll, SignalOnce
    <3> QED BY <3>1, <3>2, <1>c
  <2>6. ASSUME NEW n \in Routines, Start(r, n) PROVE ArmedInv'
    BY <2>6, <1>c, <1>t DEF Start
  <2>7. CASE Yield(r)
    BY <2>7, <1>u DEF Yield, frameVars
  <2>8. CASE Finish(r)
    BY <2>8, <1>c, <1>n, <1>t DEF Finish
  <2> QED BY <1>4, <2>1, <2>2, <2>3, <2>4, <2>5, <2>6, <2>7, <2>8 DEF Call
<1> QED BY <1>0, <1>1, <1>2, <1>3, <1>4 DEF Next

(* The invariant is its strengthening's first part.                        *)
LEMMA ArmedImplies == ArmedInv => ArmedOnlyWhileWaiting
BY DEF ArmedInv

(* CondTimeOutCallback never writes into a frame of timeWait that is gone: *)
(* the wheel holds only tasks of coroutines suspended inside the call.     *)
THEOREM TimersPointAtLiveFrames == Spec => []ArmedOnlyWhileWaiting
BY BasicInit, BasicStep, ArmedInit, ArmedStep, ArmedImplies, PTL DEF Spec

-----------------------------------------------------------------------------
(* Without timeWait nothing is armed and nobody waits with a timeout.      *)
Untimed == armed = {} /\ \A r \in Routines : pc[r] # "timeWait"

(* Where the coroutine x may be, of the ready queue, the waiting lists and *)
(* the worker: in one place, and on a list only if blocked on its object.  *)
PlaceOf(x) ==
  /\ In(ActivetaskItems, x) => Live(x) /\ occupyRoutine # x /\ ~Waits(x)
  /\ occupyRoutine = x => Live(x) /\ ~Waits(x)
  /\ \A l, k \in Lists : In(list[l], x) /\ In(list[k], x) => l = k
  /\ \A m \in Mutexes : In(list[m], x) => pc[x] = "lock" /\ mtx[x] = m
  /\ \A c \in Conds : In(list[c], x) => pc[x] = "wait"

NoneTwice == NoDuplicates(ActivetaskItems) /\ \A l \in Lists : NoDuplicates(list[l])

PlaceInv == NoneTwice /\ \A x \in Routines : PlaceOf(x)
UntimedInv == Basic /\ Untimed /\ PlaceInv

(* The properties are what the places say. *)
LEMMA PlaceImplies == PlaceInv => AtMostOnePlace /\ BlockedWhereListed
<1> SUFFICES ASSUME PlaceInv PROVE AtMostOnePlace /\ BlockedWhereListed
  OBVIOUS
<1>1. BlockedWhereListed
  BY DEF PlaceInv, PlaceOf, BlockedWhereListed
<1>2. \A x \in Routines : Waits(x) => Live(x)
  BY DEF PlaceInv, PlaceOf, Waits, Live
<1>3. AtMostOnePlace
  BY <1>2 DEF PlaceInv, PlaceOf, NoneTwice, AtMostOnePlace
<1> QED BY <1>1, <1>3

(* The coroutine that runs, or has not begun, is in no queue.              *)
LEMMA Unqueued ==
  ASSUME PlaceInv, NEW x \in Routines, occupyRoutine = x \/ ~Live(x)
  PROVE  ~In(ActivetaskItems, x) /\ \A l \in Lists : ~In(list[l], x)
BY DEF PlaceInv, PlaceOf, Waits, Live

(* A coroutine that a step leaves where it was is where it may be. *)
LEMMA Unmoved ==
  ASSUME PlaceInv, NEW x \in Routines,
         In(ActivetaskItems, x)' <=> In(ActivetaskItems, x),
         \A l \in Lists : In(list[l], x)' <=> In(list[l], x),
         pc'[x] = pc[x], mtx'[x] = mtx[x], occupyRoutine' = x => occupyRoutine = x
  PROVE  PlaceOf(x)'
<1>1. Waits(x)' <=> Waits(x)
  BY DEF Waits
<1>2. Live(x)' <=> Live(x)
  BY DEF Live
<1> QED BY <1>1, <1>2 DEF PlaceInv, PlaceOf

(* So is one that the step took off the lists or kept off them. *)
LEMMA Unlisted ==
  ASSUME NEW x \in Routines, \A l \in Lists : ~In(list[l], x)',
         In(ActivetaskItems, x)' => pc'[x] \notin {"unborn", "done"} /\ occupyRoutine' # x,
         occupyRoutine' = x => pc'[x] \notin {"unborn", "done"}
  PROVE  PlaceOf(x)'
<1>1. ~Waits(x)'
  BY DEF Waits
<1> QED BY <1>1 DEF PlaceOf, Live

(* And one that it put on the list of the object it blocks on. *)
LEMMA Listed ==
  ASSUME NEW x \in Routines, NEW o \in Lists,
         \A l \in Lists : In(list[l], x)' => l = o,
         ~In(ActivetaskItems, x)', occupyRoutine' # x,
         o \in Mutexes => pc'[x] = "lock" /\ mtx'[x] = o,
         o \in Conds => pc'[x] = "wait"
  PROVE  PlaceOf(x)'
BY DEF PlaceOf

(* The first state has main() running and all queues empty.                *)
LEMMA UntimedInit == Init => Untimed /\ PlaceInv
<1> SUFFICES ASSUME Init PROVE Untimed /\ PlaceInv
  OBVIOUS
<1>1. /\ ActivetaskItems = <<>> /\ \A l \in Lists : list[l] = <<>>
      /\ occupyRoutine = Main /\ pc[Main] = "user" /\ armed = {}
      /\ \A r \in Routines : pc[r] \in {"user", "unborn"}
  BY DEF Init
<1>2. \A x : ~In(<<>>, x)
  BY DEF In
<1>3. NoDuplicates(<<>>)
  BY DEF NoDuplicates
<1> QED BY <1>1, <1>2, <1>3 DEF Untimed, PlaceInv, PlaceOf, NoneTwice, Waits, Live

(* A compare-exchange of lock() that fails puts the running coroutine,     *)
(* which was nowhere else, on the list of the mutex.                       *)
LEMMA TryLockPlace ==
  ASSUME UntimedInv, NEW r \in Routines, NEW m \in Mutexes, NEW e,
         occupyRoutine = r, TryLock(r, m, e)
  PROVE  /\ PlaceInv'
         /\ pc'[r] # "timeWait" /\ \A x \in Routines : x # r => pc'[x] = pc[x]
<1> USE DEF UntimedInv, Basic, TypeOK, SchedTypeOK, SwitchInv
<1>1. ~In(ActivetaskItems, r) /\ \A l \in Lists : ~In(list[l], r)
  BY Unqueued
<1>2. CASE lockCount[m] = e
  <2>1. /\ pc' = [pc EXCEPT ![r] = "user"]
        /\ mtx' = [mtx EXCEPT ![r] = NoMutex]
        /\ UNCHANGED <<occupyRoutine, ActivetaskItems, list>>
    BY <1>2 DEF TryLock, Returns, schedVars
  <2>2. /\ pc'[r] = "user"
        /\ \A x \in Routines : x # r => pc'[x] = pc[x] /\ mtx'[x] = mtx[x]
    BY <2>1
  <2>3. NoneTwice'
    BY <2>1 DEF PlaceInv, NoneTwice
  <2>4. PlaceOf(r)'
    BY <2>1, <2>2, <1>1, Unlisted
  <2>5. ASSUME NEW x \in Routines, x # r PROVE PlaceOf(x)'
    BY <2>1, <2>2, <2>5, Unmoved
  <2> QED BY <2>2, <2>3, <2>4, <2>5 DEF PlaceInv
<1>3. CASE lockCount[m] # e
  <2>1. /\ list' = Add(list, m, r)
        /\ pc' = [pc EXCEPT ![r] = "lock"]
        /\ mtx' = [mtx EXCEPT ![r] = m]
        /\ occupyRoutine' = pendingRoutine
        /\ ActivetaskItems' = ActivetaskItems
    BY <1>3 DEF TryLock, SwapContext
  <2>2. /\ pc'[r] = "lock" /\ mtx'[r] = m
        /\ \A x \in Routines : x # r => pc'[x] = pc[x] /\ mtx'[x] = mtx[x]
    BY <2>1
  <2>3. /\ \A k \in Lists : \A x : In(list'[k], x) <=> In(list[k], x) \/ (k = m /\ x = r)
        /\ \A k \in Lists : NoDuplicates(list[k]) => NoDuplicates(list'[k])
    <3>1. m \in Lists /\ list \in [Lists -> Seq(Routines)] /\ ~In(list[m], r)
      BY <1>1
    <3>2. /\ \A k \in Lists : \A x :
               In(Add(list, m, r)[k], x) <=> In(list[k], x) \/ (k = m /\ x = r)
          /\ \A k \in Lists : NoDuplicates(list[k]) => NoDuplicates(Add(list, m, r)[k])
      BY ONLY <3>1, r \in Routines, AddToList
    <3> QED BY <2>1, <3>2
  <2>4. occupyRoutine' = Loop
    BY <2>1
  <2>5. NoneTwice'
    BY <2>1, <2>3 DEF PlaceInv, NoneTwice
  <2>6. PlaceOf(r)'
    <3>1. /\ m \in Lists /\ m \notin Conds
          /\ \A l \in Lists : In(list'[l], r) => l = m
          /\ ~In(ActivetaskItems', r) /\ occupyRoutine' # r
      BY <2>1, <2>3, <2>4, <1>1
    <3> QED BY <3>1, <2>2, Listed
  <2>7. ASSUME NEW x \in Routines, x # r PROVE PlaceOf(x)'
    <3>1. \A l \in Lists : In(list'[l], x) <=> In(list[l], x)
      BY <2>3, <2>7
    <3> QED BY <3>1, <2>1, <2>2, <2>4, <2>7, Unmoved
  <2> QED BY <2>2, <2>5, <2>6, <2>7 DEF PlaceInv
<1> QED BY <1>2, <1>3


(* unlock and signalOnce: at most one coroutine moves, from the list of o  *)
(* to the ready queue, where it was not yet.                               *)
LEMMA WokenPlace ==
  ASSUME UntimedInv, NEW o \in Lists, NEW q, NEW l,
         q = WakeFirst(ActivetaskItems, list, o), l = Pop(list, o)
  PROVE  /\ q \in Seq(Routines) /\ l \in [Lists -> Seq(Routines)]
         /\ NoDuplicates(q) /\ \A k \in Lists : NoDuplicates(l[k])
         /\ \A x \in Routines :
              \/ /\ In(q, x) <=> In(ActivetaskItems, x)
                 /\ \A k \in Lists : In(l[k], x) <=> In(list[k], x)
              \/ /\ Live(x) /\ occupyRoutine # x
                 /\ In(list[o], x) /\ ~In(ActivetaskItems, x) /\ In(q, x)
                 /\ \A k \in Lists : ~In(l[k], x)
         /\ \A x : ~In(ActivetaskItems, x) /\ ~In(list[o], x) => ~In(q, x)
         /\ \A x : \A k \in Lists : ~In(list[k], x) => ~In(l[k], x)
<1>q. ActivetaskItems \in Seq(Routines) /\ list \in [Lists -> Seq(Routines)]
  BY DEF UntimedInv, Basic, TypeOK, SchedTypeOK
<1>1. /\ q \in Seq(Routines) /\ l \in [Lists -> Seq(Routines)]
      /\ \A x : In(q, x) => In(ActivetaskItems, x) \/ In(list[o], x)
      /\ \A x : In(ActivetaskItems, x) => In(q, x)
      /\ \A k \in Lists : \A x : In(l[k], x) => In(list[k], x)
      /\ \A k \in Lists : \A x : In(list[k], x) => In(l[k], x) \/ (k = o /\ In(q, x))
      /\ NoDuplicates(ActivetaskItems) /\ (\A x : ~(In(ActivetaskItems, x) /\ In(list[o], x)))
           => NoDuplicates(q)
      /\ \A k \in Lists : NoDuplicates(list[k]) => NoDuplicates(l[k])
      /\ NoDuplicates(list[o])
           => \A x : In(l[o], x) /\ In(q, x) => In(ActivetaskItems, x)
  BY ONLY <1>q, q = WakeFirst(ActivetaskItems, list, o), l = Pop(list, o), o \in Lists,
          WakeAndPop
<1>2. \A x : In(ActivetaskItems, x) => x \in Routines
  BY <1>q DEF In
<1>3. \A x : ~(In(ActivetaskItems, x) /\ In(list[o], x))
  BY <1>2 DEF UntimedInv, PlaceInv, PlaceOf, Waits
<1>4. NoDuplicates(ActivetaskItems) /\ \A k \in Lists : NoDuplicates(list[k])
  BY DEF UntimedInv, PlaceInv, NoneTwice
<1>5. ASSUME NEW x \in Routines, In(list[o], x), In(q, x)
      PROVE  /\ Live(x) /\ occupyRoutine # x /\ ~In(ActivetaskItems, x)
             /\ \A k \in Lists : ~In(l[k], x)
  <2>1. PlaceOf(x) /\ ~In(ActivetaskItems, x)
    BY <1>3, <1>5 DEF UntimedInv, PlaceInv
  <2>2. Waits(x)
    BY <1>5 DEF Waits
  <2>3. Live(x) /\ occupyRoutine # x
    BY <2>1, <2>2, <1>5 DEF PlaceOf, Live
  <2>4. \A k \in Lists : In(list[k], x) => k = o
    BY <2>1, <1>5 DEF PlaceOf
  <2>5. ~In(l[o], x)
    BY <2>1, <1>1, <1>4, <1>5
  <2> QED BY <2>1, <2>3, <2>4, <2>5, <1>1
<1>6. ASSUME NEW x \in Routines, ~(In(list[o], x) /\ In(q, x))
      PROVE  /\ In(q, x) <=> In(ActivetaskItems, x)
             /\ \A k \in Lists : In(l[k], x) <=> In(list[k], x)
  BY <1>1, <1>6
<1> QED BY <1>1, <1>3, <1>4, <1>5, <1>6

(* The places after unlock or signalOnce, when nothing but the queues      *)
(* changed.                                                                *)
LEMMA WakePlace ==
  ASSUME UntimedInv, NEW o \in Lists,
         ActivetaskItems' = WakeFirst(ActivetaskItems, list, o),
         list' = Pop(list, o),
         UNCHANGED <<occupyRoutine, pc, mtx>>
  PROVE  PlaceInv'
<1>1. /\ NoDuplicates(ActivetaskItems') /\ \A k \in Lists : NoDuplicates(list'[k])
      /\ \A x \in Routines :
           \/ /\ In(ActivetaskItems', x) <=> In(ActivetaskItems, x)
              /\ \A k \in Lists : In(list'[k], x) <=> In(list[k], x)
           \/ /\ Live(x) /\ occupyRoutine # x
              /\ \A k \in Lists : ~In(list'[k], x)
  BY WokenPlace
<1>2. NoneTwice'
  BY <1>1 DEF NoneTwice
<1>3. ASSUME NEW x \in Routines PROVE PlaceOf(x)'
  <2>1. CASE Live(x) /\ occupyRoutine # x /\ \A k \in Lists : ~In(list'[k], x)
    <3>1. pc'[x] \notin {"unborn", "done"} /\ occupyRoutine' # x
      BY <2>1 DEF Live
    <3> QED BY <2>1, <3>1, Unlisted
  <2>2. CASE /\ In(ActivetaskItems', x) <=> In(ActivetaskItems, x)
             /\ \A k \in Lists : In(list'[k], x) <=> In(list[k], x)
    BY <2>2, Unmoved DEF UntimedInv
  <2> QED BY <1>1, <2>1, <2>2
<1> QED BY <1>2, <1>3 DEF PlaceInv

(* wait: the mutex is unlocked and the running coroutine, which was in no  *)
(* queue, goes to the list of the condition, or to the ready queue when    *)
(* that list cannot be locked.                                             *)
LEMMA WaitPlace ==
  ASSUME UntimedInv, NEW r \in Routines, NEW c \in Conds, NEW m \in Mutexes, Wait(r, c, m)
  PROVE  PlaceInv'
<1> USE DEF UntimedInv, Basic, TypeOK, SchedTypeOK, SwitchInv
<1>1. CASE UNCHANGED <<schedVars, list, pc, mtx>>
  BY <1>1 DEF schedVars, PlaceInv, NoneTwice, PlaceOf, Waits, Live
<1>2. CASE ~UnlockAborts(m)
  <2> DEFINE q == WakeFirst(ActivetaskItems, list, m)
             l == Pop(list, m)
  <2>1. /\ occupyRoutine = r /\ occupyRoutine' = pendingRoutine
        /\ mtx' = [mtx EXCEPT ![r] = m]
        /\ \/ ActivetaskItems' = q /\ list' = Add(l, c, r) /\ pc' = [pc EXCEPT ![r] = "wait"]
           \/ ActivetaskItems' = AddTask(q, r) /\ list' = l /\ pc' = [pc EXCEPT ![r] = "spin"]
    BY <1>2 DEF Wait, Enqueue, Runs, SwapContext
  <2>2. occupyRoutine' = Loop
    BY <2>1
  <2>3. ~In(ActivetaskItems, r) /\ \A k \in Lists : ~In(list[k], r)
    BY <2>1, Unqueued
  <2>4. /\ q \in Seq(Routines) /\ l \in [Lists -> Seq(Routines)]
        /\ NoDuplicates(q) /\ \A k \in Lists : NoDuplicates(l[k])
        /\ \A x \in Routines :
             \/ /\ In(q, x) <=> In(ActivetaskItems, x)
                /\ \A k \in Lists : In(l[k], x) <=> In(list[k], x)
             \/ Live(x) /\ occupyRoutine # x /\ \A k \in Lists : ~In(l[k], x)
        /\ ~In(q, r) /\ \A k \in Lists : ~In(l[k], r)
    <3>1. m \in Lists
      OBVIOUS
    <3>2. /\ q \in Seq(Routines) /\ l \in [Lists -> Seq(Routines)]
          /\ NoDuplicates(q) /\ \A k \in Lists : NoDuplicates(l[k])
          /\ \A x \in Routines :
               \/ /\ In(q, x) <=> In(ActivetaskItems, x)
                  /\ \A k \in Lists : In(l[k], x) <=> In(list[k], x)
               \/ /\ Live(x) /\ occupyRoutine # x
                  /\ In(list[m], x) /\ ~In(ActivetaskItems, x) /\ In(q, x)
                  /\ \A k \in Lists : ~In(l[k], x)
          /\ \A x : ~In(ActivetaskItems, x) /\ ~In(list[m], x) => ~In(q, x)
          /\ \A x : \A k \in Lists : ~In(list[k], x) => ~In(l[k], x)
      BY <3>1, WokenPlace
    <3> HIDE DEF q, l
    <3> QED BY <3>1, <3>2, <2>3
  <2> HIDE DEF q, l
  <2>5. /\ pc'[r] \in {"wait", "spin"} /\ mtx'[r] = m
        /\ \A x \in Routines : x # r => pc'[x] = pc[x] /\ mtx'[x] = mtx[x]
    BY <2>1
  <2>6. ASSUME NEW x \in Routines, x # r,
               In(ActivetaskItems', x) <=> In(q, x),
               \A k \in Lists : In(list'[k], x) <=> In(l[k], x)
        PROVE  PlaceOf(x)'
    <3>1. CASE Live(x) /\ \A k \in Lists : ~In(l[k], x)
      <4>1. pc'[x] \notin {"unborn", "done"} /\ occupyRoutine' # x
            /\ \A k \in Lists : ~In(list'[k], x)
        BY <2>2, <2>5, <2>6, <3>1 DEF Live
      <4> QED BY <4>1, Unlisted
    <3>2. CASE /\ In(q, x) <=> In(ActivetaskItems, x)
               /\ \A k \in Lists : In(l[k], x) <=> In(list[k], x)
      <4>1. /\ In(ActivetaskItems', x) <=> In(ActivetaskItems, x)
            /\ \A k \in Lists : In(list'[k], x) <=> In(list[k], x)
            /\ pc'[x] = pc[x] /\ mtx'[x] = mtx[x] /\ occupyRoutine' # x
        BY <2>2, <2>5, <2>6, <3>2
      <4> QED BY <4>1, Unmoved
    <3> QED BY <2>4, <3>1, <3>2
  <2>7. CASE ActivetaskItems' = q /\ list' = Add(l, c, r) /\ pc' = [pc EXCEPT ![r] = "wait"]
    <3>1. /\ \A k \in Lists : \A x :
               In(Add(l, c, r)[k], x) <=> In(l[k], x) \/ (k = c /\ x = r)
          /\ \A k \in Lists : NoDuplicates(Add(l, c, r)[k])
      <4>1. c \in Lists /\ ~In(l[c], r)
        BY <2>4
      <4> QED BY ONLY <4>1, <2>4, r \in Routines, AddToList
    <3>2. NoneTwice'
      BY <2>4, <2>7, <3>1 DEF NoneTwice
    <3>3. PlaceOf(r)'
      <4>1. /\ c \in Lists /\ c \notin Mutexes
            /\ \A k \in Lists : In(list'[k], r) => k = c
            /\ ~In(ActivetaskItems', r) /\ occupyRoutine' # r
            /\ pc'[r] = "wait"
        BY <2>2, <2>4, <2>7, <3>1
      <4> QED BY <4>1, Listed
    <3>4. ASSUME NEW x \in Routines, x # r PROVE PlaceOf(x)'
      BY <2>6, <2>7, <3>1, <3>4
    <3> QED BY <3>2, <3>3, <3>4 DEF PlaceInv
  <2>8. CASE ActivetaskItems' = AddTask(q, r) /\ list' = l /\ pc' = [pc EXCEPT ![r] = "spin"]
    <3>1. /\ \A x : In(AddTask(q, r), x) <=> In(q, x) \/ x = r
          /\ NoDuplicates(AddTask(q, r))
      BY ONLY <2>4, r \in Routines, AppendIn DEF AddTask
    <3>2. NoneTwice'
      BY <2>4, <2>8, <3>1 DEF NoneTwice
    <3>3. PlaceOf(r)'
      <4>1. /\ \A k \in Lists : ~In(list'[k], r)
            /\ pc'[r] = "spin" /\ occupyRoutine' # r
        BY <2>2, <2>4, <2>8
      <4> QED BY <4>1, Unlisted
    <3>4. ASSUME NEW x \in Routines, x # r PROVE PlaceOf(x)'
      BY <2>6, <2>8, <3>1, <3>4
    <3> QED BY <3>2, <3>3, <3>4 DEF PlaceInv
  <2> QED BY <2>1, <2>7, <2>8
<1>3. UnlockAborts(m) => UNCHANGED <<schedVars, list, pc, mtx>>
  BY DEF UnlockAborts, frameVars
<1> QED BY <1>1, <1>2, <1>3


(* A running coroutine that gives way goes to the ready queue alone. *)
LEMMA YieldPlace ==
  ASSUME UntimedInv, NEW r \in Routines, YieldSelf(r),
         pc'[r] \notin {"unborn", "done"},
         \A x \in Routines : x # r => pc'[x] = pc[x],
         UNCHANGED <<list, mtx>>
  PROVE  PlaceInv'
<1> USE DEF UntimedInv, Basic, TypeOK, SchedTypeOK, SwitchInv
<1>1. /\ occupyRoutine = r /\ occupyRoutine' = Loop
      /\ ActivetaskItems' = AddTask(ActivetaskItems, r)
  BY DEF YieldSelf, SwapContext
<1>2. ~In(ActivetaskItems, r) /\ \A k \in Lists : ~In(list[k], r)
  BY <1>1, Unqueued
<1>3. /\ \A x : In(ActivetaskItems', x) <=> In(ActivetaskItems, x) \/ x = r
      /\ NoDuplicates(ActivetaskItems) => NoDuplicates(ActivetaskItems')
  <2>1. ActivetaskItems \in Seq(Routines)
    OBVIOUS
  <2> QED BY ONLY <2>1, <1>1, <1>2, r \in Routines, AppendIn DEF AddTask
<1>4. NoneTwice'
  BY <1>3 DEF PlaceInv, NoneTwice
<1>5. PlaceOf(r)'
  <2>1. (\A k \in Lists : ~In(list'[k], r)) /\ occupyRoutine' # r
    BY <1>1, <1>2
  <2> QED BY <2>1, Unlisted
<1>6. ASSUME NEW x \in Routines, x # r PROVE PlaceOf(x)'
  <2>1. /\ In(ActivetaskItems', x) <=> In(ActivetaskItems, x)
        /\ \A k \in Lists : In(list'[k], x) <=> In(list[k], x)
        /\ pc'[x] = pc[x] /\ mtx'[x] = mtx[x] /\ occupyRoutine' # x
    BY <1>1, <1>3, <1>6
  <2> QED BY <2>1, Unmoved
<1> QED BY <1>4, <1>5, <1>6 DEF PlaceInv

(* signalAll moves the waiters of the condition to the ready queue.        *)
LEMMA SignalPlace ==
  ASSUME UntimedInv, NEW r \in Routines, NEW c \in Conds, SignalAll(r, c) \/ SignalOnce(r, c)
  PROVE  PlaceInv'
<1> USE DEF UntimedInv, Basic, TypeOK, SchedTypeOK
<1>1. UNCHANGED mtx /\ c \in Lists /\ pc[r] = "user"
  BY DEF SignalAll, SignalOnce, Runs
<1>2. CASE /\ ActivetaskItems' = ActivetaskItems \o list[c]
           /\ list' = [list EXCEPT ![c] = <<>>]
           /\ UNCHANGED <<occupyRoutine, pc>>
  <2>1. \A x : ~(In(ActivetaskItems, x) /\ In(list[c], x))
    <3>1. \A x : In(ActivetaskItems, x) => x \in Routines
      BY DEF In
    <3> QED BY <3>1, <1>1 DEF PlaceInv, PlaceOf, Waits
  <2>2. /\ \A x : In(ActivetaskItems', x) <=> In(ActivetaskItems, x) \/ In(list[c], x)
        /\ NoDuplicates(ActivetaskItems')
    <3>1. /\ ActivetaskItems \in Seq(Routines) /\ list[c] \in Seq(Routines)
          /\ NoDuplicates(ActivetaskItems) /\ NoDuplicates(list[c])
      BY <1>1 DEF PlaceInv, NoneTwice
    <3> QED BY ONLY <3>1, <2>1, <1>2, ConcatIn
  <2>3. /\ \A x : ~In(list'[c], x)
        /\ NoDuplicates(list'[c])
        /\ \A k \in Lists : k # c => list'[k] = list[k]
    BY <1>2 DEF In, NoDuplicates
  <2>4. NoneTwice'
    BY <2>2, <2>3 DEF PlaceInv, NoneTwice
  <2>5. ASSUME NEW x \in Routines PROVE PlaceOf(x)'
    <3>1. CASE In(list[c], x)
      <4>1. Waits(x) /\ PlaceOf(x)
        BY <1>1, <3>1 DEF Waits, PlaceInv
      <4>2. pc[x] = "wait" /\ occupyRoutine # x /\ \A k \in Lists : In(list[k], x) => k = c
        BY <1>1, <3>1, <4>1 DEF PlaceOf
      <4>3. /\ \A k \in Lists : ~In(list'[k], x)
            /\ pc'[x] \notin {"unborn", "done"} /\ occupyRoutine' # x
        BY <1>2, <2>3, <4>2
      <4> QED BY <4>3, Unlisted
    <3>2. CASE ~In(list[c], x)
      <4>1. /\ In(ActivetaskItems', x) <=> In(ActivetaskItems, x)
            /\ \A k \in Lists : In(list'[k], x) <=> In(list[k], x)
            /\ UNCHANGED <<occupyRoutine, pc, mtx>>
        BY <1>1, <1>2, <2>2, <2>3, <3>2
      <4> QED BY <4>1, Unmoved
    <3> QED BY <3>1, <3>2
  <2> QED BY <2>4, <2>5 DEF PlaceInv
<1>3. CASE /\ ActivetaskItems' = WakeFirst(ActivetaskItems, list, c)
           /\ list' = Pop(list, c)
           /\ UNCHANGED <<occupyRoutine, pc>>
  BY <1>1, <1>3, WakePlace
<1>4. CASE UNCHANGED <<schedVars, list, pc>>
  BY <1>1, <1>4 DEF schedVars, PlaceInv, NoneTwice, PlaceOf, Waits, Live
<1>5. CASE YieldSelf(r) /\ pc' = [pc EXCEPT ![r] = "spin"] /\ UNCHANGED list
  <2>1. pc'[r] = "spin" /\ \A x \in Routines : x # r => pc'[x] = pc[x]
    BY <1>5
  <2> QED BY <2>1, <1>1, <1>5, YieldPlace
<1> QED BY <1>2, <1>3, <1>4, <1>5 DEF SignalAll, SignalOnce

(* Resume starts a coroutine that was nowhere: both go to the ready queue. *)
LEMMA StartPlace ==
  ASSUME UntimedInv, NEW r \in Routines, NEW n \in Routines, Start(r, n)
  PROVE  PlaceInv'
<1> USE DEF UntimedInv, Basic, TypeOK, SchedTypeOK, SwitchInv
<1> DEFINE q == AddTask(ActivetaskItems, n)
<1>1. /\ occupyRoutine = r /\ pc[r] = "user" /\ pc[n] = "unborn"
      /\ occupyRoutine' = Loop
      /\ ActivetaskItems' = AddTask(q, r)
      /\ pc' = [pc EXCEPT ![n] = "user"]
      /\ UNCHANGED <<list, mtx>>
  BY DEF Start, Runs, ResumeTarget, SwapContext
<1>2. /\ ~In(ActivetaskItems, r) /\ \A k \in Lists : ~In(list[k], r)
      /\ ~In(ActivetaskItems, n) /\ \A k \in Lists : ~In(list[k], n)
  <2>1. ~Live(n)
    BY <1>1 DEF Live
  <2> QED BY <1>1, <2>1, Unqueued
<1>3. /\ q \in Seq(Routines)
      /\ \A x : In(q, x) <=> In(ActivetaskItems, x) \/ x = n
      /\ NoDuplicates(q)
  <2>1. ActivetaskItems \in Seq(Routines) /\ NoDuplicates(ActivetaskItems)
    BY DEF PlaceInv, NoneTwice
  <2> QED BY ONLY <2>1, <1>2, n \in Routines, AppendIn DEF AddTask
<1> HIDE DEF q
<1>4. /\ \A x : In(ActivetaskItems', x) <=> In(ActivetaskItems, x) \/ x = n \/ x = r
      /\ NoDuplicates(ActivetaskItems')
  <2>1. /\ \A x : In(AddTask(q, r), x) <=> In(q, x) \/ x = r
        /\ NoDuplicates(q) /\ ~In(q, r) => NoDuplicates(AddTask(q, r))
    BY ONLY <1>3, r \in Routines, AppendIn DEF AddTask
  <2>2. r # n
    BY <1>1
  <2> QED BY <2>1, <2>2, <1>1, <1>2, <1>3
<1>5. NoneTwice'
  BY <1>1, <1>4 DEF PlaceInv, NoneTwice
<1>6. ASSUME NEW x \in {r, n} PROVE PlaceOf(x)'
  <2>1. /\ \A k \in Lists : ~In(list'[k], x)
        /\ pc'[x] = "user" /\ occupyRoutine' # x
    BY <1>1, <1>2, <1>6
  <2> QED BY <2>1, <1>6, Unlisted
<1>7. ASSUME NEW x \in Routines, x \notin {r, n} PROVE PlaceOf(x)'
  <2>1. /\ In(ActivetaskItems', x) <=> In(ActivetaskItems, x)
        /\ \A k \in Lists : In(list'[k], x) <=> In(list[k], x)
        /\ pc'[x] = pc[x] /\ mtx'[x] = mtx[x] /\ occupyRoutine' # x
    BY <1>1, <1>4, <1>7
  <2> QED BY <2>1, Unmoved
<1> QED BY <1>5, <1>6, <1>7 DEF PlaceInv

(* A finished coroutine was in no queue, and is in none.                   *)
LEMMA FinishPlace ==
  ASSUME UntimedInv, NEW r \in Routines, Finish(r)
  PROVE  PlaceInv'
<1> USE DEF UntimedInv, Basic, TypeOK, SchedTypeOK, SwitchInv
<1>1. /\ occupyRoutine = r /\ occupyRoutine' = Loop
      /\ \E after \in {"unborn", "done"} : pc' = [pc EXCEPT ![r] = after]
      /\ UNCHANGED <<ActivetaskItems, list, mtx>>
  BY DEF Finish, Runs, SwapContext
<1>2. ~In(ActivetaskItems, r) /\ \A k \in Lists : ~In(list[k], r)
  BY <1>1, Unqueued
<1>3. NoneTwice'
  BY <1>1 DEF PlaceInv, NoneTwice
<1>4. PlaceOf(r)'
  <2>1. (\A k \in Lists : ~In(list'[k], r)) /\ ~In(ActivetaskItems', r) /\ occupyRoutine' # r
    BY <1>1, <1>2
  <2> QED BY <2>1, Unlisted
<1>5. ASSUME NEW x \in Routines, x # r PROVE PlaceOf(x)'
  <2>1. pc'[x] = pc[x] /\ occupyRoutine' # x
    BY <1>1, <1>5
  <2> QED BY <2>1, <1>1, Unmoved
<1> QED BY <1>3, <1>4, <1>5 DEF PlaceInv

(* The loop takes one coroutine out of the ready queue and runs it.        *)
LEMMA DispatchPlace ==
  ASSUME UntimedInv, LoopDispatch
  PROVE  PlaceInv'
<1> USE DEF UntimedInv, Basic, TypeOK, SchedTypeOK
<1>0. /\ occupyRoutine = Loop /\ ActivetaskItems # <<>>
      /\ occupyRoutine' = Head(ActivetaskItems) /\ ActivetaskItems' = Tail(ActivetaskItems)
      /\ UNCHANGED <<list, pc, mtx>>
  BY DEF LoopDispatch, Dispatch, frameVars
<1>1. PICK r \in Routines :
        /\ occupyRoutine = Loop /\ occupyRoutine' = r
        /\ UNCHANGED <<list, pc, mtx>>
        /\ \A x : In(ActivetaskItems, x) <=> In(ActivetaskItems', x) \/ x = r
        /\ NoDuplicates(ActivetaskItems') /\ ~In(ActivetaskItems', r)
  <2>1. ActivetaskItems \in Seq(Routines) /\ NoDuplicates(ActivetaskItems)
    BY DEF PlaceInv, NoneTwice
  <2> QED BY ONLY <2>1, <1>0, TailIn
<1>3. Live(r) /\ \A k \in Lists : ~In(list[k], r)
  BY <1>1 DEF PlaceInv, PlaceOf, Waits
<1>4. NoneTwice'
  BY <1>1 DEF PlaceInv, NoneTwice
<1>5. PlaceOf(r)'
  <2>1. /\ \A k \in Lists : ~In(list'[k], r)
        /\ ~In(ActivetaskItems', r) /\ pc'[r] \notin {"unborn", "done"}
    BY <1>1, <1>3 DEF Live
  <2> QED BY <2>1, <1>1, Unlisted
<1>6. ASSUME NEW x \in Routines, x # r PROVE PlaceOf(x)'
  <2>1. (In(ActivetaskItems', x) <=> In(ActivetaskItems, x)) /\ occupyRoutine' # x
    BY <1>1, <1>6
  <2> QED BY <2>1, <1>1, Unmoved
<1> QED BY <1>4, <1>5, <1>6 DEF PlaceInv


(* Every step of an application that does not use timeWait leaves every    *)
(* coroutine in one place.                                                 *)
LEMMA UntimedStep ==
  ASSUME TimedConds = {}
  PROVE  Basic /\ Untimed /\ PlaceInv /\ [Next]_vars => Untimed' /\ PlaceInv'
<1> SUFFICES ASSUME UntimedInv, [Next]_vars PROVE Untimed' /\ PlaceInv'
  BY DEF UntimedInv
<1>t. pc \in [Routines -> PCs]
  BY DEF UntimedInv, Basic, TypeOK
<1>i. PlaceInv /\ armed = {} /\ \A x \in Routines : pc[x] # "timeWait"
  BY DEF UntimedInv, Untimed
<1>u. ASSUME UNCHANGED <<schedVars, list, pc, mtx, armed>> PROVE Untimed' /\ PlaceInv'
  BY <1>u, <1>i
  DEF Untimed, schedVars, PlaceInv, NoneTwice, PlaceOf, Waits, Live
<1>l. ASSUME NEW r \in Routines, NEW m \in Mutexes, NEW e, occupyRoutine = r,
             TryLock(r, m, e), armed' = armed
      PROVE  Untimed' /\ PlaceInv'
  <2>1. /\ PlaceInv'
        /\ pc'[r] # "timeWait" /\ \A x \in Routines : x # r => pc'[x] = pc[x]
    BY <1>l, TryLockPlace
  <2> QED BY <2>1, <1>l, <1>i DEF Untimed
<1>0. CASE UNCHANGED vars
  BY <1>0, <1>u DEF vars, frameVars
<1>1. CASE LoopDispatch
  BY <1>1, <1>i, DispatchPlace DEF LoopDispatch, frameVars, Untimed
<1>2. ASSUME NEW r \in Routines, TimerFires(r) PROVE FALSE
  BY <1>2, <1>i DEF TimerFires
<1>3. ASSUME NEW r \in Routines, Continue(r) PROVE Untimed' /\ PlaceInv'
  <2>1. CASE LockRetry(r)
    <3>1. mtx[r] \in Mutexes /\ occupyRoutine = r
      BY <2>1 DEF LockRetry, Runs, UntimedInv, Basic, SwitchInv
    <3> QED BY <2>1, <3>1, <1>l DEF LockRetry
  <2>2. CASE WaitResumed(r)
    <3>1. mtx[r] \in Mutexes /\ occupyRoutine = r
      BY <2>2 DEF WaitResumed, Runs, UntimedInv, Basic, SwitchInv
    <3> QED BY <2>2, <3>1, <1>l DEF WaitResumed
  <2>3. ~TimeWaitSignalled(r) /\ ~TimeWaitTimedOut(r)
    BY <1>i DEF TimeWaitSignalled, TimeWaitTimedOut, Runs
  <2>4. CASE Spin(r)
    <3>1. /\ YieldSelf(r) /\ pc[r] = "spin" /\ UNCHANGED <<list, pc, mtx, armed>>
      BY <2>4 DEF Spin, Runs, frameVars
    <3> QED BY <3>1, <1>i, YieldPlace DEF Untimed
  <2>5. CASE ResumedDead(r)
    BY <2>5, <1>u DEF ResumedDead, frameVars
  <2> QED BY <1>3, <2>1, <2>2, <2>3, <2>4, <2>5 DEF Continue
<1>4. ASSUME NEW r \in Routines, Call(r) PROVE Untimed' /\ PlaceInv'
  <2>1. ASSUME NEW m \in Mutexes, Lock(r, m) PROVE Untimed' /\ PlaceInv'
    BY <2>1, <1>l DEF Lock, Runs
  <2>2. ASSUME NEW m \in Mutexes, Unlock(r, m) PROVE Untimed' /\ PlaceInv'
    <3>1. CASE UnlockAborts(m)
      BY <3>1, <1>u DEF UnlockAborts, frameVars
    <3>2. CASE ~UnlockAborts(m)
      <4>1. /\ m \in Lists
            /\ ActivetaskItems' = WakeFirst(ActivetaskItems, list, m)
            /\ list' = Pop(list, m)
            /\ UNCHANGED <<occupyRoutine, pc, mtx, armed>>
        BY <2>2, <3>2 DEF Unlock, frameVars
      <4> QED BY <4>1, <1>i, WakePlace DEF Untimed
    <3> QED BY <3>1, <3>2
  <2>3. ASSUME NEW c \in Conds, NEW m \in Mutexes, Wait(r, c, m)
        PROVE  Untimed' /\ PlaceInv'
    <3>1. \A x \in Routines : pc'[x] # "timeWait"
      BY <2>3, <1>t, <1>i DEF Wait, Enqueue, UnlockAborts, frameVars
    <3>2. armed' = armed
      BY <2>3 DEF Wait, Enqueue, UnlockAborts
    <3> QED BY <2>3, <3>1, <3>2, <1>i, WaitPlace DEF Untimed
  <2>4. ASSUME NEW c \in Conds, SignalAll(r, c) \/ SignalOnce(r, c)
        PROVE  Untimed' /\ PlaceInv'
    <3>1. \A x \in Routines : pc'[x] # "timeWait"
      BY <2>4, <1>t, <1>i DEF SignalAll, SignalOnce
    <3>2. armed' = armed
      BY <2>4 DEF SignalAll, SignalOnce
    <3> QED BY <2>4, <3>1, <3>2, <1>i, SignalPlace DEF Untimed
  <2>5. ASSUME NEW n \in Routines, Start(r, n) PROVE Untimed' /\ PlaceInv'
    <3>1. (\A x \in Routines : pc'[x] # "timeWait") /\ armed' = armed
      BY <2>5, <1>t, <1>i DEF Start
    <3> QED BY <2>5, <3>1, <1>i, StartPlace DEF Untimed
  <2>6. CASE Yield(r)
    <3>1. /\ YieldSelf(r) /\ pc[r] = "user" /\ UNCHANGED <<list, pc, mtx, armed>>
      BY <2>6 DEF Yield, Runs, frameVars
    <3> QED BY <3>1, <1>i, YieldPlace DEF Untimed
  <2>7. CASE Finish(r)
    <3>1. (\A x \in Routines : pc'[x] # "timeWait") /\ armed' = armed
      BY <2>7, <1>t, <1>i DEF Finish
    <3> QED BY <2>7, <3>1, <1>i, FinishPlace DEF Untimed
  <2> QED BY <1>4, <2>1, <2>2, <2>3, <2>4, <2>5, <2>6, <2>7 DEF Call
<1> QED BY <1>0, <1>1, <1>2, <1>3, <1>4 DEF Next

(* The invariant of an application without timeWait. *)
LEMMA UntimedInvariant ==
  ASSUME TimedConds = {}
  PROVE  Spec => [](Basic /\ Untimed /\ PlaceInv)
<1>1. Basic /\ Untimed /\ PlaceInv /\ [Next]_vars => Untimed' /\ PlaceInv'
  BY UntimedStep
<1> QED BY <1>1, BasicInit, BasicStep, UntimedInit, PTL DEF Spec

(* Without timeWait a coroutine is scheduled once at most: no interleaving *)
(* of lock, unlock, wait, signal and Resume commits it a second time while *)
(* it runs, is ready or waits.                                             *)
THEOREM ScheduledOnce ==
  ASSUME TimedConds = {}
  PROVE  Spec => []AtMostOnePlace
<1>1. PlaceInv => AtMostOnePlace
  BY PlaceImplies
<1> QED BY <1>1, UntimedInvariant, PTL

(* Without timeWait whoever stands on a waiting list is blocked on its     *)
(* object, so unlock and signal wake nobody in the middle of another call. *)
THEOREM WaitersAreBlocked ==
  ASSUME TimedConds = {}
  PROVE  Spec => []BlockedWhereListed
<1>1. PlaceInv => BlockedWhereListed
  BY PlaceImplies
<1> QED BY <1>1, UntimedInvariant, PTL

-----------------------------------------------------------------------------
(* The implementation of Coroutines: the state of each coroutine, read off *)
(* its place, moves only as Coroutines allows.                             *)
StatusOf(x) ==
  IF ~Live(x) THEN pc[x]
  ELSE IF occupyRoutine = x THEN "running"
  ELSE IF In(ActivetaskItems, x) THEN "ready" ELSE "blocked"

(* A coroutine that a step leaves where it was keeps its state.            *)
LEMMA SameStatus ==
  ASSUME NEW x \in Routines,
         In(ActivetaskItems, x)' <=> In(ActivetaskItems, x),
         pc'[x] = pc[x], occupyRoutine' = x <=> occupyRoutine = x
  PROVE  StatusOf(x)' = StatusOf(x)
<1>1. Live(x)' <=> Live(x)
  BY DEF Live
<1> QED BY <1>1 DEF StatusOf

(* A step that changes no coroutine's state is a stutter.                  *)
LEMMA StatusStutter ==
  ASSUME \A x \in Routines : StatusOf(x)' = StatusOf(x)
  PROVE  Status' = Status
BY DEF Status, StatusOf

(* A step of the running coroutine r that makes the members of W ready,    *)
(* which were blocked or not yet started, is one of Coroutines.            *)
LEMMA ActStatus ==
  ASSUME NEW r \in Routines, NEW W \in SUBSET Routines,
         NEW next \in Abs!States,
         StatusOf(r) = "running",
         \A w \in W : StatusOf(w) \in {"blocked", "unborn"} /\ StatusOf(w)' = "ready",
         StatusOf(r)' = next,
         \A x \in Routines \ W : x # r => StatusOf(x)' = StatusOf(x)
  PROVE  Abs!Next
<1>1. \A x \in Routines : Status[x] = StatusOf(x)
  BY DEF Status, StatusOf
<1>2. Status' = [x \in Routines |-> StatusOf(x)']
  BY DEF Status, StatusOf
<1>3. r \notin W
  OBVIOUS
<1>4. Status' = [q \in Routines |-> IF q \in W THEN "ready"
                                    ELSE IF q = r THEN next ELSE Status[q]]
  BY <1>1, <1>2, <1>3
<1>5. Abs!Act(r, W, next)
  BY <1>1, <1>4 DEF Abs!Act
<1> QED BY <1>5 DEF Abs!Next

(* The loop's step runs a ready coroutine while no other runs.             *)
LEMMA DispatchStatus ==
  ASSUME UntimedInv, LoopDispatch
  PROVE  Abs!Next
<1> USE DEF UntimedInv, Basic, TypeOK, SchedTypeOK
<1>1. PICK r \in Routines :
        /\ occupyRoutine = Loop /\ occupyRoutine' = r /\ pc' = pc
        /\ \A x : In(ActivetaskItems, x) <=> In(ActivetaskItems', x) \/ x = r
  <2>1. /\ occupyRoutine = Loop /\ ActivetaskItems # <<>>
        /\ occupyRoutine' = Head(ActivetaskItems) /\ ActivetaskItems' = Tail(ActivetaskItems)
        /\ pc' = pc
    BY DEF LoopDispatch, Dispatch, frameVars
  <2>2. ActivetaskItems \in Seq(Routines)
    OBVIOUS
  <2> QED BY ONLY <2>1, <2>2, TailIn
<1>2. Live(r)
  BY <1>1 DEF PlaceInv, PlaceOf
<1>3. StatusOf(r) = "ready" /\ StatusOf(r)' = "running"
  <2>1. occupyRoutine # r /\ In(ActivetaskItems, r) /\ Live(r)'
    BY <1>1, <1>2 DEF Live
  <2> QED BY <2>1, <1>1, <1>2 DEF StatusOf
<1>4. ASSUME NEW x \in Routines, x # r PROVE StatusOf(x)' = StatusOf(x)
  <2>1. /\ In(ActivetaskItems', x) <=> In(ActivetaskItems, x)
        /\ pc'[x] = pc[x] /\ occupyRoutine' # x /\ occupyRoutine # x
    BY <1>1, <1>4
  <2> QED BY <2>1, SameStatus
<1>5. \A x \in Routines : Status[x] = StatusOf(x)
  BY DEF Status, StatusOf
<1>6. Status' = [x \in Routines |-> StatusOf(x)']
  BY DEF Status, StatusOf
<1>7. Abs!NobodyRuns
  <2>1. \A x \in Routines : StatusOf(x) # "running"
    BY <1>1 DEF StatusOf, PCs
  <2> QED BY <2>1, <1>5 DEF Abs!NobodyRuns
<1>8. Status' = [Status EXCEPT ![r] = "running"]
  <2>1. Status = [x \in Routines |-> StatusOf(x)]
    BY DEF Status, StatusOf
  <2> QED BY <2>1, <1>3, <1>4, <1>6
<1>9. Abs!Run(r)
  BY <1>3, <1>5, <1>7, <1>8 DEF Abs!Run
<1> QED BY <1>9 DEF Abs!Next


(* The running coroutine wakes the first waiter of o, or nobody, and comes *)
(* to its next state.                                                      *)
LEMMA WakeStatus ==
  ASSUME UntimedInv, NEW r \in Routines, NEW o \in Lists, NEW q,
         NEW next \in Abs!States,
         Runs(r, "user"), q = WakeFirst(ActivetaskItems, list, o),
         StatusOf(r)' = next,
         \A x \in Routines : x # r => /\ In(ActivetaskItems', x) <=> In(q, x)
                                      /\ pc'[x] = pc[x] /\ occupyRoutine' # x
  PROVE  Abs!Next
<1> DEFINE W == {x \in Routines : In(q, x) /\ ~In(ActivetaskItems, x)}
<1>1. /\ \A x \in Routines :
           \/ In(q, x) <=> In(ActivetaskItems, x)
           \/ Live(x) /\ occupyRoutine # x /\ ~In(ActivetaskItems, x) /\ In(q, x)
      /\ \A x : ~In(ActivetaskItems, x) /\ ~In(list[o], x) => ~In(q, x)
  BY WokenPlace
<1>2. occupyRoutine = r /\ Live(r) /\ StatusOf(r) = "running"
  BY DEF Runs, StatusOf, Live
<1>3. ~In(q, r)
  <2>1. ~In(ActivetaskItems, r) /\ \A l \in Lists : ~In(list[l], r)
    BY <1>2, Unqueued DEF UntimedInv
  <2> QED BY <2>1, <1>1
<1>4. ASSUME NEW w \in W
      PROVE  StatusOf(w) \in {"blocked", "unborn"} /\ StatusOf(w)' = "ready"
  <2>1. Live(w) /\ occupyRoutine # w /\ ~In(ActivetaskItems, w) /\ In(q, w) /\ w # r
    BY <1>1, <1>3, <1>4
  <2>2. Live(w)' /\ occupyRoutine' # w /\ In(ActivetaskItems', w)
    BY <2>1 DEF Live
  <2> QED BY <2>1, <2>2 DEF StatusOf
<1>5. ASSUME NEW x \in Routines \ W, x # r PROVE StatusOf(x)' = StatusOf(x)
  <2>1. /\ In(ActivetaskItems', x) <=> In(ActivetaskItems, x)
        /\ pc'[x] = pc[x] /\ occupyRoutine' # x /\ occupyRoutine # x
    BY <1>1, <1>2, <1>5
  <2> QED BY <2>1, SameStatus
<1>6. W \in SUBSET Routines
  OBVIOUS
<1> HIDE DEF W
<1> QED BY <1>2, <1>4, <1>5, <1>6, ActStatus

(* The running coroutine wakes nobody and comes to its next state.         *)
LEMMA AloneStatus ==
  ASSUME NEW r \in Routines, NEW next \in Abs!States,
         StatusOf(r) = "running", occupyRoutine = r,
         StatusOf(r)' = next,
         \A x \in Routines : x # r => /\ In(ActivetaskItems', x) <=> In(ActivetaskItems, x)
                                      /\ pc'[x] = pc[x] /\ occupyRoutine' # x
  PROVE  Abs!Next
<1>1. ASSUME NEW x \in Routines, x # r PROVE StatusOf(x)' = StatusOf(x)
  BY <1>1, SameStatus
<1>2. {} \in SUBSET Routines
  OBVIOUS
<1> QED BY <1>1, <1>2, ActStatus

(* A compare-exchange of lock() takes the mutex, which Coroutines does not *)
(* see, or blocks the caller.                                              *)
LEMMA TryLockStatus ==
  ASSUME UntimedInv, NEW r \in Routines, NEW m \in Mutexes, NEW e,
         occupyRoutine = r, Live(r), TryLock(r, m, e)
  PROVE  Abs!Next \/ Status' = Status
<1> USE DEF UntimedInv, Basic, TypeOK, SwitchInv
<1>1. StatusOf(r) = "running"
  BY DEF StatusOf
<1>2. CASE lockCount[m] = e
  <2>1. /\ pc' = [pc EXCEPT ![r] = "user"]
        /\ UNCHANGED <<occupyRoutine, ActivetaskItems>>
    BY <1>2 DEF TryLock, Returns, schedVars
  <2>2. pc'[r] = "user" /\ \A x \in Routines : x # r => pc'[x] = pc[x]
    BY <2>1
  <2>3. StatusOf(r)' = "running"
    BY <2>1, <2>2 DEF StatusOf, Live
  <2>4. ASSUME NEW x \in Routines, x # r PROVE StatusOf(x)' = StatusOf(x)
    BY <2>1, <2>2, <2>4, SameStatus
  <2> QED BY <1>1, <2>3, <2>4, StatusStutter
<1>3. CASE lockCount[m] # e
  <2>1. /\ pc' = [pc EXCEPT ![r] = "lock"]
        /\ occupyRoutine' = Loop /\ ActivetaskItems' = ActivetaskItems
    BY <1>3 DEF TryLock, SwapContext
  <2>2. pc'[r] = "lock" /\ \A x \in Routines : x # r => pc'[x] = pc[x]
    BY <2>1
  <2>3. ~In(ActivetaskItems', r)
    BY <2>1, Unqueued
  <2>4. StatusOf(r)' = "blocked"
    BY <2>1, <2>2, <2>3 DEF StatusOf, Live
  <2> QED BY <1>1, <2>1, <2>2, <2>4, AloneStatus DEF Abs!States
<1> QED BY <1>2, <1>3

(* A coroutine that gives way becomes ready.                               *)
LEMMA YieldStatus ==
  ASSUME UntimedInv, NEW r \in Routines, YieldSelf(r), Live(r),
         pc'[r] \notin {"unborn", "done"},
         \A x \in Routines : x # r => pc'[x] = pc[x]
  PROVE  Abs!Next
<1>1. /\ occupyRoutine = r /\ occupyRoutine' = Loop
      /\ ActivetaskItems' = AddTask(ActivetaskItems, r)
  BY DEF YieldSelf, SwapContext, UntimedInv, Basic, SwitchInv
<1>2. \A x : In(ActivetaskItems', x) <=> In(ActivetaskItems, x) \/ x = r
  <2>1. ActivetaskItems \in Seq(Routines)
    BY DEF UntimedInv, Basic, TypeOK, SchedTypeOK
  <2> QED BY ONLY <2>1, <1>1, r \in Routines, AppendIn DEF AddTask
<1>3. StatusOf(r) = "running" /\ StatusOf(r)' = "ready"
  <2>1. Live(r)' /\ occupyRoutine' # r /\ In(ActivetaskItems', r)
    BY <1>1, <1>2 DEF Live
  <2> QED BY <1>1, <2>1 DEF StatusOf
<1>4. \A x \in Routines : x # r => /\ In(ActivetaskItems', x) <=> In(ActivetaskItems, x)
                                   /\ pc'[x] = pc[x] /\ occupyRoutine' # x
  BY <1>1, <1>2
<1> QED BY <1>1, <1>3, <1>4, AloneStatus DEF Abs!States

(* wait blocks the caller, or has it spin.                                 *)
LEMMA WaitStatus ==
  ASSUME UntimedInv, NEW r \in Routines, NEW c \in Conds, NEW m \in Mutexes, Wait(r, c, m)
  PROVE  Abs!Next \/ Status' = Status
<1> USE DEF UntimedInv, Basic, TypeOK, SchedTypeOK, SwitchInv
<1>1. CASE UnlockAborts(m)
  BY <1>1 DEF UnlockAborts, schedVars, frameVars, Status, Live
<1>2. CASE ~UnlockAborts(m)
  <2> DEFINE q == WakeFirst(ActivetaskItems, list, m)
  <2>1. /\ Runs(r, "user") /\ occupyRoutine = r /\ occupyRoutine' = Loop
        /\ \/ ActivetaskItems' = q /\ pc' = [pc EXCEPT ![r] = "wait"]
           \/ ActivetaskItems' = AddTask(q, r) /\ pc' = [pc EXCEPT ![r] = "spin"]
    BY <1>2 DEF Wait, Enqueue, Runs, SwapContext
  <2>2. q \in Seq(Routines) /\ ~In(q, r)
    <3>1. ~In(ActivetaskItems, r) /\ ~In(list[m], r)
      BY <2>1, Unqueued
    <3> QED BY <3>1, WokenPlace
  <2> HIDE DEF q
  <2>3. CASE ActivetaskItems' = q /\ pc' = [pc EXCEPT ![r] = "wait"]
    <3>1. pc'[r] = "wait" /\ \A x \in Routines : x # r => pc'[x] = pc[x]
      BY <2>3
    <3>2. StatusOf(r)' = "blocked"
      <4>1. Live(r)' /\ occupyRoutine' # r /\ ~In(ActivetaskItems', r)
        BY <2>1, <2>2, <2>3, <3>1 DEF Live
      <4> QED BY <4>1 DEF StatusOf
    <3>3. \A x \in Routines : x # r => /\ In(ActivetaskItems', x) <=> In(q, x)
                                       /\ pc'[x] = pc[x] /\ occupyRoutine' # x
      BY <2>1, <2>3, <3>1
    <3> QED BY <2>1, <3>2, <3>3, WakeStatus DEF q, Abs!States
  <2>4. CASE ActivetaskItems' = AddTask(q, r) /\ pc' = [pc EXCEPT ![r] = "spin"]
    <3>1. pc'[r] = "spin" /\ \A x \in Routines : x # r => pc'[x] = pc[x]
      BY <2>4
    <3>2. \A x : In(ActivetaskItems', x) <=> In(q, x) \/ x = r
      BY ONLY <2>2, <2>4, r \in Routines, AppendIn DEF AddTask
    <3>3. StatusOf(r)' = "ready"
      <4>1. Live(r)' /\ occupyRoutine' # r /\ In(ActivetaskItems', r)
        BY <2>1, <3>1, <3>2 DEF Live
      <4> QED BY <4>1 DEF StatusOf
    <3>4. \A x \in Routines : x # r => /\ In(ActivetaskItems', x) <=> In(q, x)
                                       /\ pc'[x] = pc[x] /\ occupyRoutine' # x
      BY <2>1, <3>1, <3>2
    <3> QED BY <2>1, <3>3, <3>4, WakeStatus DEF q, Abs!States
  <2> QED BY <2>1, <2>3, <2>4
<1> QED BY <1>1, <1>2


(* signalAll and signalOnce make waiters ready; the caller goes on, or     *)
(* spins.                                                                  *)
LEMMA SignalStatus ==
  ASSUME UntimedInv, NEW r \in Routines, NEW c \in Conds, SignalAll(r, c) \/ SignalOnce(r, c)
  PROVE  Abs!Next \/ Status' = Status
<1> USE DEF UntimedInv, Basic, TypeOK, SchedTypeOK
<1>1. /\ c \in Lists /\ Runs(r, "user") /\ occupyRoutine = r /\ Live(r)
      /\ StatusOf(r) = "running"
  BY DEF SignalAll, SignalOnce, Runs, Live, StatusOf
<1>2. CASE ActivetaskItems' = ActivetaskItems \o list[c] /\ UNCHANGED <<occupyRoutine, pc>>
  <2> DEFINE W == {x \in Routines : In(list[c], x)}
  <2>1. \A x : In(ActivetaskItems', x) <=> In(ActivetaskItems, x) \/ In(list[c], x)
    <3>1. ActivetaskItems \in Seq(Routines) /\ list[c] \in Seq(Routines)
      BY <1>1
    <3> QED BY ONLY <3>1, <1>2, ConcatIn
  <2>2. ASSUME NEW w \in W
        PROVE  StatusOf(w) \in {"blocked", "unborn"} /\ StatusOf(w)' = "ready"
    <3>1. Waits(w) /\ PlaceOf(w) /\ pc[w] = "wait"
      BY <1>1, <2>2 DEF Waits, PlaceInv, PlaceOf
    <3>2. Live(w) /\ occupyRoutine # w /\ ~In(ActivetaskItems, w)
      BY <3>1 DEF PlaceOf, Live
    <3>3. Live(w)' /\ occupyRoutine' # w /\ In(ActivetaskItems', w)
      BY <1>2, <2>1, <2>2, <3>2 DEF Live
    <3> QED BY <3>2, <3>3 DEF StatusOf
  <2>3. ASSUME NEW x \in Routines \ W PROVE StatusOf(x)' = StatusOf(x)
    <3>1. In(ActivetaskItems', x) <=> In(ActivetaskItems, x)
      BY <2>1, <2>3
    <3> QED BY <3>1, <1>2, SameStatus
  <2>4. r \notin W /\ W \in SUBSET Routines
    BY <1>1, Unqueued
  <2> HIDE DEF W
  <2>5. StatusOf(r)' = "running"
    BY <1>1, <2>3, <2>4
  <2> QED BY <1>1, <2>2, <2>3, <2>4, <2>5, ActStatus DEF Abs!States
<1>3. CASE /\ ActivetaskItems' = WakeFirst(ActivetaskItems, list, c)
           /\ UNCHANGED <<occupyRoutine, pc>>
  <2>1. StatusOf(r)' = "running"
    BY <1>1, <1>3 DEF StatusOf, Live
  <2>2. \A x \in Routines : x # r =>
          /\ In(ActivetaskItems', x) <=> In(WakeFirst(ActivetaskItems, list, c), x)
          /\ pc'[x] = pc[x] /\ occupyRoutine' # x
    BY <1>1, <1>3
  <2> QED BY <1>1, <2>1, <2>2, WakeStatus DEF Abs!States
<1>4. CASE UNCHANGED <<schedVars, pc>>
  BY <1>4 DEF schedVars, Status, Live
<1>5. CASE YieldSelf(r) /\ pc' = [pc EXCEPT ![r] = "spin"]
  <2>1. pc'[r] = "spin" /\ \A x \in Routines : x # r => pc'[x] = pc[x]
    BY <1>5
  <2> QED BY <2>1, <1>1, <1>5, YieldStatus
<1> QED BY <1>2, <1>3, <1>4, <1>5 DEF SignalAll, SignalOnce

(* Resume makes the caller ready, and the coroutine it starts.             *)
LEMMA StartStatus ==
  ASSUME UntimedInv, NEW r \in Routines, NEW n \in Routines, Start(r, n)
  PROVE  Abs!Next
<1> USE DEF UntimedInv, Basic, TypeOK, SchedTypeOK, SwitchInv
<1> DEFINE q == AddTask(ActivetaskItems, n)
<1>1. /\ occupyRoutine = r /\ pc[r] = "user" /\ pc[n] = "unborn" /\ r # n
      /\ occupyRoutine' = Loop
      /\ ActivetaskItems' = AddTask(q, r)
      /\ pc' = [pc EXCEPT ![n] = "user"]
  BY DEF Start, Runs, ResumeTarget, SwapContext
<1>2. q \in Seq(Routines) /\ \A x : In(q, x) <=> In(ActivetaskItems, x) \/ x = n
  <2>1. ActivetaskItems \in Seq(Routines)
    OBVIOUS
  <2> QED BY ONLY <2>1, n \in Routines, AppendIn DEF AddTask
<1> HIDE DEF q
<1>3. \A x : In(ActivetaskItems', x) <=> In(q, x) \/ x = r
  BY ONLY <1>1, <1>2, r \in Routines, AppendIn DEF AddTask
<1>4. StatusOf(r) = "running" /\ StatusOf(r)' = "ready"
  <2>1. Live(r) /\ Live(r)' /\ occupyRoutine' # r /\ In(ActivetaskItems', r)
    BY <1>1, <1>3 DEF Live
  <2> QED BY <2>1, <1>1 DEF StatusOf
<1>5. StatusOf(n) = "unborn" /\ StatusOf(n)' = "ready"
  <2>1. ~Live(n) /\ Live(n)' /\ occupyRoutine' # n /\ In(ActivetaskItems', n)
    BY <1>1, <1>2, <1>3 DEF Live
  <2> QED BY <2>1, <1>1 DEF StatusOf
<1>6. ASSUME NEW x \in Routines \ {n}, x # r PROVE StatusOf(x)' = StatusOf(x)
  <2>1. /\ In(ActivetaskItems', x) <=> In(ActivetaskItems, x)
        /\ pc'[x] = pc[x] /\ occupyRoutine' # x /\ occupyRoutine # x
    BY <1>1, <1>2, <1>3, <1>6
  <2> QED BY <2>1, SameStatus
<1>7. {n} \in SUBSET Routines
  OBVIOUS
<1> QED BY <1>4, <1>5, <1>6, <1>7, ActStatus DEF Abs!States

(* A coroutine finishes when it runs.                                      *)
LEMMA FinishStatus ==
  ASSUME UntimedInv, NEW r \in Routines, Finish(r)
  PROVE  Abs!Next
<1>1. /\ occupyRoutine = r /\ pc[r] = "user" /\ occupyRoutine' = Loop
      /\ pc'[r] \in {"unborn", "done"} /\ ActivetaskItems' = ActivetaskItems
      /\ \A x \in Routines : x # r => pc'[x] = pc[x]
  BY DEF Finish, Runs, SwapContext, UntimedInv, Basic, TypeOK, SwitchInv
<1>2. StatusOf(r) = "running" /\ StatusOf(r)' = pc'[r]
  BY <1>1 DEF StatusOf, Live
<1>3. \A x \in Routines : x # r => /\ In(ActivetaskItems', x) <=> In(ActivetaskItems, x)
                                   /\ pc'[x] = pc[x] /\ occupyRoutine' # x
  BY <1>1
<1>4. pc'[r] \in Abs!States
  BY <1>1 DEF Abs!States
<1> QED BY <1>1, <1>2, <1>3, <1>4, AloneStatus

(* At first main() runs and nothing else has begun, as in Coroutines.      *)
LEMMA StatusInit == Init => Abs!Init
<1> SUFFICES ASSUME Init PROVE Abs!Init
  OBVIOUS
<1>1. \A x \in Routines : StatusOf(x) = IF x = Main THEN "running" ELSE "unborn"
  BY DEF Init, StatusOf, Live
<1>2. Status = [x \in Routines |-> StatusOf(x)]
  BY DEF Status, StatusOf
<1> QED BY <1>1, <1>2 DEF Abs!Init

(* Every step of an application without timeWait is a step of Coroutines   *)
(* or leaves every state as it was.                                        *)
LEMMA StatusStep ==
  ASSUME TimedConds = {}
  PROVE  Basic /\ Untimed /\ PlaceInv /\ [Next]_vars => [Abs!Next]_Status
<1> SUFFICES ASSUME UntimedInv, [Next]_vars PROVE Abs!Next \/ Status' = Status
  BY DEF UntimedInv
<1>i. armed = {} /\ \A x \in Routines : pc[x] # "timeWait"
  BY DEF UntimedInv, Untimed
<1>t. pc \in [Routines -> PCs]
  BY DEF UntimedInv, Basic, TypeOK
<1>u. ASSUME UNCHANGED <<schedVars, pc>> PROVE Status' = Status
  BY <1>u DEF schedVars, Status, Live
<1>0. CASE UNCHANGED vars
  BY <1>0, <1>u DEF vars, frameVars
<1>1. CASE LoopDispatch
  BY <1>1, DispatchStatus
<1>2. ASSUME NEW r \in Routines, TimerFires(r) PROVE FALSE
  BY <1>2, <1>i DEF TimerFires
<1>3. ASSUME NEW r \in Routines, Continue(r) PROVE Abs!Next \/ Status' = Status
  <2>1. CASE LockRetry(r)
    <3>1. mtx[r] \in Mutexes /\ occupyRoutine = r /\ Live(r)
      BY <2>1 DEF LockRetry, Runs, Live, UntimedInv, Basic, SwitchInv
    <3> QED BY <2>1, <3>1, TryLockStatus DEF LockRetry
  <2>2. CASE WaitResumed(r)
    <3>1. mtx[r] \in Mutexes /\ occupyRoutine = r /\ Live(r)
      BY <2>2 DEF WaitResumed, Runs, Live, UntimedInv, Basic, SwitchInv
    <3> QED BY <2>2, <3>1, TryLockStatus DEF WaitResumed
  <2>3. ~TimeWaitSignalled(r) /\ ~TimeWaitTimedOut(r)
    BY <1>i DEF TimeWaitSignalled, TimeWaitTimedOut, Runs
  <2>4. CASE Spin(r)
    <3>1. YieldSelf(r) /\ Live(r) /\ pc[r] = "spin" /\ UNCHANGED pc
      BY <2>4 DEF Spin, Runs, Live, frameVars
    <3> QED BY <3>1, YieldStatus
  <2>5. CASE ResumedDead(r)
    BY <2>5, <1>u DEF ResumedDead, frameVars
  <2> QED BY <1>3, <2>1, <2>2, <2>3, <2>4, <2>5 DEF Continue
<1>4. ASSUME NEW r \in Routines, Call(r) PROVE Abs!Next \/ Status' = Status
  <2>1. ASSUME NEW m \in Mutexes, Lock(r, m) PROVE Abs!Next \/ Status' = Status
    BY <2>1, TryLockStatus DEF Lock, Runs, Live
  <2>2. ASSUME NEW m \in Mutexes, Unlock(r, m) PROVE Abs!Next \/ Status' = Status
    <3>1. CASE UnlockAborts(m)
      BY <3>1, <1>u DEF UnlockAborts, frameVars
    <3>2. CASE ~UnlockAborts(m)
      <4>1. /\ m \in Lists /\ Runs(r, "user") /\ occupyRoutine = r
            /\ ActivetaskItems' = WakeFirst(ActivetaskItems, list, m)
            /\ UNCHANGED <<occupyRoutine, pc>>
        BY <2>2, <3>2 DEF Unlock, Runs, frameVars
      <4>2. StatusOf(r)' = "running"
        BY <4>1 DEF StatusOf, Live, Runs
      <4>3. \A x \in Routines : x # r =>
              /\ In(ActivetaskItems', x) <=> In(WakeFirst(ActivetaskItems, list, m), x)
              /\ pc'[x] = pc[x] /\ occupyRoutine' # x
        BY <4>1
      <4> QED BY <4>1, <4>2, <4>3, WakeStatus DEF Abs!States
    <3> QED BY <3>1, <3>2
  <2>3. ASSUME NEW n \in Routines, Start(r, n) PROVE Abs!Next
    BY <2>3, StartStatus
  <2>4. CASE Yield(r)
    <3>1. YieldSelf(r) /\ Live(r) /\ pc[r] = "user" /\ UNCHANGED pc
      BY <2>4 DEF Yield, Runs, Live, frameVars
    <3> QED BY <3>1, YieldStatus
  <2>5. CASE Finish(r)
    BY <2>5, FinishStatus
  <2> QED BY <1>4, <2>1, <2>2, <2>3, <2>4, <2>5, WaitStatus, SignalStatus DEF Call
<1> QED BY <1>0, <1>1, <1>2, <1>3, <1>4 DEF Next

(* Without timeWait the scheduler, the mutexes and the conditions together *)
(* keep the promise of Coroutines: one coroutine runs at a time, only who  *)
(* is blocked is woken, only who is ready is run, and who has finished     *)
(* stays so.                                                               *)
THEOREM CoroutinesImplemented ==
  ASSUME TimedConds = {}
  PROVE  Spec => ImplementsCoroutines
<1>1. Init => Abs!Init
  BY StatusInit
<1>2. Basic /\ Untimed /\ PlaceInv /\ [Next]_vars => [Abs!Next]_Status
  BY StatusStep
<1> QED BY <1>1, <1>2, UntimedInvariant, PTL DEF Spec, ImplementsCoroutines, Abs!Spec
=============================================================================
