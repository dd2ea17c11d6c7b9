------------------------------ MODULE Lifecycle ------------------------------
(***************************************************************************)
(* The life of a bRoutine object and of its stack: bRoutine::New, Resume   *)
(* and yield (b_routine.cc), RoutineBegin, deleteSelf and                  *)
(* bRoutineRecycle, the pools of finished routines and of their stacks     *)
(* (b_routine_env.cc), and the deletion that ProcessBegin makes up for     *)
(* when the pool is full (b_scheduler.cc).                                 *)
(*                                                                         *)
(* The application resumes a coroutine once, after New, as every program   *)
(* under testCase/ does.  Loop's own object and stack are never given      *)
(* back and are left out.                                                  *)
(***************************************************************************)
EXTENDS Scheduler, FiniteSets

CONSTANTS
  Main,      \* the coroutine of main(); it runs on the thread's own stack
  Stacks,    \* the bRoutineStack objects
  MaxKeep,   \* Max_Keep_Routines_Thread
  NoStack

Levels == {"Mini", "Medium", "Large"}

ASSUME LifecycleAssumption ==
  /\ Main \in Routines
  /\ MaxKeep \in Nat
  /\ NoStack \notin Stacks

VARIABLES
  phase,                 \* what has become of each bRoutine object
  stack,                 \* bRoutine::stack
  want,                  \* the StackLevel given to New
  size,                  \* the level each mapped stack was made for
  RoutinePool,           \* DoneRoutines, oldest first
  pool,                  \* DoneRoutines{Mini,Medium,Large}Stacks
  RoutineNums,
  IsPendingNeedDelete,
  loopAt                 \* where ProcessBegin is: at its top, or after its switch

poolVars == <<RoutinePool, pool, RoutineNums>>
vars == <<schedVars, phase, stack, want, size, poolVars, IsPendingNeedDelete, loopAt>>

(* absent: not allocated; new: returned by New; live: resumed; done: it    *)
(* has returned and awaits deletion; pooled: in RoutinePool.               *)
Phases == {"absent", "new", "live", "done", "pooled"}

TypeOK ==
  /\ SchedTypeOK
  /\ phase \in [Routines -> Phases]
  /\ stack \in [Routines -> Stacks \cup {NoStack}]
  /\ want \in [Routines -> Levels]
  /\ size \in [Stacks -> Levels \cup {"unmapped"}]
  /\ RoutinePool \in Seq(Routines)
  /\ pool \in [Levels -> Seq(Stacks)]
  /\ RoutineNums \in Nat
  /\ IsPendingNeedDelete \in BOOLEAN
  /\ loopAt \in {"top", "switched"}

Init ==
  /\ occupyRoutine = Main
  /\ pendingRoutine = Loop
  /\ ActivetaskItems = <<>>
  /\ phase = [r \in Routines |-> IF r = Main THEN "live" ELSE "absent"]
  /\ stack = [r \in Routines |-> NoStack]
  /\ want = [r \in Routines |-> "Mini"]
  /\ size = [s \in Stacks |-> "unmapped"]
  /\ RoutinePool = <<>>
  /\ pool = [l \in Levels |-> <<>>]
  /\ RoutineNums = 0
  /\ IsPendingNeedDelete = FALSE
  /\ loopAt = "top"
-----------------------------------------------------------------------------
(* The object that New returns: the oldest pooled one, else a fresh one. *)
TakesRoutine(n) ==
  IF RoutinePool # <<>>
  THEN n = Head(RoutinePool) /\ RoutinePool' = Tail(RoutinePool)
  ELSE phase[n] = "absent" /\ UNCHANGED RoutinePool

(* The stack it gets: the oldest in the list of that level, and then the   *)
(* pool holds one less, else one made for the level.                       *)
PoppedUncounted(level) == RoutineNums
Popped(level) == RoutineNums - 1

TakesStack(s, level) ==
  \/ /\ pool[level] # <<>>
     /\ s = Head(pool[level])
     /\ pool' = [pool EXCEPT ![level] = Tail(@)]
     /\ RoutineNums' = Popped(level)
     /\ UNCHANGED size
  \/ /\ pool[level] = <<>>
     /\ size[s] = "unmapped"
     /\ size' = [size EXCEPT ![s] = level]
     /\ UNCHANGED <<pool, RoutineNums>>

(* bRoutine::New(level, ...) called by r returns n. *)
New(r, n, s, level) ==
  /\ occupyRoutine = r
  /\ TakesRoutine(n)
  /\ TakesStack(s, level)
  /\ phase' = [phase EXCEPT ![n] = "new"]
  /\ stack' = [stack EXCEPT ![n] = s]
  /\ want' = [want EXCEPT ![n] = level]
  /\ UNCHANGED <<schedVars, IsPendingNeedDelete, loopAt>>

Resume(r, n) ==
  /\ phase[n] = "new"
  /\ ResumeTarget(r, n)
  /\ phase' = [phase EXCEPT ![n] = "live"]
  /\ UNCHANGED <<stack, want, size, poolVars, IsPendingNeedDelete, loopAt>>

Yield(r) ==
  /\ YieldSelf(r)
  /\ UNCHANGED <<phase, stack, want, size, poolVars, IsPendingNeedDelete, loopAt>>
-----------------------------------------------------------------------------
(* bUnSharedStackPool_t::push files a stack under its size; the branch for *)
(* the large ones pushes to the list of the small ones.                    *)
ListAbove(s) == IF size[s] = "Mini" THEN "Medium" ELSE "Mini"
ListOf(s) == IF size[s] = "Large" THEN "Mini" ELSE size[s]

(* Recycling gives the stack and the object back, unless the pool is full: *)
(* then the worker's loop is asked to delete the object.                   *)
PushedUncounted == RoutineNums
Pushed == RoutineNums + 1

PoolFullOneLate == RoutineNums > MaxKeep
PoolFull == RoutineNums >= MaxKeep

StackKept(r) == stack[r]
StackCleared(r) == NoStack

FlagForgotten == IsPendingNeedDelete
FlagRaised == TRUE

bRoutineRecycle(r) ==
  \/ /\ ~PoolFull
     /\ pool' = [pool EXCEPT ![ListOf(stack[r])] = Append(@, stack[r])]
     /\ RoutineNums' = Pushed
     /\ stack' = [stack EXCEPT ![r] = StackCleared(r)]
     /\ RoutinePool' = Append(RoutinePool, r)
     /\ phase' = [phase EXCEPT ![r] = "pooled"]
     /\ UNCHANGED IsPendingNeedDelete
  \/ /\ PoolFull
     /\ IsPendingNeedDelete' = FlagRaised
     /\ phase' = [phase EXCEPT ![r] = "done"]
     /\ UNCHANGED <<stack, poolVars>>

(* RoutineBegin after func, and deleteSelf: recycle, then switch for good. *)
Finish(r) ==
  /\ occupyRoutine = r
  /\ r # Main
  /\ bRoutineRecycle(r)
  /\ SwapContext
  /\ UNCHANGED <<ActivetaskItems, want, size, loopAt>>

(* deleteSelf called by main: bRoutineRecycle returns at once. *)
FinishMain ==
  /\ occupyRoutine = Main
  /\ phase' = [phase EXCEPT ![Main] = "done"]
  /\ SwapContext
  /\ UNCHANGED <<ActivetaskItems, stack, want, size, poolVars, IsPendingNeedDelete, loopAt>>

(* ProcessBegin after its switch: if asked to, it deletes the coroutine it *)
(* came from (never main): its object is freed and its stack unmapped.     *)
FlagKept == IsPendingNeedDelete
FlagCleared == FALSE

LoopResumed ==
  /\ occupyRoutine = Loop
  /\ loopAt = "switched"
  /\ loopAt' = "top"
  /\ IsPendingNeedDelete' = FlagCleared
  /\ LET deleted == IF IsPendingNeedDelete THEN {pendingRoutine} \ {Main} ELSE {}
     IN  /\ phase' = [r \in Routines |-> IF r \in deleted THEN "absent" ELSE phase[r]]
         /\ stack' = [r \in Routines |-> IF r \in deleted THEN NoStack ELSE stack[r]]
         /\ size' = [s \in Stacks |-> IF \E r \in deleted : stack[r] = s
                                      THEN "unmapped" ELSE size[s]]
  /\ UNCHANGED <<schedVars, want, poolVars>>

LoopDispatch ==
  /\ loopAt = "top"
  /\ Dispatch
  /\ loopAt' = "switched"
  /\ UNCHANGED <<phase, stack, want, size, poolVars, IsPendingNeedDelete>>

Next ==
  \/ LoopDispatch
  \/ LoopResumed
  \/ FinishMain
  \/ \E r \in Routines :
       \/ Yield(r)
       \/ Finish(r)
       \/ \E n \in Routines : Resume(r, n)
       \/ \E n \in Routines, s \in Stacks, l \in Levels : New(r, n, s, l)

Spec == Init /\ [][Next]_vars
-----------------------------------------------------------------------------
Pooled(s) == \E l \in Levels : In(pool[l], s)

(***************************************************************************)
(* A stack has one owner: it belongs to one object or stands once in one   *)
(* list of the pool, and exactly then it is mapped; no coroutine gets a    *)
(* stack another still runs on, and none is lost.                          *)
(***************************************************************************)
StackHasOneOwner ==
  /\ \A r, q \in Routines : stack[r] = stack[q] /\ stack[r] # NoStack => r = q
  /\ \A r \in Routines : stack[r] # NoStack => ~Pooled(stack[r])
  /\ \A l \in Levels : NoDuplicates(pool[l])
  /\ \A l, k \in Levels, s \in Stacks : In(pool[l], s) /\ In(pool[k], s) => l = k
  /\ \A s \in Stacks :
       size[s] # "unmapped" <=> Pooled(s) \/ \E r \in Routines : stack[r] = s

(***************************************************************************)
(* The worker never touches an object that was given back or freed: those  *)
(* that run or wait in the queue are live, each once, and those that own a *)
(* stack are the ones that can still need it.                              *)
(***************************************************************************)
NoDanglingRoutine ==
  /\ NoDuplicates(ActivetaskItems)
  /\ NoDuplicates(RoutinePool)
  /\ \A r \in Routines :
       /\ In(ActivetaskItems, r) => phase[r] = "live" /\ occupyRoutine # r
       /\ occupyRoutine = r => phase[r] = "live"
       /\ In(RoutinePool, r) <=> phase[r] = "pooled"
       /\ r # Main => (stack[r] # NoStack <=> phase[r] \in {"new", "live", "done"})

(***************************************************************************)
(* A deletion reaches the coroutine that asked for it: when the flag is    *)
(* set the loop runs, and the coroutine it switched from has finished and  *)
(* was not given back.  Nobody else waits to be deleted.                   *)
(***************************************************************************)
DeletesTheFinished ==
  \A r \in Routines \ {Main} :
    phase[r] = "done" <=>
      IsPendingNeedDelete /\ occupyRoutine = Loop /\ pendingRoutine = r

(***************************************************************************)
(* The pools stay within Max_Keep_Routines_Thread: RoutineNums counts the  *)
(* stacks in them, and there are never more objects than stacks.           *)
(***************************************************************************)
PoolsBounded ==
  /\ RoutineNums = Len(pool["Mini"]) + Len(pool["Medium"]) + Len(pool["Large"])
  /\ RoutineNums <= MaxKeep
  /\ Len(RoutinePool) <= RoutineNums

(***************************************************************************)
(* A coroutine never runs on a stack smaller than it asked for, of 128 KB, *)
(* 1 MB and 4 MB (b_stack.h:9-15), for all that a large one is filed with  *)
(* the small ones (b_routine_env.cc:106) and then wasted on them.          *)
(***************************************************************************)
StackLargeEnough ==
  \A r \in Routines :
    stack[r] # NoStack => size[stack[r]] \in {want[r], "Large"}
=============================================================================
