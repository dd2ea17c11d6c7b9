------------------------------ MODULE Scheduler ------------------------------
(***************************************************************************)
(* The worker thread of bRoutine: the loop of ProcessBegin, its queue of   *)
(* ready tasks and the context switch (b_scheduler.cc, and AddTask of      *)
(* b_routine_env.cc).  Components extend this module and add what the      *)
(* coroutines do while they occupy the worker.                             *)
(*                                                                         *)
(* There is one worker: CreatMutProcessEnv starts threads 1 .. size - 1,   *)
(* and when it does so only the main thread's worker has registered, so    *)
(* size = 1 (b_routine_env.cc:162).  Between two context switches nothing  *)
(* else of the library runs, so what a coroutine does between two switches *)
(* is one step.                                                            *)
(*                                                                         *)
(* A TaskItem in the ready queue is represented by its field self, the     *)
(* coroutine to resume: ProcessBegin uses nothing else of it.              *)
(***************************************************************************)
EXTENDS Naturals, Sequences

CONSTANTS
  Routines,   \* the bRoutine objects of the application, main's included
  Loop        \* the coroutine that runs ProcessBegin (mainR)

ASSUME LoopAssumption == Loop \notin Routines

VARIABLES
  occupyRoutine,    \* the coroutine executing on the worker
  pendingRoutine,   \* the one the next SwapContext switches to
  ActivetaskItems   \* the worker's queue of ready tasks

schedVars == <<occupyRoutine, pendingRoutine, ActivetaskItems>>

Coroutines == Routines \cup {Loop}

SchedTypeOK ==
  /\ occupyRoutine \in Coroutines
  /\ pendingRoutine \in Coroutines
  /\ ActivetaskItems \in Seq(Routines)

(* r occurs in the queue q. *)
In(q, r) == \E i \in 1 .. Len(q) : q[i] = r

NoDuplicates(q) == \A i, j \in 1 .. Len(q) : q[i] = q[j] => i = j

(***************************************************************************)
(* TaskDistributor_t::AddTask: the task goes to the back of the queue of   *)
(* the only registered scheduler.  (Its throw concerns IsProgress, which   *)
(* no coroutine but Loop has.)                                             *)
(***************************************************************************)
AddTaskInFront(q, r) == <<r>> \o q

AddTask(q, r) == Append(q, r)

(***************************************************************************)
(* bScheduler::SwapContext exchanges the running and the pending           *)
(* coroutine.  (Its first branch runs once, when start-up suspends main.)  *)
(***************************************************************************)
SwapContext ==
  /\ occupyRoutine' = pendingRoutine
  /\ pendingRoutine' = occupyRoutine

(***************************************************************************)
(* ProcessBegin takes the oldest ready task and switches to its coroutine. *)
(* With one scheduler stealTaskRoutine has no victim, and when the queue   *)
(* is empty the loop returns to its top (hangTimeOut lies in the past).    *)
(***************************************************************************)
Dispatch ==
  /\ occupyRoutine = Loop
  /\ ActivetaskItems # <<>>
  /\ occupyRoutine' = Head(ActivetaskItems)
  /\ pendingRoutine' = Loop
  /\ ActivetaskItems' = Tail(ActivetaskItems)

(***************************************************************************)
(* bRoutine::yield: the running coroutine commits itself and switches.     *)
(***************************************************************************)
YieldAfterSwap(r) ==
  /\ occupyRoutine = r
  /\ ActivetaskItems' = AddTask(ActivetaskItems, pendingRoutine)
  /\ SwapContext

YieldSelf(r) ==
  /\ occupyRoutine = r
  /\ ActivetaskItems' = AddTask(ActivetaskItems, r)
  /\ SwapContext

(***************************************************************************)
(* bRoutine::Resume of target called by r: target is committed first, then *)
(* the caller, then the caller switches.                                   *)
(***************************************************************************)
ResumeLosesTarget(r, target) ==
  /\ occupyRoutine = r
  /\ ActivetaskItems' = AddTask(ActivetaskItems, r)
  /\ SwapContext

ResumeTarget(r, target) ==
  /\ occupyRoutine = r
  /\ ActivetaskItems' = AddTask(AddTask(ActivetaskItems, target), r)
  /\ SwapContext
=============================================================================
