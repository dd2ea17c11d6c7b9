------------------------------- MODULE Startup -------------------------------
(***************************************************************************)
(* The start of the library (b_routine_env.cc): bRoutineEnv::get and init  *)
(* create the one environment, CreatMutProcessEnv makes a worker of the    *)
(* thread that created it and starts further ones, and each worker         *)
(* registers a scheduler (registe).                                        *)
(*                                                                         *)
(* Every entry of the library begins with get(), from whatever thread.  A  *)
(* step is at most one access to __bRoutineEnv or to a mutex.  The         *)
(* pointer is a plain variable; x86_64 shows stores in program order.      *)
(***************************************************************************)
EXTENDS Naturals, Sequences, FiniteSets

CONSTANTS
  Threads,        \* the threads of the process
  MaxProcesses,   \* bound of the argument of bRoutineInitProcessNumber
  NoThread

ASSUME StartupAssumption ==
  /\ IsFiniteSet(Threads)
  /\ MaxProcesses \in Nat \ {0}
  /\ NoThread \notin Threads

VARIABLES
  pc,          \* where a thread is in get, init or ProcessBegin
  asked,       \* the argument of its init
  lock,        \* the mutex of init
  env,         \* __bRoutineEnv is not NULL
  capacity,    \* the length of TaskDistributor's two arrays
  schedulers,  \* the registered schedulers, by the thread they belong to
  built,       \* history: the environments made
  unlocked     \* history: those that found env without taking the mutex

vars == <<pc, asked, lock, env, capacity, schedulers, built, unlocked>>

(* out: in the application; ready: get() has returned to it; back: main's  *)
(* coroutine goes on in CreatMutProcessEnv; loop: a worker's loop.         *)
PCs == {"out", "init", "lock", "check", "create", "process", "back", "ready", "loop"}

(* The schedulers fit into the arrays. *)
TypeOK ==
  /\ pc \in [Threads -> PCs]
  /\ asked \in [Threads -> 1 .. MaxProcesses]
  /\ lock \in Threads \cup {NoThread}
  /\ env \in BOOLEAN
  /\ capacity \in Nat
  /\ schedulers \in Seq(Threads)
  /\ Len(schedulers) <= capacity
  /\ built \in Nat
  /\ unlocked \subseteq Threads

Init ==
  /\ pc = [t \in Threads |-> "out"]
  /\ asked = [t \in Threads |-> 1]
  /\ lock = NoThread
  /\ env = FALSE
  /\ capacity = 0
  /\ schedulers = <<>>
  /\ built = 0
  /\ unlocked = {}
-----------------------------------------------------------------------------
Goto(t, place) == pc' = [pc EXCEPT ![t] = place]

(* A look at __bRoutineEnv without the mutex. *)
Look(t, otherwise) ==
  \/ /\ env
     /\ Goto(t, "ready")
     /\ unlocked' = unlocked \cup {t}
  \/ /\ ~env
     /\ Goto(t, otherwise)
     /\ UNCHANGED unlocked

(* get() passes defaultProcess, which is 1. *)
get(t) ==
  /\ pc[t] = "out"
  /\ Look(t, "init")
  /\ asked' = [asked EXCEPT ![t] = 1]
  /\ UNCHANGED <<lock, env, capacity, schedulers, built>>

bRoutineInitProcessNumber(t, n) ==
  /\ pc[t] = "out"
  /\ Goto(t, "init")
  /\ asked' = [asked EXCEPT ![t] = n]
  /\ UNCHANGED <<lock, env, capacity, schedulers, built, unlocked>>

init(t) ==
  /\ pc[t] = "init"
  /\ Look(t, "lock")
  /\ UNCHANGED <<asked, lock, env, capacity, schedulers, built>>

Lock(t) ==
  /\ pc[t] = "lock"
  /\ lock = NoThread
  /\ lock' = t
  /\ Goto(t, "check")
  /\ UNCHANGED <<asked, env, capacity, schedulers, built, unlocked>>

(* Another thread was faster. *)
StaysLocked == lock
Unlocked == NoThread

AlreadyThere(t) ==
  /\ pc[t] = "check"
  /\ env
  /\ lock' = Unlocked
  /\ Goto(t, "ready")
  /\ UNCHANGED <<asked, env, capacity, schedulers, built, unlocked>>

(***************************************************************************)
(* InitializeBRoutineEnv, and its result is published while the mutex is   *)
(* held; size is still 0.                                                  *)
(***************************************************************************)
NotMadeWhenLooked == TRUE
NotMade == ~env

OneSlotShort(n) == n - 1
Slots(n) == n

Released(t) == NoThread
Held(t) == t

InitializeBRoutineEnv(t) ==
  /\ pc[t] = "check"
  /\ NotMade
  /\ capacity' = Slots(asked[t])
  /\ schedulers' = <<>>
  /\ env' = TRUE
  /\ lock' = Held(t)
  /\ built' = built + 1
  /\ Goto(t, "create")
  /\ UNCHANGED <<asked, unlocked>>

(***************************************************************************)
(* CreatMutProcessEnv creates Loop by bRoutine::New, which calls get: that *)
(* must not come to the mutex again.  Then it queues main and switches.    *)
(***************************************************************************)
CreatMutProcessEnv(t) ==
  /\ pc[t] = "create"
  /\ env
  /\ Goto(t, "process")
  /\ UNCHANGED <<asked, lock, env, capacity, schedulers, built, unlocked>>

(***************************************************************************)
(* ProcessBegin registers the scheduler of its thread.  In the creating    *)
(* thread it then finds main in its queue and switches back to it.         *)
(***************************************************************************)
registe(t) ==
  /\ pc[t] = "process"
  /\ schedulers' = Append(schedulers, t)
  /\ Goto(t, IF lock = t THEN "back" ELSE "loop")
  /\ UNCHANGED <<asked, lock, env, capacity, built, unlocked>>

(* Threads 1 .. size - 1 are started, and init returns. *)
AsManyAsAsked == capacity - 1
ToStart == Len(schedulers) - 1

StartThreads(t, new) ==
  /\ pc[t] = "back"
  /\ \A u \in new : pc[u] = "out"
  /\ Cardinality(new) = ToStart
  /\ pc' = [u \in Threads |-> IF u = t THEN "ready"
                              ELSE IF u \in new THEN "process" ELSE pc[u]]
  /\ lock' = NoThread
  /\ UNCHANGED <<asked, env, capacity, schedulers, built, unlocked>>

(* The application goes on, and comes to the library again. *)
Leave(t) ==
  /\ pc[t] = "ready"
  /\ Goto(t, "out")
  /\ unlocked' = unlocked \ {t}
  /\ UNCHANGED <<asked, lock, env, capacity, schedulers, built>>

InLibrary(t) ==
  \/ init(t)
  \/ Lock(t)
  \/ AlreadyThere(t)
  \/ InitializeBRoutineEnv(t)
  \/ CreatMutProcessEnv(t)
  \/ registe(t)
  \/ \E new \in SUBSET Threads : StartThreads(t, new)

Next ==
  \E t \in Threads :
    \/ get(t)
    \/ \E n \in 1 .. MaxProcesses : bRoutineInitProcessNumber(t, n)
    \/ InLibrary(t)
    \/ Leave(t)

Spec == Init /\ [][Next]_vars

(* The system runs every thread; pthread_mutex_lock need not be fair. *)
FairSpec == Spec /\ \A t \in Threads : WF_vars(InLibrary(t))
-----------------------------------------------------------------------------
(***************************************************************************)
(* However many threads come first at once, one environment is made, and   *)
(* it is made once: nobody keeps a pointer to another (init,               *)
(* b_routine_env.cc:169-183).                                              *)
(***************************************************************************)
OneEnvironment == built <= 1

(***************************************************************************)
(* The coroutines of an N:M library run on the M threads asked for: when   *)
(* init has let go of the mutex, as many workers as processes asked for    *)
(* are registered or on their way to it (the loop at b_routine_env.cc:162  *)
(* that starts them).                                                      *)
(***************************************************************************)
Workers == {u \in Threads : pc[u] = "process" \/ \E i \in 1 .. Len(schedulers) : schedulers[i] = u}

ProcessesStarted == env /\ lock = NoThread => Cardinality(Workers) = capacity

(***************************************************************************)
(* What there is instead: that loop counts the schedulers registered so    *)
(* far, which is the creator's own, and starts nobody.  The one worker is  *)
(* the one that module Scheduler has.                                      *)
(***************************************************************************)
SingleWorker == Len(schedulers) <= 1 /\ \A t \in Threads : pc[t] # "loop"

(***************************************************************************)
(* A thread whose get() returned before a worker has registered (so that   *)
(* AddTask would go through a null pointer) is one that did not take the   *)
(* mutex; whoever made the environment or waited for it has a whole one.   *)
(***************************************************************************)
WholeIfLocked ==
  \A t \in Threads : pc[t] = "ready" /\ schedulers = <<>> => t \in unlocked

(***************************************************************************)
(* Every call of init returns: the creator does not lock itself out when   *)
(* it calls get() on its way, and those that wait get the mutex, for none  *)
(* comes to it after the environment is there.                             *)
(***************************************************************************)
EveryCallReturns == \A t \in Threads : pc[t] = "init" ~> pc[t] = "ready"
=============================================================================
