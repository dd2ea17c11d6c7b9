---------------------------- MODULE StartupProofs ----------------------------
(***************************************************************************)
(* Proofs about Startup, for any threads and any number of processes asked *)
(* for: one environment, one worker, and nobody who went through the mutex *)
(* sees the environment half made.                                         *)
(***************************************************************************)
EXTENDS Startup, FiniteSetTheorems, TLAPS

(* The places of init where the mutex is held. *)
Inside == {"check", "create", "process", "back"}

(* Whoever is inside holds the mutex, so one thread at most is inside. *)
InsideHolds == \A t \in Threads : pc[t] \in Inside <=> lock = t

(* Before the environment there is nothing; after it, the one that makes   *)
(* it is on its way to the worker, or the worker has registered.           *)
Progress ==
  /\ built = IF env THEN 1 ELSE 0
  /\ env => capacity >= 1
  /\ ~env => schedulers = <<>> /\ \A t \in Threads : pc[t] \notin {"create", "process", "back", "ready"}
  /\ env => \/ Len(schedulers) = 1
            \/ schedulers = <<>> /\ lock \in Threads /\ pc[lock] \in {"create", "process"}
  /\ \A t \in Threads :
       /\ pc[t] \in {"create", "process"} => schedulers = <<>>
       /\ pc[t] = "back" => Len(schedulers) = 1
       /\ pc[t] # "loop"

Inv == TypeOK /\ InsideHolds /\ Progress /\ WholeIfLocked

(***************************************************************************)
(* After registe of the creator, size is 1 and there is nobody to start.   *)
(***************************************************************************)
LEMMA NoneToStart ==
  ASSUME NEW new \in SUBSET Threads, Len(schedulers) = 1,
         Cardinality(new) = ToStart
  PROVE  new = {}
<1>1. IsFiniteSet(new)
  BY StartupAssumption, FS_Subset
<1>2. Cardinality(new) = 0
  BY DEF ToStart
<1> QED
  BY <1>1, <1>2, FS_EmptySet

(* A sequence without elements has length 0. *)
LEMMA EmptySeq == <<>> \in Seq(Threads) /\ Len(<<>>) = 0
  OBVIOUS

(* At the start nobody is inside. *)
LEMMA InitInv == Init => Inv
<1> SUFFICES ASSUME Init PROVE Inv
  OBVIOUS
<1>1. TypeOK
  <2>1. 1 \in 1 .. MaxProcesses
    BY StartupAssumption
  <2>2. schedulers \in Seq(Threads)
    BY EmptySeq DEF Init
  <2>3. Len(schedulers) = 0 /\ capacity = 0
    BY EmptySeq DEF Init
  <2>4. asked \in [Threads -> 1 .. MaxProcesses]
    BY <2>1 DEF Init
  <2>5. pc \in [Threads -> PCs]
    BY DEF Init, PCs
  <2>6. lock \in Threads \cup {NoThread} /\ env \in BOOLEAN /\ unlocked \subseteq Threads
    BY DEF Init
  <2>7. Len(schedulers) <= capacity /\ capacity \in Nat /\ built \in Nat
    BY <2>3 DEF Init
  <2> QED
    BY <2>2, <2>4, <2>5, <2>6, <2>7 DEF TypeOK
<1>2. InsideHolds
  BY StartupAssumption DEF Init, InsideHolds, Inside
<1>3. Progress
  BY DEF Init, Progress
<1>4. WholeIfLocked
  BY DEF Init, WholeIfLocked
<1> QED
  BY <1>1, <1>2, <1>3, <1>4 DEF Inv

(* Every step of a thread preserves the invariant. *)
LEMMA NextInv == Inv /\ [Next]_vars => Inv'
<1> SUFFICES ASSUME Inv, [Next]_vars PROVE Inv'
  OBVIOUS
<1> USE StartupAssumption
<1>1. ASSUME NEW t \in Threads, get(t) PROVE Inv'
  BY <1>1 DEF get, Look, Goto, Inv, TypeOK, PCs, InsideHolds, Inside, Progress, WholeIfLocked
<1>2. ASSUME NEW t \in Threads, NEW n \in 1 .. MaxProcesses,
             bRoutineInitProcessNumber(t, n)
      PROVE  Inv'
  BY <1>2 DEF bRoutineInitProcessNumber, Goto, Inv, TypeOK, PCs, InsideHolds, Inside,
              Progress, WholeIfLocked
<1>3. ASSUME NEW t \in Threads, init(t) PROVE Inv'
  BY <1>3 DEF init, Look, Goto, Inv, TypeOK, PCs, InsideHolds, Inside, Progress, WholeIfLocked
<1>4. ASSUME NEW t \in Threads, Lock(t) PROVE Inv'
  BY <1>4 DEF Lock, Goto, Inv, TypeOK, PCs, InsideHolds, Inside, Progress, WholeIfLocked
<1>5. ASSUME NEW t \in Threads, AlreadyThere(t) PROVE Inv'
  <2>1. lock = t /\ pc[t] = "check" /\ env
    BY <1>5 DEF AlreadyThere, Inv, InsideHolds, Inside
  <2>2. Len(schedulers) = 1
    BY <2>1 DEF Inv, Progress
  <2>3. schedulers # <<>>
    BY <2>2, EmptySeq
  <2> QED
    BY <1>5, <2>1, <2>2, <2>3
    DEF AlreadyThere, Unlocked, Goto, Inv, TypeOK, PCs, InsideHolds, Inside, Progress,
        WholeIfLocked
<1>6. ASSUME NEW t \in Threads, InitializeBRoutineEnv(t) PROVE Inv'
  BY <1>6 DEF InitializeBRoutineEnv, NotMade, Slots, Held, Goto, Inv, TypeOK, PCs,
              InsideHolds, Inside, Progress, WholeIfLocked
<1>7. ASSUME NEW t \in Threads, CreatMutProcessEnv(t) PROVE Inv'
  BY <1>7 DEF CreatMutProcessEnv, Goto, Inv, TypeOK, PCs, InsideHolds, Inside, Progress,
              WholeIfLocked
<1>8. ASSUME NEW t \in Threads, registe(t) PROVE Inv'
  BY <1>8 DEF registe, Goto, Inv, TypeOK, PCs, InsideHolds, Inside, Progress, WholeIfLocked
<1>9. ASSUME NEW t \in Threads, NEW new \in SUBSET Threads, StartThreads(t, new)
      PROVE  Inv'
  <2>1. Len(schedulers) = 1
    BY <1>9 DEF StartThreads, Inv, Progress
  <2>2. new = {}
    BY <1>9, <2>1, NoneToStart DEF StartThreads
  <2>3. schedulers # <<>>
    BY <2>1, EmptySeq
  <2> QED
    BY <1>9, <2>1, <2>2, <2>3 DEF StartThreads, Inv, TypeOK, PCs, InsideHolds, Inside, Progress,
                            WholeIfLocked
<1>10. ASSUME NEW t \in Threads, Leave(t) PROVE Inv'
  BY <1>10 DEF Leave, Goto, Inv, TypeOK, PCs, InsideHolds, Inside, Progress, WholeIfLocked
<1>11. CASE UNCHANGED vars
  BY <1>11 DEF vars, Inv, TypeOK, InsideHolds, Progress, WholeIfLocked
<1> QED
  BY <1>1, <1>2, <1>3, <1>4, <1>5, <1>6, <1>7, <1>8, <1>9, <1>10, <1>11 DEF Next, InLibrary

(* The conjunction is invariant. *)
LEMMA Invariant == Spec => []Inv
  BY InitInv, NextInv, PTL DEF Spec

(***************************************************************************)
(* TypeOK of Startup, in particular that the schedulers fit into the       *)
(* arrays New allocated for the number asked for (b_routine_env.cc:10-11). *)
(***************************************************************************)
THEOREM StartTypeCorrect == Spec => []TypeOK
<1>1. Inv => TypeOK
  BY DEF Inv
<1> QED
  BY <1>1, Invariant, PTL

(***************************************************************************)
(* The double check of init makes one environment, for any threads.        *)
(***************************************************************************)
THEOREM EnvironmentMadeOnce == Spec => []OneEnvironment
<1>1. Inv => OneEnvironment
  BY DEF Inv, TypeOK, Progress, OneEnvironment
<1> QED
  BY <1>1, Invariant, PTL

(***************************************************************************)
(* One worker, whatever bRoutineInitProcessNumber asks for: the assumption *)
(* that the modules over Scheduler make.                                   *)
(***************************************************************************)
THEOREM OneWorkerOnly == Spec => []SingleWorker
<1>1. Inv => SingleWorker
  <2> SUFFICES ASSUME Inv PROVE SingleWorker
    OBVIOUS
  <2>1. Len(schedulers) \in {0, 1}
    <3>1. CASE schedulers = <<>>
      BY <3>1, EmptySeq
    <3>2. CASE Len(schedulers) = 1
      BY <3>2
    <3> QED
      BY <3>1, <3>2 DEF Inv, TypeOK, Progress
  <2> QED
    BY <2>1 DEF Inv, Progress, SingleWorker
<1> QED
  BY <1>1, Invariant, PTL

(***************************************************************************)
(* Who made the environment or waited for the mutex returns to one that    *)
(* has its worker.                                                         *)
(***************************************************************************)
THEOREM WholeAfterLock == Spec => []WholeIfLocked
<1>1. Inv => WholeIfLocked
  BY DEF Inv
<1> QED
  BY <1>1, Invariant, PTL
=============================================================================
