---------------------------- MODULE LifecycleProofs ----------------------------
(***************************************************************************)
(* Proofs about Lifecycle for any coroutines, stacks and MaxKeep.          *)
(***************************************************************************)
EXTENDS Lifecycle, QueueLemmas, Integers

USE LoopAssumption, LifecycleAssumption DEF Levels

(* Where the worker is.  While a coroutine runs, the next switch leads to  *)
(* the loop; one that may be recycled was dispatched by the loop, which    *)
(* therefore stands behind its switch; and a deletion asked for is the     *)
(* next thing the loop does.                                               *)
WorkerInv ==
  /\ occupyRoutine # Loop => pendingRoutine = Loop
  /\ occupyRoutine \in Routines \ {Main} => loopAt = "switched"
  /\ IsPendingNeedDelete => /\ occupyRoutine = Loop
                            /\ loopAt = "switched"
                            /\ pendingRoutine \in Routines \ {Main}

(* main() is neither recycled nor deleted: it has no stack of the pool's.  *)
MainInv ==
  /\ phase[Main] \in {"live", "done"}
  /\ stack[Main] = NoStack

(* A list holds stacks of its own level, and large ones.                   *)
FiledInv == \A l \in Levels, s \in Stacks : In(pool[l], s) => size[s] \in {l, "Large"}

Inv ==
  /\ TypeOK /\ WorkerInv /\ MainInv /\ FiledInv
  /\ StackHasOneOwner /\ NoDanglingRoutine /\ DeletesTheFinished
  /\ PoolsBounded /\ StackLargeEnough

(* What New takes from RoutinePool is nobody's, and there is one less.     *)
LEMMA RoutineTaken ==
  ASSUME Inv, NEW n \in Routines, TakesRoutine(n)
  PROVE  /\ n # Main /\ phase[n] \in {"absent", "pooled"} /\ stack[n] = NoStack
         /\ RoutinePool' \in Seq(Routines)
         /\ NoDuplicates(RoutinePool')
         /\ \A x \in Routines : In(RoutinePool', x) <=> In(RoutinePool, x) /\ x # n
         /\ IF RoutinePool = <<>> THEN Len(RoutinePool') = 0
                                  ELSE Len(RoutinePool') = Len(RoutinePool) - 1
<1>1. /\ RoutinePool \in Seq(Routines) /\ NoDuplicates(RoutinePool)
      /\ \A r \in Routines : In(RoutinePool, r) <=> phase[r] = "pooled"
  BY DEF Inv, TypeOK, NoDanglingRoutine
<1>2. CASE RoutinePool # <<>>
  <2>1. n = Head(RoutinePool) /\ RoutinePool' = Tail(RoutinePool)
    BY <1>2 DEF TakesRoutine
  <2>2. /\ Tail(RoutinePool) \in Seq(Routines)
        /\ \A x : In(RoutinePool, x) <=> In(Tail(RoutinePool), x) \/ x = Head(RoutinePool)
        /\ NoDuplicates(Tail(RoutinePool)) /\ ~In(Tail(RoutinePool), Head(RoutinePool))
    BY <1>1, <1>2, TailIn
  <2>3. Len(Tail(RoutinePool)) = Len(RoutinePool) - 1
    BY <1>1, <1>2
  <2>4. phase[n] = "pooled"
    BY <1>1, <2>1, <2>2
  <2>5. n # Main /\ stack[n] = NoStack
    BY <2>4 DEF Inv, MainInv, NoDanglingRoutine
  <2> QED BY <1>1, <1>2, <2>1, <2>2, <2>3, <2>4, <2>5
<1>3. CASE RoutinePool = <<>>
  <2>1. phase[n] = "absent" /\ RoutinePool' = RoutinePool
    BY <1>3 DEF TakesRoutine
  <2>2. n # Main /\ stack[n] = NoStack
    BY <2>1 DEF Inv, MainInv, NoDanglingRoutine
  <2>3. ~In(RoutinePool, n) /\ Len(RoutinePool) = 0
    BY <1>3 DEF In
  <2> QED BY <1>1, <1>3, <2>1, <2>2, <2>3
<1> QED BY <1>2, <1>3

(* The number of stacks in the pool. *)
Pools(p) == Len(p["Mini"]) + Len(p["Medium"]) + Len(p["Large"])

(* Appending to one of the three lists, or taking the first of one, is one *)
(* stack more or less in all of them.                                      *)
LEMMA PoolsCounted ==
  ASSUME NEW p \in [Levels -> Seq(Stacks)], NEW l \in Levels, NEW s \in Stacks
  PROVE  /\ Pools(p) \in Nat
         /\ Pools([p EXCEPT ![l] = Append(@, s)]) = Pools(p) + 1
         /\ p[l] # <<>> => Pools([p EXCEPT ![l] = Tail(@)]) = Pools(p) - 1 /\ Pools(p) > 0
<1>1. p["Mini"] \in Seq(Stacks) /\ p["Medium"] \in Seq(Stacks) /\ p["Large"] \in Seq(Stacks)
  OBVIOUS
<1>2. Len(p["Mini"]) \in Nat /\ Len(p["Medium"]) \in Nat /\ Len(p["Large"]) \in Nat
  BY <1>1
<1>3. Len(Append(p[l], s)) = Len(p[l]) + 1
  OBVIOUS
<1>4. p[l] # <<>> => Len(Tail(p[l])) = Len(p[l]) - 1 /\ Len(p[l]) > 0
  OBVIOUS
<1>5. ASSUME NEW q, NEW k \in Int, Len(q) = Len(p[l]) + k
      PROVE  Pools([p EXCEPT ![l] = q]) = Pools(p) + k
  <2>1. CASE l = "Mini"
    BY <1>2, <1>5, <2>1 DEF Pools
  <2>2. CASE l = "Medium"
    BY <1>2, <1>5, <2>2 DEF Pools
  <2>3. CASE l = "Large"
    BY <1>2, <1>5, <2>3 DEF Pools
  <2> QED BY <2>1, <2>2, <2>3
<1>6. Pools([p EXCEPT ![l] = Append(@, s)]) = Pools(p) + 1
  <2>1. 1 \in Int
    OBVIOUS
  <2> QED BY <1>3, <1>5, <2>1
<1>7. p[l] # <<>> => Pools([p EXCEPT ![l] = Tail(@)]) = Pools(p) - 1
  <2>1. p[l] # <<>> => Len(Tail(p[l])) = Len(p[l]) + (-1)
    BY <1>2, <1>4
  <2>2. -1 \in Int
    OBVIOUS
  <2>3. Pools(p) \in Int
    BY <1>2 DEF Pools
  <2> QED BY <2>1, <2>2, <2>3, <1>5
<1>8. p[l] # <<>> => Pools(p) > 0
  BY <1>2, <1>4 DEF Pools
<1>9. Pools(p) \in Nat
  BY <1>2 DEF Pools
<1> QED BY <1>6, <1>7, <1>8, <1>9

(* The stack that New takes was in the pool or is made now; nobody has it, *)
(* it is large enough, and the count follows.                              *)
LEMMA StackTaken ==
  ASSUME Inv, NEW s \in Stacks, NEW level \in Levels, TakesStack(s, level)
  PROVE  /\ pool' \in [Levels -> Seq(Stacks)]
         /\ size' \in [Stacks -> Levels \cup {"unmapped"}]
         /\ \A l \in Levels, x \in Stacks : In(pool'[l], x) <=> In(pool[l], x) /\ x # s
         /\ \A l \in Levels : NoDuplicates(pool'[l])
         /\ \A r \in Routines : stack[r] # s
         /\ size'[s] \in {level, "Large"}
         /\ \A x \in Stacks : x # s => size'[x] = size[x]
         /\ RoutineNums' \in Nat /\ RoutineNums' = Pools(pool')
         /\ RoutineNums' \in {RoutineNums, RoutineNums - 1}
<1>1. /\ pool \in [Levels -> Seq(Stacks)] /\ size \in [Stacks -> Levels \cup {"unmapped"}]
      /\ stack \in [Routines -> Stacks \cup {NoStack}]
      /\ RoutineNums \in Nat /\ RoutineNums = Pools(pool)
      /\ \A l \in Levels : NoDuplicates(pool[l])
      /\ \A l, k \in Levels, x \in Stacks : In(pool[l], x) /\ In(pool[k], x) => l = k
      /\ \A r \in Routines, l \in Levels : stack[r] # NoStack => ~In(pool[l], stack[r])
      /\ \A x \in Stacks :
           size[x] # "unmapped" <=> Pooled(x) \/ \E r \in Routines : stack[r] = x
      /\ FiledInv
  BY DEF Inv, TypeOK, StackHasOneOwner, PoolsBounded, Pooled, Pools
<1>2. pool[level] \in Seq(Stacks)
  BY <1>1
<1>3. CASE pool[level] # <<>>
  <2>1. /\ s = Head(pool[level])
        /\ pool' = [pool EXCEPT ![level] = Tail(@)]
        /\ RoutineNums' = RoutineNums - 1
        /\ size' = size
    BY <1>3 DEF TakesStack, Popped
  <2>2. /\ Tail(pool[level]) \in Seq(Stacks)
        /\ \A x : In(pool[level], x) <=> In(Tail(pool[level]), x) \/ x = s
        /\ NoDuplicates(Tail(pool[level])) /\ ~In(Tail(pool[level]), s)
    BY <1>1, <1>2, <1>3, <2>1, TailIn
  <2>3. /\ pool' \in [Levels -> Seq(Stacks)]
        /\ pool'[level] = Tail(pool[level])
        /\ \A l \in Levels : l # level => pool'[l] = pool[l]
    BY <1>1, <2>1, <2>2
  <2>4. \A l \in Levels, x \in Stacks : In(pool'[l], x) <=> In(pool[l], x) /\ x # s
    BY <1>1, <2>2, <2>3
  <2>5. \A l \in Levels : NoDuplicates(pool'[l])
    BY <1>1, <2>2, <2>3
  <2>6. \A r \in Routines : stack[r] # s
    BY <1>1, <2>2
  <2>7. size[s] \in {level, "Large"}
    BY <1>1, <2>2 DEF FiledInv
  <2>8. RoutineNums' \in Nat /\ RoutineNums' = Pools(pool')
    <3>1. /\ Pools([pool EXCEPT ![level] = Tail(@)]) = Pools(pool) - 1
          /\ Pools(pool) > 0 /\ Pools(pool) \in Nat
      BY <1>1, <1>3, PoolsCounted
    <3> QED BY <1>1, <2>1, <3>1
  <2> QED BY <1>1, <2>1, <2>3, <2>4, <2>5, <2>6, <2>7, <2>8
<1>4. CASE pool[level] = <<>>
  <2>1. /\ size[s] = "unmapped"
        /\ size' = [size EXCEPT ![s] = level]
        /\ pool' = pool /\ RoutineNums' = RoutineNums
    BY <1>4 DEF TakesStack
  <2>2. (\A l \in Levels : ~In(pool[l], s)) /\ (\A r \in Routines : stack[r] # s)
    BY <1>1, <2>1 DEF Pooled
  <2>3. \A l \in Levels, x \in Stacks : In(pool'[l], x) <=> In(pool[l], x) /\ x # s
    BY <2>1, <2>2
  <2> QED BY <1>1, <2>1, <2>2, <2>3
<1> QED BY <1>3, <1>4

(* New gives out an object and a stack that nobody had.                    *)
LEMMA NewStep ==
  ASSUME Inv, NEW r \in Routines, NEW n \in Routines, NEW s \in Stacks, NEW level \in Levels,
         New(r, n, s, level)
  PROVE  Inv'
<1>1. /\ occupyRoutine = r /\ TakesRoutine(n) /\ TakesStack(s, level)
      /\ phase' = [phase EXCEPT ![n] = "new"]
      /\ stack' = [stack EXCEPT ![n] = s]
      /\ want' = [want EXCEPT ![n] = level]
      /\ UNCHANGED <<occupyRoutine, pendingRoutine, ActivetaskItems, IsPendingNeedDelete, loopAt>>
  BY DEF New, schedVars
<1>n. /\ n # Main /\ phase[n] \in {"absent", "pooled"} /\ stack[n] = NoStack
      /\ RoutinePool' \in Seq(Routines)
      /\ NoDuplicates(RoutinePool')
      /\ \A x \in Routines : In(RoutinePool', x) <=> In(RoutinePool, x) /\ x # n
      /\ IF RoutinePool = <<>> THEN Len(RoutinePool') = 0
                               ELSE Len(RoutinePool') = Len(RoutinePool) - 1
  BY <1>1, RoutineTaken
<1>s. /\ pool' \in [Levels -> Seq(Stacks)]
      /\ size' \in [Stacks -> Levels \cup {"unmapped"}]
      /\ \A l \in Levels, x \in Stacks : In(pool'[l], x) <=> In(pool[l], x) /\ x # s
      /\ \A l \in Levels : NoDuplicates(pool'[l])
      /\ \A q \in Routines : stack[q] # s
      /\ size'[s] \in {level, "Large"}
      /\ \A x \in Stacks : x # s => size'[x] = size[x]
      /\ RoutineNums' \in Nat /\ RoutineNums' = Pools(pool')
      /\ RoutineNums' \in {RoutineNums, RoutineNums - 1}
  BY <1>1, StackTaken
<1>t. TypeOK
  BY DEF Inv
<1>f. /\ \A q \in Routines : phase'[q] = IF q = n THEN "new" ELSE phase[q]
      /\ \A q \in Routines : stack'[q] = IF q = n THEN s ELSE stack[q]
      /\ \A q \in Routines : want'[q] = IF q = n THEN level ELSE want[q]
  BY <1>1, <1>t DEF TypeOK
<1>2. TypeOK'
  BY <1>1, <1>n, <1>s, <1>t DEF TypeOK, SchedTypeOK, Phases
<1>3. WorkerInv' /\ MainInv'
  BY <1>1, <1>n, <1>f DEF Inv, WorkerInv, MainInv
<1>4. FiledInv'
  BY <1>s DEF Inv, FiledInv
<1>5. StackHasOneOwner'
  <2>1. /\ \A a, b \in Routines : stack[a] = stack[b] /\ stack[a] # NoStack => a = b
        /\ \A a \in Routines, l \in Levels : stack[a] # NoStack => ~In(pool[l], stack[a])
        /\ \A l, k \in Levels, x \in Stacks : In(pool[l], x) /\ In(pool[k], x) => l = k
        /\ \A x \in Stacks : size[x] # "unmapped"
             <=> (\E l \in Levels : In(pool[l], x)) \/ \E a \in Routines : stack[a] = x
        /\ \A a \in Routines : stack[a] \in Stacks \cup {NoStack}
    BY <1>t DEF Inv, StackHasOneOwner, Pooled, TypeOK
  <2>2. \A a, b \in Routines : stack'[a] = stack'[b] /\ stack'[a] # NoStack => a = b
    BY <2>1, <1>f, <1>s
  <2>3. \A a \in Routines, l \in Levels : stack'[a] # NoStack => ~In(pool'[l], stack'[a])
    BY <2>1, <1>f, <1>s
  <2>4. \A l, k \in Levels, x \in Stacks : In(pool'[l], x) /\ In(pool'[k], x) => l = k
    BY <2>1, <1>s
  <2>5. ASSUME NEW x \in Stacks
        PROVE  size'[x] # "unmapped"
                 <=> (\E l \in Levels : In(pool'[l], x)) \/ \E a \in Routines : stack'[a] = x
    <3>1. CASE x = s
      BY <3>1, <1>f, <1>s
    <3>2. CASE x # s
      <4>1. (\E a \in Routines : stack'[a] = x) <=> \E a \in Routines : stack[a] = x
        BY <3>2, <1>f, <1>n
      <4> QED BY <3>2, <4>1, <2>1, <1>s
    <3> QED BY <3>1, <3>2
  <2> QED BY <1>s, <2>2, <2>3, <2>4, <2>5 DEF StackHasOneOwner, Pooled
<1>6. NoDanglingRoutine'
  BY <1>1, <1>n, <1>s, <1>f DEF Inv, NoDanglingRoutine
<1>7. DeletesTheFinished'
  BY <1>1, <1>n, <1>f DEF Inv, DeletesTheFinished
<1>8. PoolsBounded'
  <2>1. RoutineNums \in Nat /\ RoutineNums <= MaxKeep /\ Len(RoutinePool) <= RoutineNums
        /\ Len(RoutinePool) \in Nat
    BY <1>t DEF Inv, PoolsBounded, TypeOK
  <2> QED BY <2>1, <1>n, <1>s DEF PoolsBounded, Pools
<1>9. StackLargeEnough'
  <2>1. \A q \in Routines : stack[q] \in Stacks \cup {NoStack}
    BY <1>t DEF TypeOK
  <2> QED BY <2>1, <1>f, <1>s DEF Inv, StackLargeEnough
<1> QED BY <1>2, <1>3, <1>4, <1>5, <1>6, <1>7, <1>8, <1>9 DEF Inv

(* Resume, yield, the loop's dispatch and main's end move coroutines about *)
(* and leave the pools and the stacks alone.                               *)
LEMMA PoolsUntouched ==
  ASSUME Inv, UNCHANGED <<stack, want, size, poolVars>>
  PROVE  FiledInv' /\ StackHasOneOwner' /\ PoolsBounded' /\ StackLargeEnough'
<1> USE DEF Inv, poolVars
<1>1. FiledInv'
  BY DEF FiledInv
<1>2. StackHasOneOwner'
  BY DEF StackHasOneOwner, Pooled
<1>3. PoolsBounded'
  BY DEF PoolsBounded
<1>4. StackLargeEnough'
  BY DEF StackLargeEnough
<1> QED BY <1>1, <1>2, <1>3, <1>4

(* The new coroutine and its creator are queued; neither was.              *)
LEMMA ResumeStep ==
  ASSUME Inv, NEW r \in Routines, NEW n \in Routines, Resume(r, n)
  PROVE  Inv'
<1>1. /\ phase[n] = "new" /\ occupyRoutine = r
      /\ ActivetaskItems' = AddTask(AddTask(ActivetaskItems, n), r)
      /\ occupyRoutine' = pendingRoutine /\ pendingRoutine' = occupyRoutine
      /\ phase' = [phase EXCEPT ![n] = "live"]
      /\ UNCHANGED <<stack, want, size, poolVars, IsPendingNeedDelete, loopAt>>
  BY DEF Resume, ResumeTarget, SwapContext
<1>t. TypeOK /\ r # Loop /\ pendingRoutine = Loop
  BY <1>1 DEF Inv, WorkerInv
<1>m. n # Main /\ n # r /\ ~In(ActivetaskItems, n) /\ ~In(ActivetaskItems, r) /\ ~IsPendingNeedDelete
  BY <1>1, <1>t DEF Inv, MainInv, NoDanglingRoutine, WorkerInv
<1>q. /\ ActivetaskItems' \in Seq(Routines)
      /\ NoDuplicates(ActivetaskItems')
      /\ \A x : In(ActivetaskItems', x) <=> In(ActivetaskItems, x) \/ x = n \/ x = r
  <2> DEFINE q == AddTask(ActivetaskItems, n)
  <2>1. /\ q \in Seq(Routines)
        /\ \A x : In(q, x) <=> In(ActivetaskItems, x) \/ x = n
        /\ NoDuplicates(q)
    <3>1. ActivetaskItems \in Seq(Routines) /\ NoDuplicates(ActivetaskItems)
      BY DEF Inv, TypeOK, SchedTypeOK, NoDanglingRoutine
    <3> QED BY <3>1, <1>m, AppendIn DEF AddTask
  <2> HIDE DEF q
  <2>2. /\ AddTask(q, r) \in Seq(Routines)
        /\ \A x : In(AddTask(q, r), x) <=> In(q, x) \/ x = r
        /\ NoDuplicates(AddTask(q, r))
    BY <2>1, <1>m, AppendIn DEF AddTask
  <2>3. ActivetaskItems' = AddTask(q, r)
    BY <1>1 DEF q
  <2> QED BY <2>1, <2>2, <2>3
<1>f. \A x \in Routines : phase'[x] = IF x = n THEN "live" ELSE phase[x]
  BY <1>1, <1>t DEF TypeOK
<1>2. TypeOK'
  BY <1>1, <1>q, <1>t DEF TypeOK, SchedTypeOK, Phases, poolVars
<1>3. WorkerInv' /\ MainInv'
  BY <1>1, <1>t, <1>m, <1>f DEF Inv, WorkerInv, MainInv
<1>4. NoDanglingRoutine'
  BY <1>1, <1>t, <1>q, <1>m, <1>f DEF Inv, NoDanglingRoutine, poolVars
<1>5. DeletesTheFinished'
  BY <1>1, <1>t, <1>m, <1>f DEF Inv, DeletesTheFinished
<1> QED BY <1>1, <1>2, <1>3, <1>4, <1>5, PoolsUntouched DEF Inv

(* The coroutine that yields is queued; it was not.                        *)
LEMMA YieldStep ==
  ASSUME Inv, NEW r \in Routines, Yield(r)
  PROVE  Inv'
<1>1. /\ occupyRoutine = r
      /\ ActivetaskItems' = AddTask(ActivetaskItems, r)
      /\ occupyRoutine' = pendingRoutine /\ pendingRoutine' = occupyRoutine
      /\ UNCHANGED <<phase, stack, want, size, poolVars, IsPendingNeedDelete, loopAt>>
  BY DEF Yield, YieldSelf, SwapContext
<1>t. TypeOK /\ r # Loop /\ pendingRoutine = Loop
  BY <1>1 DEF Inv, WorkerInv
<1>m. ~In(ActivetaskItems, r) /\ ~IsPendingNeedDelete
  BY <1>1, <1>t DEF Inv, NoDanglingRoutine, WorkerInv
<1>q. /\ ActivetaskItems' \in Seq(Routines)
      /\ NoDuplicates(ActivetaskItems')
      /\ \A x : In(ActivetaskItems', x) <=> In(ActivetaskItems, x) \/ x = r
  <2>1. ActivetaskItems \in Seq(Routines) /\ NoDuplicates(ActivetaskItems)
    BY DEF Inv, TypeOK, SchedTypeOK, NoDanglingRoutine
  <2> QED BY <1>1, <1>m, <2>1, AppendIn DEF AddTask
<1>2. TypeOK'
  BY <1>1, <1>q, <1>t DEF TypeOK, SchedTypeOK, poolVars
<1>3. WorkerInv' /\ MainInv'
  BY <1>1, <1>t, <1>m DEF Inv, WorkerInv, MainInv
<1>4. NoDanglingRoutine'
  BY <1>1, <1>t, <1>q DEF Inv, NoDanglingRoutine, poolVars
<1>5. DeletesTheFinished'
  BY <1>1, <1>t, <1>m DEF Inv, DeletesTheFinished
<1> QED BY <1>1, <1>2, <1>3, <1>4, <1>5, PoolsUntouched DEF Inv

(* The coroutine dispatched was queued once and is live; no deletion is    *)
(* outstanding, for the loop would have seen to it first.                  *)
LEMMA DispatchStep ==
  ASSUME Inv, LoopDispatch
  PROVE  Inv'
<1> DEFINE r == Head(ActivetaskItems)
<1>1. /\ loopAt = "top" /\ loopAt' = "switched"
      /\ occupyRoutine = Loop /\ ActivetaskItems # <<>>
      /\ occupyRoutine' = r /\ pendingRoutine' = Loop
      /\ ActivetaskItems' = Tail(ActivetaskItems)
      /\ UNCHANGED <<phase, stack, want, size, poolVars, IsPendingNeedDelete>>
  BY DEF LoopDispatch, Dispatch
<1>q. /\ ActivetaskItems' \in Seq(Routines) /\ r \in Routines
      /\ NoDuplicates(ActivetaskItems') /\ ~In(ActivetaskItems', r)
      /\ \A x : In(ActivetaskItems, x) <=> In(ActivetaskItems', x) \/ x = r
  <2>1. ActivetaskItems \in Seq(Routines) /\ NoDuplicates(ActivetaskItems)
    BY DEF Inv, TypeOK, SchedTypeOK, NoDanglingRoutine
  <2> QED BY <1>1, <2>1, TailIn
<1> HIDE DEF r
<1>m. TypeOK /\ ~IsPendingNeedDelete /\ r # Loop
  BY <1>1, <1>q DEF Inv, WorkerInv
<1>2. TypeOK'
  BY <1>1, <1>q, <1>m DEF TypeOK, SchedTypeOK, Coroutines, poolVars
<1>3. WorkerInv' /\ MainInv'
  BY <1>1, <1>q, <1>m DEF Inv, WorkerInv, MainInv
<1>4. NoDanglingRoutine'
  BY <1>1, <1>q, <1>m DEF Inv, NoDanglingRoutine, poolVars
<1>5. DeletesTheFinished'
  BY <1>1, <1>q, <1>m DEF Inv, DeletesTheFinished
<1> QED BY <1>1, <1>2, <1>3, <1>4, <1>5, PoolsUntouched DEF Inv

(* main() ends: it is never queued again and nothing of it is given back.  *)
LEMMA FinishMainStep ==
  ASSUME Inv, FinishMain
  PROVE  Inv'
<1>1. /\ occupyRoutine = Main
      /\ phase' = [phase EXCEPT ![Main] = "done"]
      /\ occupyRoutine' = pendingRoutine /\ pendingRoutine' = occupyRoutine
      /\ UNCHANGED <<ActivetaskItems, stack, want, size, poolVars, IsPendingNeedDelete, loopAt>>
  BY DEF FinishMain, SwapContext
<1>t. TypeOK /\ Main # Loop /\ pendingRoutine = Loop
  BY <1>1 DEF Inv, WorkerInv
<1>m. ~In(ActivetaskItems, Main) /\ ~IsPendingNeedDelete /\ phase[Main] = "live"
  BY <1>1, <1>t DEF Inv, NoDanglingRoutine, WorkerInv
<1>f. \A x \in Routines : phase'[x] = IF x = Main THEN "done" ELSE phase[x]
  BY <1>1, <1>t DEF TypeOK
<1>2. TypeOK'
  BY <1>1, <1>t DEF TypeOK, SchedTypeOK, Phases, poolVars
<1>3. WorkerInv' /\ MainInv'
  BY <1>1, <1>t, <1>m, <1>f DEF Inv, WorkerInv, MainInv
<1>4. NoDanglingRoutine'
  BY <1>1, <1>t, <1>m, <1>f DEF Inv, NoDanglingRoutine, poolVars
<1>5. DeletesTheFinished'
  BY <1>1, <1>t, <1>m, <1>f DEF Inv, DeletesTheFinished
<1> QED BY <1>1, <1>2, <1>3, <1>4, <1>5, PoolsUntouched DEF Inv

(* What a coroutine that ends hands back is its own, goes to the pools     *)
(* once, and leaves it with nothing; the worker is told when they are full.*)
LEMMA FinishStep ==
  ASSUME Inv, NEW r \in Routines, Finish(r)
  PROVE  Inv'
<1>1. /\ occupyRoutine = r /\ r # Main
      /\ bRoutineRecycle(r)
      /\ occupyRoutine' = pendingRoutine /\ pendingRoutine' = occupyRoutine
      /\ UNCHANGED <<ActivetaskItems, want, size, loopAt>>
  BY DEF Finish, SwapContext
<1>t. TypeOK /\ r # Loop /\ pendingRoutine = Loop /\ loopAt = "switched"
  BY <1>1 DEF Inv, WorkerInv
<1>m. ~In(ActivetaskItems, r) /\ ~IsPendingNeedDelete /\ phase[r] = "live" /\ stack[r] # NoStack
  BY <1>1, <1>t DEF Inv, NoDanglingRoutine, WorkerInv
<1>2. CASE PoolFull
  <2>1. /\ IsPendingNeedDelete' = TRUE
        /\ phase' = [phase EXCEPT ![r] = "done"]
        /\ UNCHANGED <<stack, poolVars>>
    BY <1>1, <1>2 DEF bRoutineRecycle, FlagRaised
  <2>f. \A x \in Routines : phase'[x] = IF x = r THEN "done" ELSE phase[x]
    BY <2>1, <1>t DEF TypeOK
  <2>2. TypeOK'
    BY <1>1, <1>t, <2>1 DEF TypeOK, SchedTypeOK, Phases, poolVars
  <2>3. WorkerInv' /\ MainInv'
    BY <1>1, <1>t, <1>m, <2>1, <2>f DEF Inv, WorkerInv, MainInv
  <2>4. NoDanglingRoutine'
    BY <1>1, <1>t, <1>m, <2>1, <2>f DEF Inv, NoDanglingRoutine, poolVars
  <2>5. DeletesTheFinished'
    BY <1>1, <1>t, <1>m, <2>1, <2>f DEF Inv, DeletesTheFinished
  <2> QED BY <1>1, <2>1, <2>2, <2>3, <2>4, <2>5, PoolsUntouched DEF Inv
<1>3. CASE ~PoolFull
  <2> DEFINE s == stack[r]
             k == ListOf(s)
  <2>1. /\ pool' = [pool EXCEPT ![k] = Append(@, s)]
        /\ RoutineNums' = RoutineNums + 1
        /\ stack' = [stack EXCEPT ![r] = NoStack]
        /\ RoutinePool' = Append(RoutinePool, r)
        /\ phase' = [phase EXCEPT ![r] = "pooled"]
        /\ UNCHANGED IsPendingNeedDelete
    BY <1>1, <1>3 DEF bRoutineRecycle, Pushed, StackCleared
  <2>s. s \in Stacks /\ s # NoStack /\ size[s] # "unmapped" /\ ~Pooled(s)
    BY <1>t, <1>m DEF Inv, TypeOK, StackHasOneOwner
  <2>k. k \in Levels /\ size[s] \in {k, "Large"}
    BY <2>s, <1>t DEF ListOf, TypeOK
  <2> HIDE DEF s, k
  <2>p. /\ pool' \in [Levels -> Seq(Stacks)]
        /\ \A l \in Levels : NoDuplicates(pool'[l])
        /\ \A l \in Levels, x \in Stacks : In(pool'[l], x) <=> In(pool[l], x) \/ (l = k /\ x = s)
    <3>1. /\ pool \in [Levels -> Seq(Stacks)] /\ pool[k] \in Seq(Stacks)
          /\ \A l \in Levels : NoDuplicates(pool[l]) /\ ~In(pool[l], s)
      BY <1>t, <2>s, <2>k DEF Inv, TypeOK, StackHasOneOwner, Pooled
    <3>2. /\ Append(pool[k], s) \in Seq(Stacks)
          /\ \A x : In(Append(pool[k], s), x) <=> In(pool[k], x) \/ x = s
          /\ NoDuplicates(Append(pool[k], s))
      BY <3>1, <2>s, <2>k, AppendIn
    <3>3. /\ pool'[k] = Append(pool[k], s)
          /\ \A l \in Levels : l # k => pool'[l] = pool[l]
      BY <2>1, <2>k, <3>1
    <3>4. pool' \in [Levels -> Seq(Stacks)]
      BY <2>1, <3>1, <3>2
    <3> QED BY <3>1, <3>2, <3>3, <3>4
  <2>n. /\ RoutinePool' \in Seq(Routines) /\ Len(RoutinePool') = Len(RoutinePool) + 1
        /\ NoDuplicates(RoutinePool')
        /\ \A x : In(RoutinePool', x) <=> In(RoutinePool, x) \/ x = r
    <3>1. RoutinePool \in Seq(Routines) /\ NoDuplicates(RoutinePool) /\ ~In(RoutinePool, r)
      BY <1>t, <1>m DEF Inv, TypeOK, NoDanglingRoutine
    <3> QED BY <2>1, <3>1, AppendIn
  <2>f. /\ \A x \in Routines : phase'[x] = IF x = r THEN "pooled" ELSE phase[x]
        /\ \A x \in Routines : stack'[x] = IF x = r THEN NoStack ELSE stack[x]
        /\ stack[r] = s
    BY <2>1, <1>t DEF TypeOK, s
  <2>2. TypeOK'
    BY <1>1, <1>t, <2>1, <2>p, <2>n DEF TypeOK, SchedTypeOK, Phases
  <2>3. WorkerInv' /\ MainInv'
    BY <1>1, <1>t, <1>m, <2>1, <2>f DEF Inv, WorkerInv, MainInv
  <2>4. FiledInv'
    BY <1>1, <2>p, <2>k DEF Inv, FiledInv
  <2>5. StackHasOneOwner'
    <3>1. /\ \A a, b \in Routines : stack[a] = stack[b] /\ stack[a] # NoStack => a = b
          /\ \A a \in Routines, l \in Levels : stack[a] # NoStack => ~In(pool[l], stack[a])
          /\ \A l, j \in Levels, x \in Stacks : In(pool[l], x) /\ In(pool[j], x) => l = j
          /\ \A x \in Stacks : size[x] # "unmapped"
               <=> (\E l \in Levels : In(pool[l], x)) \/ \E a \in Routines : stack[a] = x
          /\ \A a \in Routines : stack[a] \in Stacks \cup {NoStack}
          /\ \A l \in Levels : ~In(pool[l], s)
      BY <1>t, <2>s DEF Inv, StackHasOneOwner, Pooled, TypeOK
    <3>2. \A a, b \in Routines : stack'[a] = stack'[b] /\ stack'[a] # NoStack => a = b
      BY <3>1, <2>f
    <3>3. \A a \in Routines, l \in Levels : stack'[a] # NoStack => ~In(pool'[l], stack'[a])
      BY <3>1, <2>f, <2>p, <2>s
    <3>4. \A l, j \in Levels, x \in Stacks : In(pool'[l], x) /\ In(pool'[j], x) => l = j
      BY <3>1, <2>p
    <3>5. ASSUME NEW x \in Stacks
          PROVE  size'[x] # "unmapped"
                   <=> (\E l \in Levels : In(pool'[l], x)) \/ \E a \in Routines : stack'[a] = x
      <4>1. CASE x = s
        BY <4>1, <1>1, <2>s, <2>k, <2>p
      <4>2. CASE x # s
        <5>1. (\E a \in Routines : stack'[a] = x) <=> \E a \in Routines : stack[a] = x
          BY <4>2, <2>f, <2>s
        <5> QED BY <4>2, <5>1, <3>1, <2>p, <1>1
      <4> QED BY <4>1, <4>2
    <3> QED BY <2>p, <3>2, <3>3, <3>4, <3>5 DEF StackHasOneOwner, Pooled
  <2>6. NoDanglingRoutine'
    BY <1>1, <1>t, <1>m, <2>1, <2>n, <2>f DEF Inv, NoDanglingRoutine
  <2>7. DeletesTheFinished'
    BY <1>1, <1>t, <1>m, <2>1, <2>f DEF Inv, DeletesTheFinished
  <2>8. PoolsBounded'
    <3>1. pool \in [Levels -> Seq(Stacks)]
      BY <1>t DEF TypeOK
    <3>2. Pools(pool') = Pools(pool) + 1
      BY <2>1, <2>s, <2>k, <3>1, PoolsCounted
    <3>3. /\ RoutineNums \in Nat /\ RoutineNums = Pools(pool) /\ RoutineNums < MaxKeep
          /\ Len(RoutinePool) <= RoutineNums /\ Len(RoutinePool) \in Nat
      BY <1>t, <1>3 DEF Inv, PoolsBounded, Pools, TypeOK, PoolFull
    <3>4. RoutineNums' = Pools(pool') /\ RoutineNums' <= MaxKeep /\ Len(RoutinePool') <= RoutineNums'
      BY <2>1, <2>n, <3>2, <3>3
    <3> QED BY <3>4 DEF PoolsBounded, Pools
  <2>9. StackLargeEnough'
    BY <1>1, <2>f DEF Inv, StackLargeEnough
  <2> QED BY <2>2, <2>3, <2>4, <2>5, <2>6, <2>7, <2>8, <2>9 DEF Inv
<1> QED BY <1>2, <1>3

(* Behind its switch the loop deletes the coroutine it came from if that   *)
(* has asked for it: nobody else runs on the stack that is unmapped.       *)
LEMMA LoopResumedStep ==
  ASSUME Inv, LoopResumed
  PROVE  Inv'
<1> DEFINE deleted == IF IsPendingNeedDelete THEN {pendingRoutine} \ {Main} ELSE {}
<1>1. /\ occupyRoutine = Loop /\ loopAt = "switched" /\ loopAt' = "top"
      /\ IsPendingNeedDelete' = FALSE
      /\ phase' = [r \in Routines |-> IF r \in deleted THEN "absent" ELSE phase[r]]
      /\ stack' = [r \in Routines |-> IF r \in deleted THEN NoStack ELSE stack[r]]
      /\ size' = [s \in Stacks |-> IF \E r \in deleted : stack[r] = s
                                   THEN "unmapped" ELSE size[s]]
      /\ UNCHANGED <<occupyRoutine, pendingRoutine, ActivetaskItems, want, poolVars>>
  BY DEF LoopResumed, schedVars, FlagCleared
<1>t. TypeOK
  BY DEF Inv
<1>d. /\ deleted \subseteq Routines /\ Main \notin deleted
      /\ \A r \in Routines \ {Main} : r \in deleted <=> phase[r] = "done"
  <2>1. IsPendingNeedDelete => pendingRoutine \in Routines \ {Main}
    BY DEF Inv, WorkerInv
  <2>2. \A r \in Routines \ {Main} : r \in deleted <=> IsPendingNeedDelete /\ pendingRoutine = r
    OBVIOUS
  <2>3. deleted \subseteq Routines /\ Main \notin deleted
    BY <2>1
  <2> QED BY <2>2, <2>3, <1>1 DEF Inv, DeletesTheFinished
<1> HIDE DEF deleted
<1>f. /\ \A r \in Routines : phase'[r] = IF r \in deleted THEN "absent" ELSE phase[r]
      /\ \A r \in Routines : stack'[r] = IF r \in deleted THEN NoStack ELSE stack[r]
      /\ \A s \in Stacks : size'[s] = IF \E r \in deleted : stack[r] = s
                                      THEN "unmapped" ELSE size[s]
  BY <1>1
<1>o. /\ \A a, b \in Routines : stack[a] = stack[b] /\ stack[a] # NoStack => a = b
      /\ \A a \in Routines, l \in Levels : stack[a] # NoStack => ~In(pool[l], stack[a])
      /\ \A l, k \in Levels, s \in Stacks : In(pool[l], s) /\ In(pool[k], s) => l = k
      /\ \A l \in Levels : NoDuplicates(pool[l])
      /\ \A s \in Stacks : size[s] # "unmapped"
           <=> (\E l \in Levels : In(pool[l], s)) \/ \E a \in Routines : stack[a] = s
      /\ \A a \in Routines : stack[a] \in Stacks \cup {NoStack}
  BY <1>t DEF Inv, StackHasOneOwner, Pooled, TypeOK
<1>p. /\ pool' = pool
      /\ \A l \in Levels, s \in Stacks : In(pool[l], s) => size'[s] = size[s]
  <2>1. \A l \in Levels, s \in Stacks : In(pool[l], s) => ~\E r \in deleted : stack[r] = s
    BY <1>d, <1>o
  <2> QED BY <1>1, <1>f, <2>1 DEF poolVars
<1>2. TypeOK'
  BY <1>1, <1>t DEF TypeOK, SchedTypeOK, Phases, poolVars
<1>3. WorkerInv' /\ MainInv'
  BY <1>1, <1>d, <1>f DEF Inv, WorkerInv, MainInv
<1>4. FiledInv'
  BY <1>p DEF Inv, FiledInv
<1>5. StackHasOneOwner'
  <2>1. \A a, b \in Routines : stack'[a] = stack'[b] /\ stack'[a] # NoStack => a = b
    BY <1>o, <1>f
  <2>2. \A a \in Routines, l \in Levels : stack'[a] # NoStack => ~In(pool'[l], stack'[a])
    BY <1>o, <1>f, <1>p
  <2>3. ASSUME NEW s \in Stacks
        PROVE  size'[s] # "unmapped"
                 <=> (\E l \in Levels : In(pool'[l], s)) \/ \E a \in Routines : stack'[a] = s
    <3>1. CASE \E r \in deleted : stack[r] = s
      BY <3>1, <1>o, <1>f, <1>p, <1>d
    <3>2. CASE ~\E r \in deleted : stack[r] = s
      <4>1. (\E a \in Routines : stack'[a] = s) <=> \E a \in Routines : stack[a] = s
        BY <3>2, <1>f
      <4> QED BY <3>2, <4>1, <1>o, <1>f, <1>p
    <3> QED BY <3>1, <3>2
  <2> QED BY <1>o, <1>p, <2>1, <2>2, <2>3 DEF StackHasOneOwner, Pooled
<1>6. NoDanglingRoutine'
  <2>1. /\ NoDuplicates(ActivetaskItems) /\ NoDuplicates(RoutinePool)
        /\ \A r \in Routines :
             /\ In(ActivetaskItems, r) => phase[r] = "live" /\ occupyRoutine # r
             /\ In(RoutinePool, r) <=> phase[r] = "pooled"
             /\ r # Main => (stack[r] # NoStack <=> phase[r] \in {"new", "live", "done"})
    BY DEF Inv, NoDanglingRoutine
  <2>2. \A r \in Routines : r \in deleted => phase[r] = "done" /\ r # Main
    BY <1>d
  <2>3. occupyRoutine' = Loop /\ RoutinePool' = RoutinePool /\ ActivetaskItems' = ActivetaskItems
    BY <1>1 DEF poolVars
  <2> QED BY <2>1, <2>2, <2>3, <1>f DEF NoDanglingRoutine
<1>7. DeletesTheFinished'
  BY <1>1, <1>d, <1>f DEF DeletesTheFinished
<1>8. PoolsBounded'
  BY <1>1 DEF Inv, PoolsBounded, poolVars
<1>9. StackLargeEnough'
  <2>1. \A r \in Routines : stack'[r] # NoStack => size'[stack'[r]] = size[stack[r]] /\ stack'[r] = stack[r]
    BY <1>f, <1>o, <1>d
  <2> QED BY <2>1, <1>1 DEF Inv, StackLargeEnough
<1> QED BY <1>2, <1>3, <1>4, <1>5, <1>6, <1>7, <1>8, <1>9 DEF Inv

(* main() runs, and nothing has been allocated.                            *)
LEMMA InvInit == Init => Inv
<1> SUFFICES ASSUME Init PROVE Inv
  OBVIOUS
<1>1. /\ ActivetaskItems = <<>> /\ RoutinePool = <<>>
      /\ \A l \in Levels : pool[l] = <<>>
      /\ Len(<<>>) = 0
  BY DEF Init
<1>2. TypeOK
  <2>1. pool \in [Levels -> Seq(Stacks)] /\ RoutinePool \in Seq(Routines)
        /\ ActivetaskItems \in Seq(Routines)
    BY DEF Init
  <2> QED BY <2>1 DEF Init, TypeOK, SchedTypeOK, Coroutines, Phases
<1>3. \A x : ~In(<<>>, x)
  BY <1>1 DEF In
<1>4. NoDuplicates(<<>>)
  BY <1>1 DEF NoDuplicates
<1>5. WorkerInv /\ MainInv
  BY DEF Init, WorkerInv, MainInv
<1>6. FiledInv /\ StackHasOneOwner
  <2>1. /\ \A r \in Routines : stack[r] = NoStack
        /\ \A s \in Stacks : size[s] = "unmapped" /\ s # NoStack
    BY DEF Init
  <2> QED BY <1>1, <1>3, <1>4, <2>1 DEF FiledInv, StackHasOneOwner, Pooled
<1>7. NoDanglingRoutine
  BY <1>1, <1>3, <1>4 DEF Init, NoDanglingRoutine
<1>8. DeletesTheFinished
  BY DEF Init, DeletesTheFinished
<1>9. PoolsBounded
  BY <1>1 DEF Init, PoolsBounded
<1>10. StackLargeEnough
  BY DEF Init, StackLargeEnough
<1> QED BY <1>2, <1>5, <1>6, <1>7, <1>8, <1>9, <1>10 DEF Inv

(* Every step of the worker and of the coroutines keeps all of it.         *)
LEMMA InvStep == Inv /\ [Next]_vars => Inv'
<1> SUFFICES ASSUME Inv, [Next]_vars PROVE Inv'
  OBVIOUS
<1>1. CASE Next
  BY <1>1, NewStep, ResumeStep, YieldStep, DispatchStep, FinishMainStep, FinishStep,
     LoopResumedStep DEF Next
<1>2. CASE UNCHANGED vars
  <2>1. /\ UNCHANGED <<stack, want, size, poolVars>>
        /\ UNCHANGED <<occupyRoutine, pendingRoutine, ActivetaskItems>>
        /\ UNCHANGED <<phase, IsPendingNeedDelete, loopAt>>
    BY <1>2 DEF vars, schedVars
  <2>2. TypeOK'
    BY <2>1 DEF Inv, TypeOK, SchedTypeOK, poolVars
  <2>3. WorkerInv' /\ MainInv'
    BY <2>1 DEF Inv, WorkerInv, MainInv
  <2>4. NoDanglingRoutine' /\ DeletesTheFinished'
    BY <2>1 DEF Inv, NoDanglingRoutine, DeletesTheFinished, poolVars
  <2> QED BY <2>1, <2>2, <2>3, <2>4, PoolsUntouched DEF Inv
<1> QED BY <1>1, <1>2

(* The invariant of the life of coroutines and stacks. *)
LEMMA LifeInvariant == Spec => []Inv
BY InvInit, InvStep, PTL DEF Spec

(* The objects, the stacks and the pools keep their types; in particular   *)
(* RoutineNums, which is unsigned in the code, never falls below zero.     *)
THEOREM LifeTypeCorrect == Spec => []TypeOK
<1>1. Inv => TypeOK
  BY DEF Inv
<1> QED BY <1>1, LifeInvariant, PTL

(* Although a coroutine gives its stack to the pool while it still runs on *)
(* it (b_routine_env.cc:247), no two coroutines ever own one stack, none   *)
(* is in the pool twice or beside its owner, and none is lost.             *)
THEOREM StacksNeverShared == Spec => []StackHasOneOwner
<1>1. Inv => StackHasOneOwner
  BY DEF Inv
<1> QED BY <1>1, LifeInvariant, PTL

(* The worker never resumes a coroutine that was given back or freed.      *)
THEOREM NothingDangles == Spec => []NoDanglingRoutine
<1>1. Inv => NoDanglingRoutine
  BY DEF Inv
<1> QED BY <1>1, LifeInvariant, PTL

(* When the pool is full, the flag that bRoutineRecycle raises reaches the *)
(* loop right after the switch, and deletes the coroutine that raised it.  *)
THEOREM OnlyTheFinishedDeleted == Spec => []DeletesTheFinished
<1>1. Inv => DeletesTheFinished
  BY DEF Inv
<1> QED BY <1>1, LifeInvariant, PTL

(* RoutineNums, kept by the stack pool alone, bounds both pools by         *)
(* Max_Keep_Routines_Thread, whatever is taken and returned.               *)
THEOREM PoolsStayBounded == Spec => []PoolsBounded
<1>1. Inv => PoolsBounded
  BY DEF Inv
<1> QED BY <1>1, LifeInvariant, PTL

(* No coroutine runs on a stack smaller than it asked for, with the large  *)
(* ones filed in the wrong list (b_routine_env.cc:106).                    *)
THEOREM StacksLargeEnough == Spec => []StackLargeEnough
<1>1. Inv => StackLargeEnough
  BY DEF Inv
<1> QED BY <1>1, LifeInvariant, PTL
=============================================================================
