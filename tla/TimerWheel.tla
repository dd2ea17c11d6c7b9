----------------------------- MODULE TimerWheel -----------------------------
(***************************************************************************)
(* The time wheel of bRoutine (bEpTimer in b_epoll.cc) and the way the     *)
(* worker advances it (ProcessBegin and bRoutineEnv::Deal).                *)
(*                                                                         *)
(* Coroutines put a TaskItem into the bucket of its timeout and may take   *)
(* it out again; between two of them the worker merges the buckets that    *)
(* have come due and commits their tasks.  The clock (getNow_Ms) goes on   *)
(* at any point of all this.  One step of the merge loop is one step here, *)
(* for the loop's bounds are what the wheel's correctness hangs on.        *)
(* Time counts from the creation of the wheel.                             *)
(***************************************************************************)
EXTENDS Integers, FiniteSets

CONSTANTS
  Tasks,      \* the TaskItems that carry a timeout
  Size,       \* TaskItemBucketSize: 1000 * TIMEWAITSECONDS_S buckets of 1 ms
  Delays,     \* the timeouts that are asked for, in ms
  MaxTime,    \* bound: the clock stops here
  MaxLag,     \* bound: how far the clock runs ahead of the wheel, in ms
  MaxCount    \* bound: no task is armed in a bucket that counts this many

ASSUME TimerWheelAssumption ==
  /\ Size \in Nat \ {0}
  /\ Delays \subseteq Nat
  /\ MaxTime \in Nat /\ MaxLag \in Nat /\ MaxCount \in Nat

VARIABLES
  now,             \* what getNow_Ms returns
  LastCheckTime,   \* bEpTimer::LastCheckTime
  BucketPosNow,    \* bEpTimer::BucketPosNow
  bucket,          \* the tasks linked in each bucket
  ItemCount,       \* the counter of each bucket
  merging,         \* NewMergeUpdate2Now is running
  i, target_pos, now_ms, result,   \* its locals
  lastCheckTime,   \* bEpoll::lastCheckTime
  due              \* history: when each armed task should fire

mergeVars == <<merging, i, target_pos, now_ms, result>>
vars == <<now, LastCheckTime, BucketPosNow, bucket, ItemCount, mergeVars, lastCheckTime, due>>

Slots == 0 .. Size - 1
Linked == UNION {bucket[b] : b \in Slots}

TypeOK ==
  /\ now \in 0 .. MaxTime
  /\ LastCheckTime \in 0 .. MaxTime
  /\ BucketPosNow \in Slots
  /\ bucket \in [Slots -> SUBSET Tasks]
  /\ ItemCount \in [Slots -> Int]
  /\ merging \in BOOLEAN
  /\ i \in 0 .. Size
  /\ target_pos \in Slots
  /\ now_ms \in 0 .. MaxTime
  /\ result \subseteq Tasks
  /\ lastCheckTime \in 0 .. MaxTime
  /\ due \in [Tasks -> Nat]

(* bEpTimer::New and bEpoll::New. *)
Init ==
  /\ now = 0
  /\ LastCheckTime = 0
  /\ BucketPosNow = 0
  /\ bucket = [b \in Slots |-> {}]
  /\ ItemCount = [b \in Slots |-> 0]
  /\ merging = FALSE
  /\ i = 0 /\ target_pos = 0 /\ now_ms = 0 /\ result = {}
  /\ lastCheckTime = 0
  /\ due = [t \in Tasks |-> 0]
-----------------------------------------------------------------------------
Tick ==
  /\ now < MaxTime
  /\ now - LastCheckTime < MaxLag
  /\ now' = now + 1
  /\ UNCHANGED <<LastCheckTime, BucketPosNow, bucket, ItemCount, mergeVars, lastCheckTime, due>>

(* getBucket: timeouts beyond the wheel are cut to a full turn. *)
Clipped(ms_want) == IF ms_want > Size THEN Size ELSE ms_want
BucketUnclipped(ms_want) == (BucketPosNow + ms_want) % Size
getBucket(ms_want) == (BucketPosNow + Clipped(ms_want)) % Size

(* A coroutine calls getBucket(ms)->pushBack(t) in poll or timeWait. *)
Arm(t, ms) ==
  /\ ~merging
  /\ t \notin Linked
  /\ ItemCount[getBucket(ms)] < MaxCount
  /\ bucket' = [bucket EXCEPT ![getBucket(ms)] = @ \cup {t}]
  /\ ItemCount' = [ItemCount EXCEPT ![getBucket(ms)] = @ + 1]
  /\ due' = [due EXCEPT ![t] = LastCheckTime + Clipped(ms)]
  /\ UNCHANGED <<now, LastCheckTime, BucketPosNow, mergeVars, lastCheckTime>>

(* RemoveSelfFromOwnerlink_Save(t): the task is unlinked, the counter of   *)
(* its bucket stays as it is.                                              *)
UnlinkCountsTwice(b) == [ItemCount EXCEPT ![b] = @ - 2]
UnlinkCounts(b) == ItemCount

Remove(t) ==
  /\ ~merging
  /\ \E b \in Slots :
       /\ t \in bucket[b]
       /\ bucket' = [bucket EXCEPT ![b] = @ \ {t}]
       /\ ItemCount' = UnlinkCounts(b)
  /\ due' = [due EXCEPT ![t] = 0]
  /\ UNCHANGED <<now, LastCheckTime, BucketPosNow, mergeVars, lastCheckTime>>

(* NewMergeUpdate2Now up to its loop. *)
TargetUnwrapped == now - LastCheckTime + BucketPosNow
Target == (now - LastCheckTime + BucketPosNow) % Size

MergeBegin ==
  /\ ~merging
  /\ now # lastCheckTime
  /\ merging' = TRUE
  /\ i' = BucketPosNow + 1
  /\ target_pos' = Target
  /\ now_ms' = now
  /\ result' = {}
  /\ UNCHANGED <<now, LastCheckTime, BucketPosNow, bucket, ItemCount, lastCheckTime, due>>

InLoopShort == i < target_pos
InLoop == i <= target_pos

(* The body of its loop: pushAll2 moves the bucket's tasks and counts each *)
(* of them off.                                                            *)
MergeBucket ==
  /\ merging
  /\ InLoop
  /\ i' = (i + 1) % Size
  /\ result' = result \cup bucket[i]
  /\ bucket' = [bucket EXCEPT ![i] = {}]
  /\ ItemCount' = [ItemCount EXCEPT ![i] = @ - Cardinality(bucket[i])]
  /\ UNCHANGED <<now, LastCheckTime, BucketPosNow, merging, target_pos, now_ms,
                 lastCheckTime, due>>

(* Its end, and the rest of Deal: every merged task is committed (which    *)
(* leaves the wheel) and the clock is read again.                          *)
LastCheckNow == now
LastCheckMerged == now_ms

MergeEnd ==
  /\ merging
  /\ ~InLoop
  /\ BucketPosNow' = target_pos
  /\ LastCheckTime' = LastCheckMerged
  /\ merging' = FALSE
  /\ lastCheckTime' = now
  /\ i' = 0 /\ target_pos' = 0 /\ now_ms' = 0 /\ result' = {}
  /\ due' = [t \in Tasks |-> IF t \in result THEN 0 ELSE due[t]]
  /\ UNCHANGED <<now, bucket, ItemCount>>

Worker == MergeBegin \/ MergeBucket \/ MergeEnd

Next ==
  \/ Tick
  \/ \E t \in Tasks : Remove(t) \/ \E ms \in Delays : Arm(t, ms)
  \/ Worker

(* The clock goes on and so does the worker's loop, which never sleeps:    *)
(* hangTimeOut is an absolute time long past.                              *)
Spec == Init /\ [][Next]_vars
FairSpec == Spec /\ WF_vars(Tick) /\ WF_vars(Worker)
-----------------------------------------------------------------------------
(***************************************************************************)
(* The wheel turns with the clock: "the two change together"               *)
(* (b_epoll.h:16), and a linked task is in the bucket of its deadline,     *)
(* whatever was armed, removed and merged since it was put there.          *)
(***************************************************************************)
WheelInStep ==
  /\ BucketPosNow = LastCheckTime % Size
  /\ \A b \in Slots : \A t \in bucket[b] : due[t] % Size = b

(***************************************************************************)
(* A timeout does not come early: the worker commits a task only when the  *)
(* clock has reached the deadline counted from the last advance of the     *)
(* wheel.                                                                  *)
(***************************************************************************)
NotEarly == [][\A t \in Tasks :
  merging /\ ~merging' /\ t \in result => due[t] <= now]_vars

(***************************************************************************)
(* An advance that neither crosses the end of the wheel nor skips a turn   *)
(* leaves no task behind that has come due in it.                          *)
(***************************************************************************)
NoneLeftWithinTurn == [][
  merging /\ ~merging' /\ now_ms \div Size = LastCheckTime \div Size
    => \A t \in Linked : ~(LastCheckTime < due[t] /\ due[t] <= now_ms)]_vars

(***************************************************************************)
(* The counter of a bucket never falls below the number of tasks in it,    *)
(* although unlinking does not maintain it: it drifts upwards only, and    *)
(* pushAll2, which counts down, does not wrap the unsigned counter.        *)
(***************************************************************************)
CountCovers == \A b \in Slots : ItemCount[b] >= Cardinality(bucket[b])

(***************************************************************************)
(* Whenever the worker has advanced the wheel, every task that was due by  *)
(* then has been committed: timeouts have a resolution of 1 ms             *)
(* (Readme.md:17).                                                         *)
(***************************************************************************)
NoneOverdue == ~merging => \A t \in Linked : due[t] > LastCheckTime

(***************************************************************************)
(* The worker comes out of the merge and goes on to run coroutines, as     *)
(* every program that waits with a timeout in an endless loop needs.       *)
(***************************************************************************)
MergeReturns == merging ~> ~merging
=============================================================================
