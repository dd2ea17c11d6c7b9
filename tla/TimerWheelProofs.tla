---------------------------- MODULE TimerWheelProofs ----------------------------
(***************************************************************************)
(* Proofs about TimerWheel for any tasks, any size of the wheel and any    *)
(* timeouts.                                                               *)
(***************************************************************************)
EXTENDS TimerWheel, FiniteSetTheorems, TLAPS

USE TimerWheelAssumption

(* Division of integers by a positive one. *)
LEMMA DivMod ==
  ASSUME NEW n \in Nat \ {0}, NEW a \in Int
  PROVE  /\ a \div n \in Int
         /\ a % n \in 0 .. n - 1
         /\ a = n * (a \div n) + (a % n)
OBVIOUS

(* Quotient and remainder are determined by the number. *)
LEMMA ModUnique ==
  ASSUME NEW n \in Nat \ {0}, NEW q \in Int, NEW r \in 0 .. n - 1, NEW a \in Int, a = n * q + r
  PROVE  a % n = r /\ a \div n = q
<1> DEFINE k == a \div n
           s == a % n
<1>1. k \in Int /\ s \in 0 .. n - 1 /\ a = n * k + s
  BY DivMod
<1> HIDE DEF k, s
<1>2. n * k + s = n * q + r
  BY <1>1
<1>3. n * (k - q) = r - s
  BY <1>1, <1>2
<1>4. k - q < 1
  <2>1. SUFFICES ASSUME k - q >= 1 PROVE FALSE
    BY <1>1
  <2>2. n * (k - q) >= n
    BY <1>1, <2>1
  <2> QED BY <2>2, <1>1, <1>3
<1>5. k - q > -1
  <2>1. SUFFICES ASSUME k - q <= -1 PROVE FALSE
    BY <1>1
  <2>2. n * (k - q) <= -n
    BY <1>1, <2>1
  <2> QED BY <2>2, <1>1, <1>3
<1>6. k = q
  BY <1>1, <1>4, <1>5
<1>7. s = r
  BY <1>1, <1>2, <1>6
<1> QED BY <1>6, <1>7 DEF k, s

(* Adding before or after the remainder is taken makes no difference.      *)
LEMMA ModAdd ==
  ASSUME NEW n \in Nat \ {0}, NEW a \in Int, NEW c \in Int
  PROVE  ((a % n) + c) % n = (a + c) % n
<1> DEFINE q == (a + c) \div n
           k == a \div n
           r == (a + c) % n
<1>1. q \in Int /\ k \in Int /\ r \in 0 .. n - 1
      /\ a + c = n * q + r /\ a = n * k + (a % n) /\ a % n \in Int
  BY DivMod
<1> HIDE DEF q, k, r
<1> DEFINE d == q - k
           y == (a % n) + c
<1>2. d \in Int /\ y \in Int /\ y = n * d + r
  BY <1>1
<1> HIDE DEF d, y
<1>3. y % n = r
  BY <1>1, <1>2, ModUnique
<1> QED BY <1>3 DEF r, y

(* When b stands behind a on the wheel, the way from a to b is at least    *)
(* their distance there; and no more, if b is within a turn of a.          *)
LEMMA Distance ==
  ASSUME NEW n \in Nat \ {0}, NEW a \in Int, NEW b \in Int, a % n < b % n
  PROVE  /\ a <= b => b >= a + (b % n) - (a % n)
         /\ b <= a + n => b <= a + (b % n) - (a % n)
<1> DEFINE k == a \div n
           s == a % n
           l == b \div n
           r == b % n
<1>1. /\ k \in Int /\ s \in 0 .. n - 1 /\ a = n * k + s
      /\ l \in Int /\ r \in 0 .. n - 1 /\ b = n * l + r
      /\ s < r
  BY DivMod
<1> HIDE DEF k, s, l, r
<1>2. b - a = n * (l - k) + r - s /\ l - k \in Int /\ n * (l - k) \in Int
  BY <1>1
<1>3. l - k <= -1 => n * (l - k) <= -n
  BY <1>1
<1>4. l - k >= 0 => n * (l - k) >= 0
  BY <1>1
<1>5. l - k >= 1 => n * (l - k) >= n
  BY <1>1
<1>6. l - k <= 0 => n * (l - k) <= 0
  BY <1>1
<1>7. a <= b => b >= a + r - s
  BY <1>1, <1>2, <1>3, <1>4
<1>8. b <= a + n => b <= a + r - s
  BY <1>1, <1>2, <1>5, <1>6
<1> QED BY <1>7, <1>8 DEF s, r

(* Between two times of the same turn the slots are in order.              *)
LEMMA WithinTurn ==
  ASSUME NEW n \in Nat \ {0}, NEW a \in Int, NEW b \in Int, NEW c \in Int,
         a < b, b <= c, a \div n = c \div n
  PROVE  a % n < b % n /\ b % n <= c % n
<1> DEFINE k == a \div n
<1>1. /\ k \in Int
      /\ a % n \in 0 .. n - 1 /\ a = n * k + (a % n)
      /\ c % n \in 0 .. n - 1 /\ c = n * k + (c % n)
  BY DivMod
<1>2. b - n * k \in 0 .. n - 1
  <2> HIDE DEF k
  <2>1. n * k \in Int
    BY <1>1
  <2> QED BY <1>1, <2>1
<1>3. b % n = b - n * k
  <2> DEFINE r == b - n * k
  <2>1. r \in 0 .. n - 1 /\ b = n * k + r
    <3> HIDE DEF k
    <3>1. n * k \in Int
      BY <1>1
    <3> QED BY <1>2, <3>1
  <2> HIDE DEF k, r
  <2>2. b % n = r
    BY <1>1, <2>1, ModUnique
  <2> QED BY <2>2 DEF r
<1> HIDE DEF k
<1>4. n * k \in Int
  BY <1>1
<1> QED BY <1>1, <1>2, <1>3, <1>4
-----------------------------------------------------------------------------
(* The clock never goes back, and the merge works with a reading of it.    *)
ClockInv ==
  /\ LastCheckTime <= now
  /\ merging => /\ LastCheckTime <= now_ms /\ now_ms <= now
                /\ target_pos = now_ms % Size

(* A linked task is due within a turn, and finitely many are linked.       *)
BucketInv ==
  /\ \A b \in Slots : IsFiniteSet(bucket[b])
  /\ \A b \in Slots : \A t \in bucket[b] : due[t] <= LastCheckTime + Size

(* What the merge has passed is empty and what it has collected is due,    *)
(* unless it is the merge that wraps and does not end.                     *)
MergeInv ==
  /\ ~merging => result = {}
  /\ \A b \in Slots : bucket[b] \cap result = {}
  /\ merging => /\ \A b \in Slots : BucketPosNow < b /\ b < i => bucket[b] = {}
                /\ \/ BucketPosNow < i /\ \A t \in result : due[t] <= now_ms
                   \/ i < Size /\ target_pos = Size - 1

Inv == TypeOK /\ ClockInv /\ WheelInStep /\ BucketInv /\ CountCovers /\ MergeInv

(* The new wheel is empty and starts with the clock. *)
LEMMA InvInit == Init => Inv
<1> SUFFICES ASSUME Init PROVE Inv
  OBVIOUS
<1> USE DEF Init
<1>1. 0 \in Slots /\ 0 \in 0 .. Size /\ 0 \in 0 .. MaxTime
  BY DEF Slots
<1>2. 0 % Size = 0
  <2>1. 0 = Size * 0 + 0 /\ 0 \in 0 .. Size - 1 /\ 0 \in Int
    OBVIOUS
  <2> QED BY <2>1, ModUnique
<1>3. \A b \in Slots : bucket[b] = {} /\ ItemCount[b] = 0
  OBVIOUS
<1>4. TypeOK
  <2>1. /\ bucket \in [Slots -> SUBSET Tasks] /\ ItemCount \in [Slots -> Int]
        /\ due \in [Tasks -> Nat]
    OBVIOUS
  <2> QED BY <1>1, <2>1 DEF TypeOK
<1>5. ClockInv /\ WheelInStep /\ MergeInv
  BY <1>2, <1>3 DEF ClockInv, WheelInStep, MergeInv
<1>6. BucketInv /\ CountCovers
  BY <1>3, FS_EmptySet DEF BucketInv, CountCovers
<1> QED BY <1>4, <1>5, <1>6 DEF Inv

(* The clock alone breaks nothing. *)
LEMMA TickStep ==
  ASSUME Inv, Tick
  PROVE  Inv'
<1>1. /\ now < MaxTime /\ now' = now + 1
      /\ UNCHANGED <<LastCheckTime, BucketPosNow, bucket, ItemCount, merging, i, target_pos,
                     now_ms, result, lastCheckTime, due>>
  BY DEF Tick, mergeVars
<1>2. TypeOK' /\ ClockInv'
  BY <1>1 DEF Inv, TypeOK, ClockInv
<1>3. WheelInStep' /\ BucketInv' /\ CountCovers' /\ MergeInv'
  BY <1>1 DEF Inv, WheelInStep, BucketInv, CountCovers, MergeInv
<1> QED BY <1>2, <1>3 DEF Inv

(* A task is put where the wheel will be when it is due, and counted.      *)
LEMMA ArmStep ==
  ASSUME Inv, NEW t \in Tasks, NEW ms \in Delays, Arm(t, ms)
  PROVE  Inv'
<1> DEFINE c == Clipped(ms)
           p == getBucket(ms)
<1>1. /\ ~merging /\ t \notin Linked
      /\ bucket' = [bucket EXCEPT ![p] = @ \cup {t}]
      /\ ItemCount' = [ItemCount EXCEPT ![p] = @ + 1]
      /\ due' = [due EXCEPT ![t] = LastCheckTime + c]
      /\ UNCHANGED <<now, LastCheckTime, BucketPosNow, merging, i, target_pos, now_ms,
                     result, lastCheckTime>>
  BY DEF Arm, mergeVars
<1>t. /\ TypeOK /\ result = {} /\ LastCheckTime \in Nat
      /\ BucketPosNow = LastCheckTime % Size
      /\ \A b \in Slots : t \notin bucket[b]
  BY <1>1 DEF Inv, TypeOK, MergeInv, WheelInStep, Linked
<1>c. c \in 0 .. Size
  BY DEF Clipped
<1>p. p \in Slots /\ p = (LastCheckTime + c) % Size
  <2> HIDE DEF c
  <2>1. p = (BucketPosNow + c) % Size
    BY DEF getBucket, c
  <2>2. ((LastCheckTime % Size) + c) % Size = (LastCheckTime + c) % Size
    <3>1. Size \in Nat \ {0} /\ LastCheckTime \in Int /\ c \in Int
      BY <1>c, <1>t
    <3> QED BY ONLY <3>1, ModAdd
  <2>3. LastCheckTime + c \in Int
    BY <1>c, <1>t
  <2>4. (LastCheckTime + c) % Size \in 0 .. Size - 1
    BY <2>3, DivMod
  <2> QED BY <2>1, <2>2, <2>4, <1>t DEF Slots
<1> HIDE DEF c, p
<1>f. /\ \A b \in Slots : bucket'[b] = IF b = p THEN bucket[b] \cup {t} ELSE bucket[b]
      /\ \A b \in Slots : ItemCount'[b] = IF b = p THEN ItemCount[b] + 1 ELSE ItemCount[b]
      /\ \A x \in Tasks : due'[x] = IF x = t THEN LastCheckTime + c ELSE due[x]
  BY <1>1, <1>t DEF TypeOK
<1>2. TypeOK'
  BY <1>1, <1>t, <1>c, <1>p DEF TypeOK
<1>3. ClockInv'
  BY <1>1 DEF Inv, ClockInv
<1>4. WheelInStep'
  <2>1. ASSUME NEW b \in Slots, NEW x \in bucket'[b] PROVE due'[x] % Size = b
    <3>1. CASE x = t
      BY <2>1, <3>1, <1>f, <1>p, <1>t
    <3>2. CASE x # t
      <4>1. x \in bucket[b] /\ x \in Tasks
        BY <2>1, <3>2, <1>f, <1>t DEF TypeOK
      <4> QED BY <3>2, <4>1, <1>f DEF Inv, WheelInStep
    <3> QED BY <3>1, <3>2
  <2> QED BY <2>1, <1>1, <1>t DEF WheelInStep
<1>5. BucketInv'
  <2>1. \A b \in Slots : IsFiniteSet(bucket'[b])
    <3>1. \A b \in Slots : IsFiniteSet(bucket[b]) /\ IsFiniteSet(bucket[b] \cup {t})
      BY FS_AddElement DEF Inv, BucketInv
    <3> QED BY <3>1, <1>f
  <2>2. ASSUME NEW b \in Slots, NEW x \in bucket'[b] PROVE due'[x] <= LastCheckTime + Size
    <3>1. CASE x = t
      BY <3>1, <1>f, <1>c, <1>t
    <3>2. CASE x # t
      <4>1. x \in bucket[b] /\ x \in Tasks
        BY <2>2, <3>2, <1>f, <1>t DEF TypeOK
      <4> QED BY <3>2, <4>1, <1>f DEF Inv, BucketInv
    <3> QED BY <3>1, <3>2
  <2> QED BY <2>1, <2>2, <1>1 DEF BucketInv
<1>6. CountCovers'
  <2>1. ASSUME NEW b \in Slots PROVE ItemCount'[b] >= Cardinality(bucket'[b])
    <3>1. /\ IsFiniteSet(bucket[b]) /\ ItemCount[b] >= Cardinality(bucket[b])
          /\ ItemCount[b] \in Int /\ Cardinality(bucket[b]) \in Nat
      BY <1>t, FS_CardinalityType DEF Inv, BucketInv, CountCovers, TypeOK
    <3>2. Cardinality(bucket[b] \cup {t}) = Cardinality(bucket[b]) + 1
      BY <3>1, <1>t, FS_AddElement
    <3>3. CASE b = p
      <4>1. bucket'[b] = bucket[b] \cup {t} /\ ItemCount'[b] = ItemCount[b] + 1
        BY <3>3, <1>f
      <4> QED BY <4>1, <3>1, <3>2
    <3>4. CASE b # p
      <4>1. bucket'[b] = bucket[b] /\ ItemCount'[b] = ItemCount[b]
        BY <3>4, <1>f
      <4> QED BY <4>1, <3>1
    <3> QED BY <3>3, <3>4
  <2> QED BY <2>1 DEF CountCovers
<1>7. MergeInv'
  BY <1>1, <1>t, <1>f DEF MergeInv
<1> QED BY <1>2, <1>3, <1>4, <1>5, <1>6, <1>7 DEF Inv

(* A task is taken out of the one bucket it is in; the count can only be   *)
(* too large by that.                                                      *)
LEMMA RemoveStep ==
  ASSUME Inv, NEW t \in Tasks, Remove(t)
  PROVE  Inv'
<1>1. PICK p \in Slots :
        /\ t \in bucket[p]
        /\ bucket' = [bucket EXCEPT ![p] = @ \ {t}]
        /\ ItemCount' = ItemCount
        /\ ~merging
        /\ due' = [due EXCEPT ![t] = 0]
        /\ UNCHANGED <<now, LastCheckTime, BucketPosNow, merging, i, target_pos, now_ms,
                       result, lastCheckTime>>
  BY DEF Remove, UnlinkCounts, mergeVars
<1>t. TypeOK /\ result = {}
  BY <1>1 DEF Inv, MergeInv
<1>f. /\ \A b \in Slots : bucket'[b] = IF b = p THEN bucket[b] \ {t} ELSE bucket[b]
      /\ \A x \in Tasks : x # t => due'[x] = due[x]
  BY <1>1, <1>t DEF TypeOK
<1>b. \A b \in Slots : t \notin bucket'[b]
  <2>1. \A b \in Slots : t \in bucket[b] => b = p
    BY <1>1 DEF Inv, WheelInStep
  <2> QED BY <2>1, <1>f
<1>k. \A b \in Slots : \A x \in bucket'[b] : x \in bucket[b] /\ due'[x] = due[x]
  BY <1>b, <1>f, <1>t DEF TypeOK
<1>2. TypeOK'
  BY <1>1, <1>t DEF TypeOK
<1>3. ClockInv'
  BY <1>1 DEF Inv, ClockInv
<1>4. WheelInStep'
  BY <1>1, <1>k DEF Inv, WheelInStep
<1>5. BucketInv'
  <2>1. \A b \in Slots : IsFiniteSet(bucket'[b])
    <3>1. \A b \in Slots : IsFiniteSet(bucket[b]) /\ IsFiniteSet(bucket[b] \ {t})
      BY FS_RemoveElement DEF Inv, BucketInv
    <3> QED BY <3>1, <1>f
  <2> QED BY <2>1, <1>1, <1>k DEF Inv, BucketInv
<1>6. CountCovers'
  <2>1. ASSUME NEW b \in Slots PROVE ItemCount'[b] >= Cardinality(bucket'[b])
    <3>1. /\ IsFiniteSet(bucket[b]) /\ ItemCount[b] >= Cardinality(bucket[b])
          /\ ItemCount[b] \in Int /\ Cardinality(bucket[b]) \in Nat
      BY <1>t, FS_CardinalityType DEF Inv, BucketInv, CountCovers, TypeOK
    <3>2. /\ Cardinality(bucket[b] \ {t}) <= Cardinality(bucket[b])
          /\ Cardinality(bucket[b] \ {t}) \in Nat
      <4>1. bucket[b] \ {t} \in SUBSET bucket[b]
        OBVIOUS
      <4>2. /\ IsFiniteSet(bucket[b] \ {t})
            /\ Cardinality(bucket[b] \ {t}) <= Cardinality(bucket[b])
        BY <3>1, <4>1, FS_Subset
      <4> QED BY <4>2, FS_CardinalityType
    <3> QED BY <3>1, <3>2, <1>f, <1>1
  <2> QED BY <2>1 DEF CountCovers
<1>7. MergeInv'
  BY <1>1, <1>t, <1>f DEF MergeInv
<1> QED BY <1>2, <1>3, <1>4, <1>5, <1>6, <1>7 DEF Inv

(* The merge aims at the slot of the time it has read.                     *)
LEMMA MergeBeginStep ==
  ASSUME Inv, MergeBegin
  PROVE  Inv'
<1>1. /\ merging' = TRUE
      /\ i' = BucketPosNow + 1
      /\ target_pos' = Target
      /\ now_ms' = now
      /\ result' = {}
      /\ UNCHANGED <<now, LastCheckTime, BucketPosNow, bucket, ItemCount, lastCheckTime, due>>
  BY DEF MergeBegin
<1>t. /\ TypeOK /\ LastCheckTime <= now
      /\ BucketPosNow = LastCheckTime % Size /\ BucketPosNow \in 0 .. Size - 1
      /\ now \in Int /\ LastCheckTime \in Int
  BY DEF Inv, TypeOK, WheelInStep, ClockInv, Slots
<1>p. target_pos' = now % Size /\ now % Size \in 0 .. Size - 1
  <2> DEFINE c == now - LastCheckTime
  <2>1. c \in Int /\ LastCheckTime + c = now
    BY <1>t
  <2>2. target_pos' = ((LastCheckTime % Size) + c) % Size
    <3>1. (now - LastCheckTime) + BucketPosNow = (LastCheckTime % Size) + c
      BY <1>t
    <3> QED BY <1>1, <3>1 DEF Target
  <2> HIDE DEF c
  <2>3. ((LastCheckTime % Size) + c) % Size = (LastCheckTime + c) % Size
    BY ONLY Size \in Nat \ {0}, <1>t, <2>1, ModAdd
  <2>4. now % Size \in 0 .. Size - 1
    BY <1>t, DivMod
  <2> QED BY <2>1, <2>2, <2>3, <2>4
<1>2. TypeOK'
  BY <1>1, <1>t, <1>p DEF TypeOK, Slots
<1>3. ClockInv'
  BY <1>1, <1>t, <1>p DEF ClockInv
<1>4. WheelInStep' /\ BucketInv' /\ CountCovers'
  BY <1>1 DEF Inv, WheelInStep, BucketInv, CountCovers
<1>5. MergeInv'
  BY <1>1, <1>t DEF MergeInv, Slots
<1> QED BY <1>2, <1>3, <1>4, <1>5 DEF Inv

(* What is collected from a slot on the way to the target has come due: it *)
(* was due within a turn, and the clock has gone at least as far.          *)
LEMMA CollectedIsDue ==
  ASSUME Inv, merging, BucketPosNow < i, i <= target_pos, NEW t \in bucket[i]
  PROVE  due[t] <= now_ms
<1>1. /\ i \in Slots /\ t \in Tasks /\ due[t] \in Int
      /\ LastCheckTime \in Int /\ now_ms \in Int /\ LastCheckTime <= now_ms
      /\ LastCheckTime % Size = BucketPosNow
      /\ now_ms % Size = target_pos
      /\ i \in Int /\ BucketPosNow \in Int /\ target_pos \in Int
  BY DEF Inv, TypeOK, ClockInv, WheelInStep, Slots
<1>2. due[t] % Size = i /\ due[t] <= LastCheckTime + Size
  BY <1>1 DEF Inv, WheelInStep, BucketInv
<1> DEFINE d == due[t]
<1> HIDE DEF d
<1>3. d \in Int /\ d % Size = i /\ d <= LastCheckTime + Size
  BY <1>1, <1>2 DEF d
<1>4. d <= LastCheckTime + i - BucketPosNow
  BY <1>1, <1>3, Distance
<1>5. now_ms >= LastCheckTime + target_pos - BucketPosNow
  BY <1>1, Distance
<1>6. d <= now_ms
  BY <1>1, <1>3, <1>4, <1>5
<1> QED BY <1>6 DEF d

(* One slot is emptied, its tasks are collected and counted off.           *)
LEMMA MergeBucketStep ==
  ASSUME Inv, MergeBucket
  PROVE  Inv'
<1>1. /\ merging /\ i <= target_pos
      /\ i' = (i + 1) % Size
      /\ result' = result \cup bucket[i]
      /\ bucket' = [bucket EXCEPT ![i] = {}]
      /\ ItemCount' = [ItemCount EXCEPT ![i] = @ - Cardinality(bucket[i])]
      /\ UNCHANGED <<now, LastCheckTime, BucketPosNow, merging, target_pos, now_ms,
                     lastCheckTime, due>>
  BY DEF MergeBucket, InLoop
<1>t. TypeOK /\ i \in Slots /\ i \in Int /\ target_pos \in 0 .. Size - 1
  BY <1>1 DEF Inv, TypeOK, Slots
<1>c. /\ \A b \in Slots : /\ IsFiniteSet(bucket[b]) /\ ItemCount[b] >= Cardinality(bucket[b])
                          /\ Cardinality(bucket[b]) \in Nat /\ ItemCount[b] \in Int
  BY <1>t, FS_CardinalityType DEF Inv, BucketInv, CountCovers, TypeOK
<1>f. /\ \A b \in Slots : bucket'[b] = IF b = i THEN {} ELSE bucket[b]
      /\ \A b \in Slots : b # i => ItemCount'[b] = ItemCount[b]
      /\ ItemCount'[i] = ItemCount[i] - Cardinality(bucket[i])
  BY <1>1, <1>t DEF TypeOK
<1>i. IF i = Size - 1 THEN i' = 0 ELSE i' = i + 1
  <2>1. CASE i = Size - 1
    <3>1. i + 1 = Size * 1 + 0 /\ 0 \in 0 .. Size - 1 /\ i + 1 \in Int
      BY <1>t, <2>1
    <3>2. (i + 1) % Size = 0
      BY <3>1, ModUnique
    <3> QED BY <1>1, <2>1, <3>2
  <2>2. CASE i # Size - 1
    <3> DEFINE j == i + 1
    <3>1. j = Size * 0 + j /\ j \in 0 .. Size - 1
      BY <1>t, <2>2 DEF Slots
    <3> HIDE DEF j
    <3>2. j % Size = j
      BY <3>1, ModUnique
    <3> QED BY <1>1, <2>2, <3>2 DEF j
  <2> QED BY <2>1, <2>2
<1>j. i' \in 0 .. Size - 1
  <2>1. i \in 0 .. Size - 1
    BY <1>t DEF Slots
  <2>2. CASE i = Size - 1
    BY <1>i, <2>2
  <2>3. CASE i # Size - 1
    BY <1>i, <2>1, <2>3
  <2> QED BY <2>2, <2>3
<1>2. TypeOK'
  <2>1. bucket' \in [Slots -> SUBSET Tasks] /\ result' \subseteq Tasks
    BY <1>1, <1>t DEF TypeOK
  <2>2. ItemCount' \in [Slots -> Int]
    BY <1>1, <1>t, <1>c DEF TypeOK
  <2>3. i' \in 0 .. Size
    BY <1>j
  <2> QED BY <1>1, <1>t, <2>1, <2>2, <2>3 DEF TypeOK
<1>3. ClockInv'
  BY <1>1 DEF Inv, ClockInv
<1>4. WheelInStep'
  BY <1>1, <1>f DEF Inv, WheelInStep
<1>5. BucketInv'
  BY <1>1, <1>f, FS_EmptySet DEF Inv, BucketInv
<1>6. CountCovers'
  <2>1. ASSUME NEW b \in Slots PROVE ItemCount'[b] >= Cardinality(bucket'[b])
    <3>1. CASE b = i
      BY <3>1, <1>c, <1>f, <1>t, FS_EmptySet
    <3>2. CASE b # i
      BY <3>2, <1>c, <1>f
    <3> QED BY <3>1, <3>2
  <2> QED BY <2>1 DEF CountCovers
<1>7. MergeInv'
  <2>1. \A b \in Slots : bucket'[b] \cap result' = {}
    <3>1. \A b \in Slots : b # i => bucket[b] \cap bucket[i] = {}
      BY <1>t DEF Inv, WheelInStep
    <3>2. \A b \in Slots : bucket[b] \cap result = {}
      BY DEF Inv, MergeInv
    <3> QED BY <3>1, <3>2, <1>1, <1>f
  <2>2. \A b \in Slots : BucketPosNow' < b /\ b < i' => bucket'[b] = {}
    <3>1. \A b \in Slots : BucketPosNow < b /\ b < i => bucket[b] = {}
      BY <1>1 DEF Inv, MergeInv
    <3>2. \A b \in Slots : b < i' => b < i \/ b = i
      BY <1>i, <1>t DEF Slots
    <3> QED BY <3>1, <3>2, <1>1, <1>f
  <2>3. \/ BucketPosNow' < i' /\ \A t \in result' : due'[t] <= now_ms'
        \/ i' < Size /\ target_pos' = Size - 1
    <3>1. CASE target_pos = Size - 1
      BY <3>1, <1>j, <1>1
    <3>2. CASE target_pos # Size - 1
      <4>1. BucketPosNow < i /\ \A t \in result : due[t] <= now_ms
        BY <3>2, <1>1 DEF Inv, MergeInv
      <4>2. \A t \in bucket[i] : due[t] <= now_ms
        BY <4>1, <1>1, CollectedIsDue
      <4>3. i' = i + 1
        BY <3>2, <1>i, <1>1, <1>t
      <4>4. BucketPosNow < i + 1
        BY <4>1, <1>t DEF TypeOK, Slots
      <4> QED BY <4>1, <4>2, <4>3, <4>4, <1>1
    <3> QED BY <3>1, <3>2
  <2> QED BY <2>1, <2>2, <2>3, <1>1 DEF MergeInv
<1> QED BY <1>2, <1>3, <1>4, <1>5, <1>6, <1>7 DEF Inv

(* The wheel stands where the clock stood when the merge began; what is    *)
(* left in it was due within a turn and still is.                          *)
LEMMA MergeEndStep ==
  ASSUME Inv, MergeEnd
  PROVE  Inv'
<1>1. /\ merging /\ ~merging'
      /\ BucketPosNow' = target_pos
      /\ LastCheckTime' = now_ms
      /\ lastCheckTime' = now
      /\ i' = 0 /\ target_pos' = 0 /\ now_ms' = 0 /\ result' = {}
      /\ due' = [t \in Tasks |-> IF t \in result THEN 0 ELSE due[t]]
      /\ UNCHANGED <<now, bucket, ItemCount>>
  BY DEF MergeEnd, LastCheckMerged
<1>m. merging' = FALSE
  BY DEF MergeEnd
<1>t. /\ TypeOK /\ LastCheckTime <= now_ms /\ now_ms <= now /\ target_pos = now_ms % Size
      /\ now_ms \in Nat /\ LastCheckTime \in Nat /\ now \in Nat
  BY <1>1 DEF Inv, ClockInv, TypeOK
<1>f. \A b \in Slots : \A t \in bucket[b] : due'[t] = due[t] /\ due[t] \in Nat
  <2>1. \A b \in Slots : \A t \in bucket[b] : t \in Tasks /\ t \notin result
    BY <1>t DEF Inv, MergeInv, TypeOK
  <2> QED BY <2>1, <1>1, <1>t DEF TypeOK
<1>2. TypeOK'
  <2>1. due' \in [Tasks -> Nat]
    BY <1>1, <1>t DEF TypeOK
  <2>2. 0 \in Slots /\ 0 \in 0 .. Size /\ 0 \in 0 .. MaxTime
    BY DEF Slots
  <2> QED BY <1>1, <1>m, <1>t, <2>1, <2>2 DEF TypeOK
<1>3. ClockInv'
  BY <1>1, <1>t DEF ClockInv
<1>4. WheelInStep'
  BY <1>1, <1>t, <1>f DEF Inv, WheelInStep
<1>5. BucketInv'
  <2>1. ASSUME NEW b \in Slots, NEW t \in bucket[b] PROVE due[t] <= now_ms + Size
    <3>1. due[t] <= LastCheckTime + Size
      BY DEF Inv, BucketInv
    <3> QED BY <3>1, <1>t, <1>f
  <2> QED BY <2>1, <1>1, <1>f DEF Inv, BucketInv
<1>6. CountCovers' /\ MergeInv'
  BY <1>1 DEF Inv, CountCovers, MergeInv
<1> QED BY <1>2, <1>3, <1>4, <1>5, <1>6 DEF Inv

(* Every step of the clock, the coroutines and the worker keeps it.        *)
LEMMA InvStep == Inv /\ [Next]_vars => Inv'
<1> SUFFICES ASSUME Inv, [Next]_vars PROVE Inv'
  OBVIOUS
<1>1. CASE Next
  BY <1>1, TickStep, ArmStep, RemoveStep, MergeBeginStep, MergeBucketStep, MergeEndStep
  DEF Next, Worker
<1>2. CASE UNCHANGED vars
  <2>1. UNCHANGED <<now, LastCheckTime, BucketPosNow, bucket, ItemCount, merging, i,
                    target_pos, now_ms, result, lastCheckTime, due>>
    BY <1>2 DEF vars, mergeVars
  <2>2. TypeOK'
    BY <2>1 DEF Inv, TypeOK
  <2>3. ClockInv' /\ WheelInStep'
    BY <2>1 DEF Inv, ClockInv, WheelInStep
  <2>4. BucketInv' /\ CountCovers' /\ MergeInv'
    BY <2>1 DEF Inv, BucketInv, CountCovers, MergeInv
  <2> QED BY <2>2, <2>3, <2>4 DEF Inv
<1> QED BY <1>1, <1>2

(* The invariant of the wheel. *)
LEMMA WheelInvariant == Spec => []Inv
BY InvInit, InvStep, PTL DEF Spec

-----------------------------------------------------------------------------
(* The variables of the wheel and of a merge stay in their types; in       *)
(* particular the merge never reads a bucket beyond the last.              *)
THEOREM WheelTypeCorrect == Spec => []TypeOK
<1>1. Inv => TypeOK
  BY DEF Inv
<1> QED BY <1>1, WheelInvariant, PTL

(* The wheel turns with the clock, and a linked task is in the bucket of   *)
(* its deadline, for every size of the wheel.                              *)
THEOREM WheelAlwaysInStep == Spec => []WheelInStep
<1>1. Inv => WheelInStep
  BY DEF Inv
<1> QED BY <1>1, WheelInvariant, PTL

(* A bucket's counter covers its tasks: pushAll2 never wraps it.           *)
THEOREM CountNeverWraps == Spec => []CountCovers
<1>1. Inv => CountCovers
  BY DEF Inv
<1> QED BY <1>1, WheelInvariant, PTL

(* Of all steps only the end of the merge ends it. *)
LEMMA OnlyTheEndEnds ==
  ASSUME [Next]_vars, merging, ~merging'
  PROVE  MergeEnd
<1>1. CASE Next
  BY <1>1 DEF Next, Worker, Tick, Arm, Remove, MergeBegin, MergeBucket, mergeVars
<1>2. CASE UNCHANGED vars
  BY <1>2 DEF vars, mergeVars
<1> QED BY <1>1, <1>2

(* No timeout comes early: what a merge commits has come due, whatever the *)
(* size of the wheel and however far the clock is ahead.                   *)
THEOREM NeverEarly == Spec => NotEarly
<1>1. Inv /\ [Next]_vars
        => [\A t \in Tasks : merging /\ ~merging' /\ t \in result => due[t] <= now]_vars
  <2> SUFFICES ASSUME Inv, [Next]_vars, NEW t \in Tasks,
                      merging, ~merging', t \in result
               PROVE  due[t] <= now
    OBVIOUS
  <2>1. ~InLoop
    BY OnlyTheEndEnds DEF MergeEnd
  <2>2. /\ i \in 0 .. Size /\ target_pos \in Slots /\ due[t] \in Nat
        /\ now_ms \in Nat /\ now \in Nat /\ now_ms <= now
    BY DEF Inv, TypeOK, ClockInv
  <2>3. ~(i < Size /\ target_pos = Size - 1)
    BY <2>1, <2>2 DEF InLoop
  <2>4. due[t] <= now_ms
    BY <2>3 DEF Inv, MergeInv
  <2> QED BY <2>2, <2>4
<1> QED BY <1>1, WheelInvariant, PTL DEF Spec, NotEarly

(* A merge within one turn of the wheel leaves nothing behind that has     *)
(* come due since the last one.                                            *)
THEOREM NothingLeftWithinTurn == Spec => NoneLeftWithinTurn
<1>1. Inv /\ [Next]_vars
        => [merging /\ ~merging' /\ now_ms \div Size = LastCheckTime \div Size
              => \A t \in Linked : ~(LastCheckTime < due[t] /\ due[t] <= now_ms)]_vars
  <2> SUFFICES ASSUME Inv, [Next]_vars, merging, ~merging',
                      now_ms \div Size = LastCheckTime \div Size,
                      NEW t \in Linked, LastCheckTime < due[t], due[t] <= now_ms
               PROVE  FALSE
    OBVIOUS
  <2>1. ~InLoop
    BY OnlyTheEndEnds DEF MergeEnd
  <2>2. PICK b \in Slots : t \in bucket[b]
    BY DEF Linked
  <2>3. /\ i \in 0 .. Size /\ target_pos \in Slots /\ due[t] \in Int
        /\ now_ms \in Int /\ LastCheckTime \in Int
        /\ target_pos = now_ms % Size
        /\ BucketPosNow = LastCheckTime % Size
        /\ due[t] % Size = b
    BY <2>2 DEF Inv, TypeOK, ClockInv, WheelInStep
  <2>4. BucketPosNow < b /\ b <= target_pos
    <3>1. LastCheckTime % Size < due[t] % Size /\ due[t] % Size <= now_ms % Size
      BY <2>3, WithinTurn
    <3> QED BY <2>3, <3>1
  <2>5. b < i
    BY <2>1, <2>3, <2>4 DEF InLoop, Slots
  <2>6. bucket[b] = {}
    BY <2>4, <2>5 DEF Inv, MergeInv
  <2> QED BY <2>2, <2>6
<1> QED BY <1>1, WheelInvariant, PTL DEF Spec, NoneLeftWithinTurn
=============================================================================
