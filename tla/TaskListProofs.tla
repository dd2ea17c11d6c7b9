---------------------------- MODULE TaskListProofs ----------------------------
(***************************************************************************)
(* Proofs about TaskList for any set of threads and of tasks.              *)
(***************************************************************************)
EXTENDS TaskList, Integers, TLAPS

USE TaskListAssumption

(* The part of the invariant that the lock order needs: a pop that has     *)
(* HeadMutex and looks at the count has not taken TailMutex.               *)
LockInv ==
  /\ HeadMutex \in Threads \cup {NULL} /\ TailMutex \in Threads \cup {NULL}
  /\ pc \in [Threads -> PCs]
  /\ LockOrder
  /\ \A t \in Threads : pc[t] = "popCheck" => TailMutex # t

(* The first state has no caller and free mutexes.                         *)
LEMMA LockInit == Init => LockInv
BY DEF Init, LockInv, LockOrder, PCs, Pushing, Popping

(* A thread that takes or returns a mutex changes nothing for the others:  *)
(* it takes only a free one and returns only its own.                      *)
LEMMA LockPush == ASSUME LockInv, NEW t \in Threads, Push(t) PROVE LockInv'
<1> USE DEF LockInv, LockOrder, At, Goto, PCs, Pushing, Popping
<1>1. CASE \E x \in Items : PushCall(t, x)
  BY <1>1 DEF PushCall, lockVars
<1>2. CASE PushStart(t)
  BY <1>2 DEF PushStart, lockVars
<1>3. CASE LockHead(t, "pushHead", "pushTail")
  BY <1>3 DEF LockHead, Free
<1>4. CASE LockTail(t, "pushTail", "pushCheck")
  BY <1>4 DEF LockTail, Free
<1>5. CASE PushCheck(t)
  BY <1>5 DEF PushCheck, RetryUnlocks
<1>6. CASE PushCount(t) \/ PushTest(t) \/ PushFirst(t) \/ PushLink(t) \/ PushEnd(t)
  BY <1>6 DEF PushCount, PushTest, PushFirst, PushLink, PushEnd, lockVars
<1>7. CASE PushOwner(t)
  BY <1>7 DEF PushOwner, Return, Unlock
<1> QED BY <1>1, <1>2, <1>3, <1>4, <1>5, <1>6, <1>7 DEF Push

(* The same for a pop. *)
LEMMA LockPop == ASSUME LockInv, NEW t \in Threads, Pop(t) PROVE LockInv'
<1> USE DEF LockInv, LockOrder, At, Goto, PCs, Pushing, Popping
<1>1. CASE PopCall(t)
  BY <1>1 DEF PopCall, lockVars
<1>2. CASE LockHead(t, "popHead", "popCheck")
  BY <1>2 DEF LockHead, Free
<1>3. CASE PopCheck(t)
  BY <1>3 DEF PopCheck, lockVars
<1>4. CASE LockTail(t, "popTail", "popUnsafe")
  BY <1>4 DEF LockTail, Free
<1>5. CASE PopUnsafe(t)
  BY <1>5 DEF PopUnsafe, Return, Unlock, lockVars
<1>6. CASE PopRemove(t)
  BY <1>6 DEF PopRemove, Delivers, Return, Unlock, lockVars
<1>7. CASE PopLastHead(t) \/ PopLastTail(t)
  BY <1>7 DEF PopLastHead, PopLastTail, Delivers, Return, Unlock, lockVars
<1> QED BY <1>1, <1>2, <1>3, <1>4, <1>5, <1>6, <1>7 DEF Pop

(* Every step of every thread keeps the order of the locks.                *)
LEMMA LockStep == LockInv /\ [Next]_vars => LockInv'
<1> SUFFICES ASSUME LockInv, [Next]_vars PROVE LockInv'
  OBVIOUS
<1>1. CASE UNCHANGED vars
  BY <1>1 DEF LockInv, LockOrder, vars, lockVars
<1>2. CASE Next
  BY <1>2, LockPush, LockPop DEF Next
<1> QED BY <1>1, <1>2

(* Both mutexes are always taken in the order head, tail, and released     *)
(* before the call is repeated or returns, by any number of threads.       *)
THEOREM LocksOrdered == Spec => []LockOrder
<1>1. LockInv => LockOrder
  BY DEF LockInv
<1> QED BY <1>1, LockInit, LockStep, PTL DEF Spec
-----------------------------------------------------------------------------
(* The places at which a thread has an item in hand.                       *)
Working == Pushing \cup {"popRemove", "popLastHead", "popLastTail"}

(* TypeOK but for the history miscounted, which every step sets.       *)
ListTypeOK ==
  /\ head \in Items \cup {NULL} /\ tail \in Items \cup {NULL}
  /\ next \in [Items -> Items \cup {NULL}]
  /\ owned \subseteq Items
  /\ ItemCount \in Nat
  /\ HeadMutex \in Threads \cup {NULL} /\ TailMutex \in Threads \cup {NULL}
  /\ pc \in [Threads -> PCs]
  /\ item \in [Threads -> Items \cup {NULL}]
  /\ pushed \in Seq(Items) /\ popped \in Seq(Items)
  /\ crashed \in BOOLEAN

(* A push never works without its item; a pop may lose its pointer to the  *)
(* list (next and head may be null), but not the item it has taken.        *)
TypeInv ==
  /\ ListTypeOK
  /\ \A t \in Threads : pc[t] \in Working => item[t] \in Items

(* TaskItemsList::New makes a typed list. *)
LEMMA TypeInit == Init => TypeInv
<1> SUFFICES ASSUME Init PROVE TypeInv
  OBVIOUS
<1>1. pushed \in Seq(Items) /\ popped \in Seq(Items) /\ ItemCount \in Nat
  BY DEF Init
<1>2. /\ pc \in [Threads -> PCs] /\ item \in [Threads -> Items \cup {NULL}]
      /\ \A t \in Threads : pc[t] \notin Working
  BY DEF Init, PCs, Pushing, Popping, Working
<1> QED BY <1>1, <1>2 DEF Init, TypeInv, ListTypeOK

(* A push keeps the types: what it links and counts is the caller's item.  *)
LEMMA TypePush == ASSUME TypeInv, NEW t \in Threads, Push(t) PROVE TypeInv'
<1> USE DEF TypeInv, ListTypeOK, At, Goto, PCs, Pushing, Popping, Working, lockVars, listVars
<1>1. CASE \E x \in Items : PushCall(t, x)
  BY <1>1 DEF PushCall
<1>2. CASE PushStart(t)
  BY <1>2 DEF PushStart
<1>3. CASE LockHead(t, "pushHead", "pushTail")
  BY <1>3 DEF LockHead
<1>4. CASE LockTail(t, "pushTail", "pushCheck")
  BY <1>4 DEF LockTail
<1>5. CASE PushCheck(t)
  BY <1>5 DEF PushCheck, RetryUnlocks
<1>6. CASE PushCount(t)
  BY <1>6 DEF PushCount
<1>7. CASE PushTest(t)
  BY <1>7 DEF PushTest
<1>8. CASE PushFirst(t) \/ PushEnd(t)
  BY <1>8 DEF PushFirst, PushEnd
<1>9. CASE PushLink(t)
  <2>1. pc[t] = "pushLink" /\ item[t] \in Items
    BY <1>9 DEF PushLink
  <2>2. CASE tail = NULL
    <3>1. crashed' = TRUE /\ UNCHANGED <<head, tail, next, owned, ItemCount, lockVars, pc,
                                         item, pushed, popped>>
      BY <1>9, <2>2, Zenon DEF PushLink
    <3> QED BY <3>1
  <2>3. CASE tail # NULL
    <3>1. /\ next' = [next EXCEPT ![tail] = item[t]]
          /\ pc' = [pc EXCEPT ![t] = "pushEnd"]
          /\ UNCHANGED <<head, tail, owned, ItemCount, lockVars, item, pushed, popped, crashed>>
      BY <1>9, <2>3, Zenon DEF PushLink
    <3> QED BY <2>1, <2>3, <3>1
  <2> QED BY <2>2, <2>3
<1>10. CASE PushOwner(t)
  BY <1>10 DEF PushOwner, Return, Unlock
<1> QED BY <1>1, <1>2, <1>3, <1>4, <1>5, <1>6, <1>7, <1>8, <1>9, <1>10 DEF Push

(* A pop keeps the types: it counts an item off only when one is counted.  *)
LEMMA TypePop == ASSUME TypeInv, NEW t \in Threads, Pop(t) PROVE TypeInv'
<1> USE DEF TypeInv, ListTypeOK, At, Goto, PCs, Pushing, Popping, Working, lockVars, listVars
<1>1. CASE PopCall(t)
  BY <1>1 DEF PopCall
<1>2. CASE LockHead(t, "popHead", "popCheck")
  BY <1>2 DEF LockHead
<1>3. CASE PopCheck(t)
  BY <1>3 DEF PopCheck
<1>4. CASE LockTail(t, "popTail", "popUnsafe")
  BY <1>4 DEF LockTail
<1>5. CASE PopUnsafe(t)
  BY <1>5 DEF PopUnsafe, NothingThere, CountedOff, Return, Unlock
<1>6. CASE PopRemove(t)
  <2>1. pc[t] = "popRemove" /\ item[t] \in Items
    BY <1>6 DEF PopRemove
  <2>2. CASE item[t] \notin owned
    <3>1. Return(t) /\ UNCHANGED <<listVars, popped, crashed, ItemCount, pushed>>
      BY <1>6, <2>2, Zenon DEF PopRemove
    <3> QED BY <2>1, <3>1 DEF Return, Unlock
  <2>3. CASE item[t] \in owned /\ item[t] # tail
    <3>1. /\ head' = next[item[t]]
          /\ Delivers(t)
          /\ UNCHANGED <<tail, ItemCount, pushed>>
      BY <1>6, <2>3, Zenon DEF PopRemove
    <3>2. crashed' \in BOOLEAN
      BY <1>6, <2>3, Zenon DEF PopRemove
    <3>3. next[item[t]] \in Items \cup {NULL} /\ Append(popped, item[t]) \in Seq(Items)
      BY <2>1
    <3> QED BY <2>1, <3>1, <3>2, <3>3 DEF Delivers, Return, Unlock
  <2>4. CASE item[t] \in owned /\ item[t] = tail
    BY <1>6, <2>1, <2>4 DEF PopRemove
  <2> QED BY <2>2, <2>3, <2>4
<1>7. CASE PopLastHead(t)
  BY <1>7 DEF PopLastHead
<1>8. CASE PopLastTail(t)
  BY <1>8 DEF PopLastTail, Delivers, Return, Unlock
<1> QED BY <1>1, <1>2, <1>3, <1>4, <1>5, <1>6, <1>7, <1>8 DEF Pop

(* Every step keeps the types. *)
LEMMA TypeStep == TypeInv /\ [Next]_vars => TypeInv'
<1> SUFFICES ASSUME TypeInv, [Next]_vars PROVE TypeInv'
  OBVIOUS
<1>1. CASE UNCHANGED vars
  BY <1>1 DEF TypeInv, ListTypeOK, vars, lockVars, listVars
<1>2. CASE Next
  BY <1>2, TypePush, TypePop DEF Next
<1> QED BY <1>1, <1>2

(* The history variable. *)
MiscountedOK == miscounted \in BOOLEAN

(* However many threads push and pop, ItemCount does not fall below zero   *)
(* (it is unsigned in the code) and the links stay links.                  *)
THEOREM ListTypeCorrect == Spec => []TypeOK
<1>1. Init => MiscountedOK
  BY DEF Init, MiscountedOK
<1>2. MiscountedOK /\ [Next]_vars => MiscountedOK'
  BY Zenon DEF Next, vars, MiscountedOK
<1>3. TypeInv /\ MiscountedOK => TypeOK
  BY Zenon DEF TypeInv, ListTypeOK, TypeOK, MiscountedOK
<1> QED BY <1>1, <1>2, <1>3, TypeInit, TypeStep, PTL DEF Spec

-----------------------------------------------------------------------------
(* Membership of a sequence, and the order of two of its members.          *)
Has(s, x) == \E k \in 1 .. Len(s) : s[k] = x
Before(s, x, y) == \E k, l \in 1 .. Len(s) : k < l /\ s[k] = x /\ s[l] = y
Once(s) == \A k, l \in 1 .. Len(s) : s[k] = s[l] => k = l

Uncounted == {"pushStart", "pushHead", "pushTail", "pushCheck", "pushCount"}
Unlinked == {"pushTest", "pushFirst", "pushLink"}
Removing == {"popRemove", "popLastHead", "popLastTail"}

(* Who changes the links holds the mutex of the end at which it works.     *)
EndsLocked ==
  \A t \in Threads :
    /\ pc[t] \in {"pushCheck", "pushCount", "pushEnd", "pushOwner"} \cup Unlinked => TailMutex = t
    /\ pc[t] \in {"popCheck", "popTail", "popUnsafe"} \cup Removing => HeadMutex = t

(* Nothing leads to x yet. *)
Fresh(x) ==
  /\ x # head /\ x # tail /\ ~Has(popped, x)
  /\ \A y \in Items : next[y] # x
  /\ \A u \in Threads : pc[u] \in Removing => item[u] # x

(* Every task is counted in once, and a push works on the last of them     *)
(* until it is linked.                                                     *)
PushInv ==
  /\ Once(pushed)
  /\ \A t, u \in Threads : /\ pc[t] \in Uncounted => ~Has(pushed, item[t])
                           /\ pc[t] \in Uncounted /\ pc[u] \in Uncounted /\ t # u
                                => item[t] # item[u]
  /\ \A t \in Threads :
       /\ pc[t] \in Unlinked => /\ pushed # <<>> /\ item[t] = pushed[Len(pushed)]
                                /\ Fresh(item[t])
       /\ pc[t] = "pushFirst" => head = NULL
       /\ pc[t] = "pushEnd" => Has(pushed, item[t])

(* What the list leads to has been counted in, and a link leads forward.   *)
LinkInv ==
  /\ head # NULL => Has(pushed, head)
  /\ tail # NULL => Has(pushed, tail)
  /\ \A x \in Items : next[x] # NULL => Before(pushed, x, next[x])

(* What has been taken out lies before all that still can be.              *)
TakenInv ==
  /\ \A k \in 1 .. Len(popped) : Has(pushed, popped[k])
  /\ head # NULL => \A k \in 1 .. Len(popped) : Before(pushed, popped[k], head)
  /\ \A u \in Threads :
       /\ pc[u] \in Removing => /\ Has(pushed, item[u])
                                /\ \A k \in 1 .. Len(popped) : Before(pushed, popped[k], item[u])
       /\ pc[u] \in {"popRemove", "popLastHead"} => head = item[u]
       /\ pc[u] = "popLastTail" /\ head # NULL => Before(pushed, item[u], head)

OrderInv == TypeInv /\ EndsLocked /\ PushInv /\ LinkInv /\ TakenInv /\ TakenOnceInOrder

(* A task counted in goes behind all the others. *)
LEMMA HasAppend ==
  ASSUME NEW s \in Seq(Items), NEW x \in Items
  PROVE  /\ \A y : Has(Append(s, x), y) <=> Has(s, y) \/ y = x
         /\ Once(s) /\ ~Has(s, x) => Once(Append(s, x))
         /\ \A y, z : Before(s, y, z) => Before(Append(s, x), y, z)
         /\ Append(s, x) # <<>> /\ Append(s, x)[Len(Append(s, x))] = x
<1>1. /\ Append(s, x) \in Seq(Items) /\ Len(Append(s, x)) = Len(s) + 1 /\ Len(s) \in Nat
      /\ \A k \in 1 .. Len(s) : Append(s, x)[k] = s[k]
      /\ Append(s, x)[Len(s) + 1] = x
      /\ Append(s, x) # <<>>
  OBVIOUS
<1>2. ASSUME NEW y PROVE Has(Append(s, x), y) <=> Has(s, y) \/ y = x
  <2>1. Has(s, y) => Has(Append(s, x), y)
    BY <1>1 DEF Has
  <2>2. Has(Append(s, x), x)
    BY <1>1 DEF Has
  <2>3. Has(Append(s, x), y) => Has(s, y) \/ y = x
    BY <1>1 DEF Has
  <2> QED BY <2>1, <2>2, <2>3
<1>3. Once(s) /\ ~Has(s, x) => Once(Append(s, x))
  BY <1>1 DEF Once, Has
<1>4. ASSUME NEW y, NEW z, Before(s, y, z) PROVE Before(Append(s, x), y, z)
  <2>1. PICK k \in 1 .. Len(s), l \in 1 .. Len(s) : k < l /\ s[k] = y /\ s[l] = z
    BY <1>4 DEF Before
  <2> QED BY <2>1, <1>1 DEF Before
<1> QED BY <1>1, <1>2, <1>3, <1>4

(* The order of the members is an order, and its ends are members.         *)
LEMMA BeforeOrder ==
  ASSUME NEW s \in Seq(Items), Once(s), NEW x, NEW y, Before(s, x, y)
  PROVE  /\ Has(s, x) /\ Has(s, y) /\ x # y
         /\ \A z : Before(s, y, z) => Before(s, x, z)
<1>1. PICK k \in 1 .. Len(s), l \in 1 .. Len(s) : k < l /\ s[k] = x /\ s[l] = y
  BY DEF Before
<1>2. ASSUME NEW z, Before(s, y, z) PROVE Before(s, x, z)
  <2>1. PICK i \in 1 .. Len(s), j \in 1 .. Len(s) : i < j /\ s[i] = y /\ s[j] = z
    BY <1>2 DEF Before
  <2>2. i = l
    BY <1>1, <2>1 DEF Once
  <2>3. k < j
    BY <1>1, <2>1, <2>2
  <2> QED BY <1>1, <2>1, <2>3 DEF Before
<1> QED BY <1>1, <1>2 DEF Has, Once

(* All other members come before the last. *)
LEMMA BeforeLast ==
  ASSUME NEW s \in Seq(Items), s # <<>>, NEW x, Has(s, x), x # s[Len(s)]
  PROVE  Before(s, x, s[Len(s)])
<1>1. PICK k \in 1 .. Len(s) : s[k] = x
  BY DEF Has
<1>2. Len(s) \in 1 .. Len(s) /\ k < Len(s)
  BY <1>1
<1> QED BY <1>1, <1>2 DEF Before

(* The first state has an empty list and no caller.                        *)
LEMMA OrderInit == Init => OrderInv
<1> SUFFICES ASSUME Init PROVE OrderInv
  OBVIOUS
<1>1. /\ \A t \in Threads : pc[t] = "idle"
      /\ pushed = <<>> /\ popped = <<>> /\ head = NULL /\ tail = NULL
      /\ \A x \in Items : next[x] = NULL
      /\ 1 .. Len(pushed) = {} /\ 1 .. Len(popped) = {}
  BY DEF Init
<1>2. EndsLocked /\ PushInv
  BY <1>1 DEF EndsLocked, PushInv, Once, Uncounted, Unlinked, Removing
<1>3. LinkInv /\ TakenInv /\ TakenOnceInOrder
  BY <1>1 DEF LinkInv, TakenInv, TakenOnceInOrder, Removing
<1> QED BY <1>2, <1>3, TypeInit DEF OrderInv


(* A mutex is free, or its holder alone works at that end.                 *)
LEMMA EndsStep ==
  ASSUME TypeInv, EndsLocked, NEW t \in Threads, Push(t) \/ Pop(t)
  PROVE  EndsLocked'
<1> USE DEF EndsLocked, At, Goto, PCs, Pushing, Popping, Unlinked, Removing, lockVars
<1>t. pc \in [Threads -> PCs]
  BY DEF TypeInv, ListTypeOK
<1>1. CASE \E x \in Items : PushCall(t, x)
  BY <1>1, <1>t DEF PushCall
<1>2. CASE PushStart(t) \/ PushCount(t) \/ PushTest(t) \/ PushFirst(t) \/ PushEnd(t)
  BY <1>2, <1>t DEF PushStart, PushCount, PushTest, PushFirst, PushEnd
<1>3. CASE LockHead(t, "pushHead", "pushTail") \/ LockHead(t, "popHead", "popCheck")
  BY <1>3, <1>t DEF LockHead, Free
<1>4. CASE LockTail(t, "pushTail", "pushCheck") \/ LockTail(t, "popTail", "popUnsafe")
  BY <1>4, <1>t DEF LockTail, Free
<1>5. CASE PushCheck(t)
  BY <1>5, <1>t DEF PushCheck, RetryUnlocks
<1>6. CASE PushLink(t)
  BY <1>6, <1>t DEF PushLink
<1>7. CASE PushOwner(t)
  BY <1>7, <1>t DEF PushOwner, Return, Unlock
<1>8. CASE PopCall(t) \/ PopCheck(t) \/ PopLastHead(t)
  BY <1>8, <1>t DEF PopCall, PopCheck, PopLastHead
<1>9. CASE PopUnsafe(t)
  BY <1>9, <1>t DEF PopUnsafe, Return, Unlock
<1>10. CASE PopRemove(t)
  BY <1>10, <1>t DEF PopRemove, Delivers, Return, Unlock
<1>11. CASE PopLastTail(t)
  BY <1>11, <1>t DEF PopLastTail, Delivers, Return, Unlock
<1> QED BY <1>1, <1>2, <1>3, <1>4, <1>5, <1>6, <1>7, <1>8, <1>9, <1>10, <1>11 DEF Push, Pop


(* What a step of t that changes no link, but only its place or its item,  *)
(* has to respect.                                                         *)
LEMMA PlaceStep ==
  ASSUME OrderInv, NEW t \in Threads,
         UNCHANGED <<head, tail, next, pushed, popped>>,
         \A u \in Threads : u # t => pc'[u] = pc[u] /\ item'[u] = item[u],
         pc'[t] \in Uncounted =>
           /\ ~Has(pushed, item'[t])
           /\ \A u \in Threads : u # t /\ pc[u] \in Uncounted => item[u] # item'[t],
         pc'[t] \in Unlinked =>
           pushed # <<>> /\ item'[t] = pushed[Len(pushed)] /\ Fresh(item'[t]),
         pc'[t] = "pushFirst" => head = NULL,
         pc'[t] # "pushEnd",
         pc'[t] \in Removing => head # NULL /\ head = item'[t] /\ pc'[t] # "popLastTail"
  PROVE  PushInv' /\ LinkInv' /\ TakenInv' /\ TakenOnceInOrder'
<1> USE DEF OrderInv
<1>1. LinkInv' /\ TakenOnceInOrder'
  BY DEF LinkInv, TakenOnceInOrder, Has, Before
<1>2. TakenInv'
  <2>1. /\ \A k \in 1 .. Len(popped) : Has(pushed, popped[k])
        /\ head # NULL => /\ Has(pushed, head)
                          /\ \A k \in 1 .. Len(popped) : Before(pushed, popped[k], head)
    BY DEF TakenInv, LinkInv
  <2>2. ASSUME NEW u \in Threads
        PROVE  /\ pc'[u] \in Removing =>
                    /\ Has(pushed, item'[u])
                    /\ \A k \in 1 .. Len(popped) : Before(pushed, popped[k], item'[u])
               /\ pc'[u] \in {"popRemove", "popLastHead"} => head = item'[u]
               /\ pc'[u] = "popLastTail" /\ head # NULL => Before(pushed, item'[u], head)
    <3>1. CASE u = t
      BY <3>1, <2>1 DEF Removing
    <3>2. CASE u # t
      BY <3>2 DEF TakenInv
    <3> QED BY <3>1, <3>2
  <2> QED BY <2>1, <2>2 DEF TakenInv
<1>3. ASSUME NEW x, Fresh(x) PROVE Fresh(x)'
  BY <1>3 DEF Fresh, Has
<1>4. PushInv'
  <2>1. Once(pushed)' /\ \A x : Has(pushed, x)' <=> Has(pushed, x)
    BY DEF PushInv, Once, Has
  <2>2. ASSUME NEW u \in Threads
        PROVE  /\ pc'[u] \in Uncounted => ~Has(pushed, item'[u])
               /\ pc'[u] \in Unlinked => /\ pushed # <<>> /\ item'[u] = pushed[Len(pushed)]
                                         /\ Fresh(item'[u])
               /\ pc'[u] = "pushFirst" => head = NULL
               /\ pc'[u] = "pushEnd" => Has(pushed, item'[u])
    BY DEF PushInv
  <2>3. ASSUME NEW u \in Threads, NEW v \in Threads, u # v,
               pc'[u] \in Uncounted, pc'[v] \in Uncounted
        PROVE  item'[u] # item'[v]
    BY <2>3 DEF PushInv
  <2>4. ASSUME NEW u \in Threads, pc'[u] \in Unlinked PROVE Fresh(item[u])'
    <3> DEFINE x == item[u]
    <3>1. PICK y : y = item'[u]
      OBVIOUS
    <3>2. Fresh(y)
      BY <2>2, <2>4, <3>1
    <3>3. Fresh(y)'
      BY <3>2, <1>3
    <3> QED BY <3>1, <3>3 DEF Fresh
  <2> QED BY <2>1, <2>2, <2>3, <2>4 DEF PushInv
<1> QED BY <1>1, <1>2, <1>4


(* The steps of a push that change no link. *)
LEMMA OrderPushPlaces ==
  ASSUME OrderInv, NEW t \in Threads,
         \/ \E x \in Items : PushCall(t, x)
         \/ PushStart(t)
         \/ LockHead(t, "pushHead", "pushTail") \/ LockTail(t, "pushTail", "pushCheck")
         \/ PushCheck(t) \/ PushTest(t) \/ PushOwner(t)
  PROVE  PushInv' /\ LinkInv' /\ TakenInv' /\ TakenOnceInOrder'
<1> USE DEF At, Goto, lockVars, listVars
<1>t. /\ pc \in [Threads -> PCs] /\ item \in [Threads -> Items \cup {NULL}] /\ PushInv
  BY DEF OrderInv, TypeInv, ListTypeOK
<1>u. \A u \in Threads : u # t => pc'[u] = pc[u] /\ item'[u] = item[u]
  BY <1>t DEF PushCall, PushStart, LockHead, LockTail, PushCheck, PushTest, PushOwner, Return
<1>v. UNCHANGED <<head, tail, next, pushed, popped>>
  BY DEF PushCall, PushStart, LockHead, LockTail, PushCheck, PushTest, PushOwner
<1>1. ASSUME pc[t] \in Uncounted, pc'[t] \in Uncounted, item'[t] = item[t]
      PROVE  PushInv' /\ LinkInv' /\ TakenInv' /\ TakenOnceInOrder'
  <2>1. /\ ~Has(pushed, item'[t])
        /\ \A u \in Threads : u # t /\ pc[u] \in Uncounted => item[u] # item'[t]
    BY <1>1, <1>t DEF PushInv
  <2>2. pc'[t] \notin Unlinked /\ pc'[t] \notin {"pushFirst", "pushEnd"} /\ pc'[t] \notin Removing
    BY <1>1 DEF Uncounted, Unlinked, Removing
  <2> QED BY <2>1, <2>2, <1>u, <1>v, PlaceStep
<1>2. CASE \E x \in Items : PushCall(t, x)
  <2>1. PICK x \in Items : PushCall(t, x)
    BY <1>2
  <2>2. /\ pc'[t] = "pushStart" /\ item'[t] = x
        /\ ~Has(pushed, x) /\ \A u \in Threads : item[u] # x
    BY <2>1, <1>t DEF PushCall, Has
  <2>3. pc'[t] \notin Unlinked /\ pc'[t] \notin {"pushFirst", "pushEnd"} /\ pc'[t] \notin Removing
    BY <2>2 DEF Unlinked, Removing
  <2> QED BY <2>2, <2>3, <1>u, <1>v, PlaceStep
<1>3. CASE PushStart(t)
  BY <1>1, <1>3, <1>t DEF PushStart, Uncounted
<1>4. CASE LockHead(t, "pushHead", "pushTail")
  BY <1>1, <1>4, <1>t DEF LockHead, Uncounted
<1>5. CASE LockTail(t, "pushTail", "pushCheck")
  BY <1>1, <1>5, <1>t DEF LockTail, Uncounted
<1>6. CASE PushCheck(t)
  BY <1>1, <1>6, <1>t DEF PushCheck, Uncounted
<1>7. CASE PushTest(t)
  <2>1. /\ pc[t] = "pushTest" /\ item'[t] = item[t]
        /\ pc'[t] \in {"pushFirst", "pushLink"}
        /\ pc'[t] = "pushFirst" => head = NULL
    BY <1>7, <1>t DEF PushTest
  <2>2. pushed # <<>> /\ item'[t] = pushed[Len(pushed)] /\ Fresh(item[t])
    BY <2>1, <1>t DEF PushInv, Unlinked
  <2>3. pc'[t] \notin Uncounted /\ pc'[t] # "pushEnd" /\ pc'[t] \notin Removing
    BY <2>1 DEF Uncounted, Removing
  <2> QED BY <2>1, <2>2, <2>3, <1>u, <1>v, PlaceStep
<1>8. CASE PushOwner(t)
  <2>1. pc'[t] = "idle"
    BY <1>8, <1>t DEF PushOwner, Return
  <2>2. /\ pc'[t] \notin Uncounted /\ pc'[t] \notin Unlinked /\ pc'[t] \notin Removing
        /\ pc'[t] \notin {"pushFirst", "pushEnd"}
    BY <2>1 DEF Uncounted, Unlinked, Removing
  <2> QED BY <2>2, <1>u, <1>v, PlaceStep
<1> QED BY <1>2, <1>3, <1>4, <1>5, <1>6, <1>7, <1>8

(* The steps of a pop that change no link.                                 *)
LEMMA OrderPopPlaces ==
  ASSUME OrderInv, NEW t \in Threads,
         \/ PopCall(t) \/ PopCheck(t) \/ PopUnsafe(t)
         \/ LockHead(t, "popHead", "popCheck") \/ LockTail(t, "popTail", "popUnsafe")
         \/ PopRemove(t) /\ (item[t] \notin owned \/ item[t] = tail)
  PROVE  PushInv' /\ LinkInv' /\ TakenInv' /\ TakenOnceInOrder'
<1> USE DEF At, Goto, lockVars, listVars
<1>t. /\ pc \in [Threads -> PCs] /\ item \in [Threads -> Items \cup {NULL}]
      /\ PushInv /\ TakenInv /\ \A u \in Threads : pc[u] \in Working => item[u] \in Items
  BY DEF OrderInv, TypeInv, ListTypeOK
<1>u. \A u \in Threads : u # t => pc'[u] = pc[u] /\ item'[u] = item[u]
  BY <1>t DEF PopCall, PopCheck, PopUnsafe, LockHead, LockTail, PopRemove, Return
<1>v. UNCHANGED <<head, tail, next, pushed, popped>>
  BY DEF PopCall, PopCheck, PopUnsafe, LockHead, LockTail, PopRemove
<1>1. ASSUME pc'[t] \in {"idle", "popHead", "popCheck", "popTail", "popUnsafe"}
      PROVE  PushInv' /\ LinkInv' /\ TakenInv' /\ TakenOnceInOrder'
  <2>1. /\ pc'[t] \notin Uncounted /\ pc'[t] \notin Unlinked /\ pc'[t] \notin Removing
        /\ pc'[t] \notin {"pushFirst", "pushEnd"}
    BY <1>1 DEF Uncounted, Unlinked, Removing
  <2> QED BY <2>1, <1>u, <1>v, PlaceStep
<1>2. ASSUME pc'[t] \in {"popRemove", "popLastHead"}, head = item'[t], head # NULL
      PROVE  PushInv' /\ LinkInv' /\ TakenInv' /\ TakenOnceInOrder'
  <2>1. /\ pc'[t] \notin Uncounted /\ pc'[t] \notin Unlinked
        /\ pc'[t] \notin {"pushFirst", "pushEnd", "popLastTail"}
    BY <1>2 DEF Uncounted, Unlinked
  <2> QED BY <2>1, <1>2, <1>u, <1>v, PlaceStep
<1>3. CASE PopCall(t)
  BY <1>1, <1>3, <1>t DEF PopCall
<1>4. CASE PopCheck(t)
  BY <1>1, <1>4, <1>t DEF PopCheck
<1>5. CASE LockHead(t, "popHead", "popCheck")
  BY <1>1, <1>5, <1>t DEF LockHead
<1>6. CASE LockTail(t, "popTail", "popUnsafe")
  BY <1>1, <1>6, <1>t DEF LockTail
<1>7. CASE PopUnsafe(t)
  <2>1. CASE NothingThere
    <3>1. pc'[t] = "idle"
      BY <2>1, <1>7, <1>t DEF PopUnsafe, Return
    <3> QED BY <3>1, <1>1
  <2>2. CASE ~NothingThere
    <3>1. pc'[t] = "popRemove" /\ item'[t] = head /\ head # NULL
      BY <2>2, <1>7, <1>t DEF PopUnsafe, NothingThere
    <3> QED BY <3>1, <1>2
  <2> QED BY <2>1, <2>2
<1>8. CASE PopRemove(t) /\ (item[t] \notin owned \/ item[t] = tail)
  <2>1. pc[t] = "popRemove" /\ head = item[t] /\ item[t] \in Items
    BY <1>8, <1>t DEF PopRemove, TakenInv, Working
  <2>2. \/ pc'[t] = "idle"
        \/ pc'[t] = "popLastHead" /\ item'[t] = item[t]
    BY <1>8, <1>t DEF PopRemove, Return
  <2> QED BY <2>1, <2>2, <1>1, <1>2
<1> QED BY <1>3, <1>4, <1>5, <1>6, <1>7, <1>8


(* Counting a task in makes it the last, and nothing leads to it yet.      *)
LEMMA OrderPushCount ==
  ASSUME OrderInv, NEW t \in Threads, PushCount(t)
  PROVE  PushInv' /\ LinkInv' /\ TakenInv' /\ TakenOnceInOrder'
<1> USE DEF OrderInv
<1>1. PICK x \in Items :
        /\ pc[t] = "pushCount" /\ item[t] = x /\ ~Has(pushed, x)
        /\ pushed' = Append(pushed, x)
        /\ pc' = [pc EXCEPT ![t] = "pushTest"]
        /\ UNCHANGED <<head, tail, next, item, popped>>
  BY DEF PushCount, At, Goto, listVars, TypeInv, Working, Pushing, PushInv, Uncounted
<1>2. pc'[t] = "pushTest" /\ \A u \in Threads : u # t => pc'[u] = pc[u]
  BY <1>1 DEF TypeInv, ListTypeOK
<1>3. /\ \A y : Has(pushed', y) <=> Has(pushed, y) \/ y = x
      /\ Once(pushed')
      /\ \A y, z : Before(pushed, y, z) => Before(pushed', y, z)
      /\ pushed' # <<>> /\ pushed'[Len(pushed')] = x
  <2>1. pushed \in Seq(Items) /\ Once(pushed)
    BY DEF TypeInv, ListTypeOK, PushInv
  <2> QED BY ONLY <2>1, <1>1, HasAppend
<1>4. LinkInv'
  BY <1>1, <1>3 DEF LinkInv
<1>5. TakenOnceInOrder'
  <2>1. \A i, j \in 1 .. Len(popped) : i < j => Before(pushed, popped[i], popped[j])
    BY DEF TakenOnceInOrder, Before
  <2>2. \A i, j \in 1 .. Len(popped') : i < j => Before(pushed', popped'[i], popped'[j])
    BY <2>1, <1>1, <1>3
  <2> QED BY <2>2 DEF TakenOnceInOrder, Before
<1>6. TakenInv'
  <2>1. ASSUME NEW u \in Threads
        PROVE  /\ pc'[u] \in Removing =>
                    /\ Has(pushed', item'[u])
                    /\ \A k \in 1 .. Len(popped') : Before(pushed', popped'[k], item'[u])
               /\ pc'[u] \in {"popRemove", "popLastHead"} => head' = item'[u]
               /\ pc'[u] = "popLastTail" /\ head' # NULL => Before(pushed', item'[u], head')
    <3>1. CASE u = t
      BY <3>1, <1>2 DEF Removing
    <3>2. CASE u # t
      BY <3>2, <1>1, <1>2, <1>3 DEF TakenInv
    <3> QED BY <3>1, <3>2
  <2>2. /\ \A k \in 1 .. Len(popped') : Has(pushed', popped'[k])
        /\ head' # NULL => \A k \in 1 .. Len(popped') : Before(pushed', popped'[k], head')
    BY <1>1, <1>3 DEF TakenInv
  <2> QED BY <2>1, <2>2 DEF TakenInv
<1>7. Fresh(x)'
  <2>1. x # head /\ x # tail
    BY <1>1 DEF LinkInv
  <2>2. ~Has(popped, x)
    BY <1>1 DEF TakenInv, Has
  <2>3. ASSUME NEW y \in Items PROVE next[y] # x
    <3>1. next[y] # NULL => Has(pushed, next[y])
      BY DEF LinkInv, Before, Has
    <3> QED BY <3>1, <1>1
  <2>4. ASSUME NEW u \in Threads, pc'[u] \in Removing PROVE item[u] # x
    <3>1. pc[u] \in Removing
      BY <2>4, <1>2 DEF Removing
    <3> QED BY <3>1, <1>1 DEF TakenInv
  <2>5. ~Has(popped', x)
    BY <2>2, <1>1
  <2> QED BY <2>1, <2>3, <2>4, <2>5, <1>1 DEF Fresh
<1>8. PushInv'
  <2>1. ASSUME NEW u \in Threads, pc'[u] \in Uncounted
        PROVE  u # t /\ pc[u] \in Uncounted /\ ~Has(pushed', item'[u])
    <3>1. u # t
      BY <2>1, <1>2 DEF Uncounted
    <3>2. pc[u] \in Uncounted /\ pc[t] \in Uncounted
      BY <2>1, <3>1, <1>1, <1>2 DEF Uncounted
    <3>3. ~Has(pushed, item[u]) /\ item[u] # x
      BY <3>1, <3>2, <1>1 DEF PushInv
    <3> QED BY <3>1, <3>2, <3>3, <1>1, <1>3
  <2>2. \A u, v \in Threads : pc'[u] \in Uncounted /\ pc'[v] \in Uncounted /\ u # v
                                => item'[u] # item'[v]
    BY <2>1, <1>1 DEF PushInv
  <2>3. ASSUME NEW u \in Threads, pc'[u] \in Unlinked \cup {"pushEnd"} PROVE u = t
    BY <2>3, <1>1, <1>2 DEF EndsLocked
  <2>4. ASSUME NEW u \in Threads, pc'[u] \in Unlinked PROVE Fresh(item[u])'
    <3>1. u = t /\ item'[t] = x
      BY <2>3, <2>4, <1>1
    <3> QED BY <3>1, <1>7 DEF Fresh
  <2>5. ASSUME NEW u \in Threads
        PROVE  /\ pc'[u] \in Unlinked => pushed' # <<>> /\ item'[u] = pushed'[Len(pushed')]
               /\ pc'[u] # "pushFirst" /\ pc'[u] # "pushEnd"
    BY <2>3, <1>1, <1>2, <1>3 DEF Unlinked
  <2> QED BY <2>1, <2>2, <2>4, <2>5, <1>3 DEF PushInv
<1> QED BY <1>4, <1>5, <1>6, <1>8


(* A push into the empty list makes its task the head: it is behind all    *)
(* that was taken out, and behind what a pop is just taking out.           *)
LEMMA OrderPushFirst ==
  ASSUME OrderInv, NEW t \in Threads, PushFirst(t)
  PROVE  PushInv' /\ LinkInv' /\ TakenInv' /\ TakenOnceInOrder'
<1> USE DEF OrderInv
<1>1. PICK x \in Items :
        /\ pc[t] = "pushFirst" /\ item[t] = x /\ head = NULL
        /\ pushed # <<>> /\ x = pushed[Len(pushed)] /\ Fresh(x)
        /\ head' = x /\ tail' = x
        /\ pc' = [pc EXCEPT ![t] = "pushOwner"]
        /\ UNCHANGED <<next, item, pushed, popped>>
  BY DEF PushFirst, At, Goto, listVars, TypeInv, Working, Pushing, PushInv, Unlinked
<1>2. pc'[t] = "pushOwner" /\ \A u \in Threads : u # t => pc'[u] = pc[u]
  BY <1>1 DEF TypeInv, ListTypeOK
<1>3. /\ pushed \in Seq(Items) /\ Has(pushed, x)
      /\ \A y : Has(pushed, y) /\ y # x => Before(pushed, y, x)
  <2>1. pushed \in Seq(Items) /\ Len(pushed) \in 1 .. Len(pushed)
    BY <1>1 DEF TypeInv, ListTypeOK
  <2> QED BY <2>1, <1>1, BeforeLast DEF Has
<1>4. LinkInv'
  BY <1>1, <1>3 DEF LinkInv
<1>5. TakenOnceInOrder'
  BY <1>1 DEF TakenOnceInOrder
<1>6. TakenInv'
  <2>1. \A k \in 1 .. Len(popped) : Has(pushed, popped[k]) /\ popped[k] # x
    BY <1>1 DEF TakenInv, Fresh, Has
  <2>2. ASSUME NEW u \in Threads, pc'[u] \in Removing
        PROVE  /\ u # t /\ pc[u] \in Removing /\ pc'[u] = "popLastTail"
               /\ item[u] # x /\ Has(pushed, item[u])
    <3>1. u # t /\ pc[u] \in Removing
      BY <2>2, <1>2 DEF Removing
    <3>2. item[u] # x /\ Has(pushed, item[u])
      BY <3>1, <1>1 DEF Fresh, TakenInv
    <3>3. item[u] \in Items
      BY <3>1 DEF TypeInv, Working, Removing
    <3>4. pc[u] = "popLastTail"
      BY <3>1, <3>3, <1>1 DEF TakenInv, Removing
    <3> QED BY <3>1, <3>2, <3>4, <1>2
  <2>3. ASSUME NEW u \in Threads
        PROVE  /\ pc'[u] \in Removing =>
                    /\ Has(pushed', item'[u])
                    /\ \A k \in 1 .. Len(popped') : Before(pushed', popped'[k], item'[u])
               /\ pc'[u] \in {"popRemove", "popLastHead"} => head' = item'[u]
               /\ pc'[u] = "popLastTail" /\ head' # NULL => Before(pushed', item'[u], head')
    <3>1. pc'[u] \in {"popRemove", "popLastHead"} => pc'[u] \in Removing /\ pc'[u] # "popLastTail"
      BY DEF Removing
    <3>2. pc'[u] = "popLastTail" => pc'[u] \in Removing
      BY DEF Removing
    <3> QED BY <3>1, <3>2, <2>2, <1>1, <1>3 DEF TakenInv
  <2>4. /\ \A k \in 1 .. Len(popped') : Has(pushed', popped'[k])
        /\ head' # NULL => \A k \in 1 .. Len(popped') : Before(pushed', popped'[k], head')
    BY <2>1, <1>1, <1>3
  <2> QED BY <2>3, <2>4 DEF TakenInv
<1>7. PushInv'
  <2>1. ASSUME NEW u \in Threads, pc'[u] \in Uncounted
        PROVE  u # t /\ pc[u] \in Uncounted
    BY <2>1, <1>2 DEF Uncounted
  <2>2. ASSUME NEW u \in Threads PROVE pc'[u] \notin Unlinked \cup {"pushEnd"}
    <3>1. CASE u = t
      BY <3>1, <1>2 DEF Unlinked
    <3>2. CASE u # t
      BY <3>2, <1>1, <1>2 DEF EndsLocked, Unlinked
    <3> QED BY <3>1, <3>2
  <2>3. "pushFirst" \in Unlinked
    BY DEF Unlinked
  <2> QED BY <2>1, <2>2, <2>3, <1>1 DEF PushInv
<1> QED BY <1>4, <1>5, <1>6, <1>7

(* Linking a task behind the tail leads forward, for it is the last.       *)
LEMMA OrderPushLink ==
  ASSUME OrderInv, NEW t \in Threads, PushLink(t)
  PROVE  PushInv' /\ LinkInv' /\ TakenInv' /\ TakenOnceInOrder'
<1> USE DEF OrderInv
<1>1. PICK x \in Items :
        /\ pc[t] = "pushLink" /\ item[t] = x
        /\ pushed # <<>> /\ x = pushed[Len(pushed)] /\ Fresh(x)
        /\ UNCHANGED <<head, tail, item, pushed, popped>>
        /\ \/ UNCHANGED <<next, pc>>
           \/ /\ tail # NULL
              /\ next' = [next EXCEPT ![tail] = x]
              /\ pc' = [pc EXCEPT ![t] = "pushEnd"]
  <2>1. pc[t] = "pushLink" /\ item[t] \in Items
    BY DEF PushLink, At, TypeInv, Working, Pushing
  <2> QED BY <2>1 DEF PushLink, Goto, PushInv, Unlinked
<1>2. CASE UNCHANGED <<next, pc>>
  <2>1. UNCHANGED <<head, tail, next, pushed, popped, pc, item>>
    BY <1>1, <1>2
  <2>2. PushInv'
    BY <2>1 DEF PushInv, Fresh
  <2> QED BY <2>1, <2>2 DEF LinkInv, TakenInv, TakenOnceInOrder
<1>3. CASE /\ tail # NULL
           /\ next' = [next EXCEPT ![tail] = x]
           /\ pc' = [pc EXCEPT ![t] = "pushEnd"]
  <2>1. pc'[t] = "pushEnd" /\ \A u \in Threads : u # t => pc'[u] = pc[u]
    BY <1>3 DEF TypeInv, ListTypeOK
  <2>2. /\ tail \in Items /\ tail # x /\ Has(pushed, tail) /\ Has(pushed, x)
        /\ Before(pushed, tail, x)
        /\ \A y \in Items : next'[y] = IF y = tail THEN x ELSE next[y]
    <3>1. /\ pushed \in Seq(Items) /\ Len(pushed) \in 1 .. Len(pushed)
          /\ next \in [Items -> Items \cup {NULL}] /\ tail \in Items
      BY <1>1, <1>3 DEF TypeInv, ListTypeOK
    <3>2. tail # x /\ Has(pushed, tail) /\ Has(pushed, x)
      BY <3>1, <1>1, <1>3 DEF Fresh, LinkInv, Has
    <3>3. Before(pushed, tail, x)
      BY <3>1, <3>2, <1>1, BeforeLast
    <3> QED BY <3>1, <3>2, <3>3, <1>3
  <2>3. LinkInv'
    BY <2>2, <1>1 DEF LinkInv
  <2>4. TakenOnceInOrder'
    BY <1>1 DEF TakenOnceInOrder
  <2>5. TakenInv'
    <3>1. \A u \in Threads : pc'[u] \in Removing => u # t
      BY <2>1 DEF Removing
    <3>2. {"popRemove", "popLastHead", "popLastTail"} = Removing
      BY DEF Removing
    <3> QED BY <3>1, <3>2, <2>1, <1>1 DEF TakenInv
  <2>6. PushInv'
    <3>1. ASSUME NEW u \in Threads, pc'[u] \in Uncounted
          PROVE  u # t /\ pc[u] \in Uncounted
      BY <3>1, <2>1 DEF Uncounted
    <3>2. ASSUME NEW u \in Threads
          PROVE  pc'[u] \notin Unlinked /\ (pc'[u] = "pushEnd" => u = t)
      <4>1. CASE u = t
        BY <4>1, <2>1 DEF Unlinked
      <4>2. CASE u # t
        BY <4>2, <1>1, <2>1 DEF EndsLocked, Unlinked
      <4> QED BY <4>1, <4>2
    <3>3. "pushFirst" \in Unlinked
      BY DEF Unlinked
    <3> QED BY <3>1, <3>2, <3>3, <2>2, <1>1 DEF PushInv
  <2> QED BY <2>3, <2>4, <2>5, <2>6
<1> QED BY <1>1, <1>2, <1>3

(* The new tail has been counted in. *)
LEMMA OrderPushEnd ==
  ASSUME OrderInv, NEW t \in Threads, PushEnd(t)
  PROVE  PushInv' /\ LinkInv' /\ TakenInv' /\ TakenOnceInOrder'
<1> USE DEF OrderInv
<1>1. /\ pc[t] = "pushEnd" /\ Has(pushed, item[t])
      /\ tail' = item[t]
      /\ pc' = [pc EXCEPT ![t] = "pushOwner"]
      /\ UNCHANGED <<head, next, item, pushed, popped>>
  BY DEF PushEnd, At, Goto, PushInv
<1>2. pc'[t] = "pushOwner" /\ \A u \in Threads : u # t => pc'[u] = pc[u]
  BY <1>1 DEF TypeInv, ListTypeOK
<1>3. LinkInv' /\ TakenOnceInOrder'
  BY <1>1 DEF LinkInv, TakenOnceInOrder
<1>4. TakenInv'
  <2>1. \A u \in Threads : pc'[u] \in Removing => u # t
    BY <1>2 DEF Removing
  <2>2. {"popRemove", "popLastHead", "popLastTail"} = Removing
    BY DEF Removing
  <2> QED BY <2>1, <2>2, <1>1, <1>2 DEF TakenInv
<1>5. PushInv'
  <2>1. ASSUME NEW u \in Threads, pc'[u] \in Uncounted
        PROVE  u # t /\ pc[u] \in Uncounted
    BY <2>1, <1>2 DEF Uncounted
  <2>2. ASSUME NEW u \in Threads PROVE pc'[u] \notin Unlinked \cup {"pushEnd"}
    <3>1. CASE u = t
      BY <3>1, <1>2 DEF Unlinked
    <3>2. CASE u # t
      BY <3>2, <1>1, <1>2 DEF EndsLocked, Unlinked
    <3> QED BY <3>1, <3>2
  <2>3. "pushFirst" \in Unlinked
    BY DEF Unlinked
  <2> QED BY <2>1, <2>2, <2>3, <1>1 DEF PushInv
<1> QED BY <1>3, <1>4, <1>5


(* A pop delivers what it has in hand, behind all that was taken out       *)
(* before, when the head has moved on to what comes later.                 *)
LEMMA OrderDelivers ==
  ASSUME OrderInv, NEW t \in Threads, pc[t] \in Removing, Delivers(t),
         pushed' = pushed, tail' \in {tail, NULL},
         head' = head \/ (head' = next[item[t]] /\ pc[t] = "popRemove"),
         head' # NULL => Before(pushed, item[t], head')
  PROVE  PushInv' /\ LinkInv' /\ TakenInv' /\ TakenOnceInOrder'
<1> USE DEF OrderInv
<1>1. PICK y \in Items :
        /\ item[t] = y /\ Has(pushed, y)
        /\ \A k \in 1 .. Len(popped) : Before(pushed, popped[k], y)
        /\ popped' = Append(popped, y)
        /\ next' = [next EXCEPT ![y] = NULL]
        /\ pc' = [pc EXCEPT ![t] = "idle"]
        /\ item' = [item EXCEPT ![t] = NULL]
  BY DEF Delivers, Return, Goto, TypeInv, Working, Removing, TakenInv
<1>2. /\ pc'[t] = "idle"
      /\ \A u \in Threads : u # t => pc'[u] = pc[u] /\ item'[u] = item[u]
      /\ \A z \in Items : next'[z] = NULL \/ next'[z] = next[z]
  BY <1>1 DEF TypeInv, ListTypeOK
<1>3. /\ pushed \in Seq(Items) /\ popped \in Seq(Items)
      /\ Len(popped) \in Nat /\ Len(popped') = Len(popped) + 1
      /\ popped'[Len(popped) + 1] = y
      /\ \A k \in 1 .. Len(popped) : popped'[k] = popped[k]
  BY <1>1 DEF TypeInv, ListTypeOK
<1>4. head' # NULL => Before(pushed, y, head')
  BY <1>1
<1>5. LinkInv'
  <2>1. head' # NULL => Has(pushed, head')
    BY <1>4 DEF Before, Has
  <2> QED BY <2>1, <1>2 DEF LinkInv
<1>6. ASSUME NEW k \in 1 .. Len(popped')
      PROVE  /\ Has(pushed, popped'[k])
             /\ head' # NULL => Before(pushed, popped'[k], head')
  <2>1. CASE k = Len(popped) + 1
    BY <2>1, <1>1, <1>3, <1>4
  <2>2. CASE k # Len(popped) + 1
    <3>1. k \in 1 .. Len(popped) /\ popped'[k] = popped[k]
      BY <2>2, <1>3
    <3>2. Before(pushed, popped[k], y) /\ Once(pushed)
      BY <3>1, <1>1 DEF PushInv
    <3>3. \A z : Before(pushed, y, z) => Before(pushed, popped[k], z)
      BY ONLY <3>2, <1>3, BeforeOrder
    <3>4. Has(pushed, popped[k])
      BY ONLY <3>2, <1>3, BeforeOrder
    <3> QED BY <3>1, <3>3, <3>4, <1>4
  <2> QED BY <2>1, <2>2
<1>7. TakenOnceInOrder'
  <2>1. ASSUME NEW i \in 1 .. Len(popped'), NEW j \in 1 .. Len(popped'), i < j
        PROVE  Before(pushed, popped'[i], popped'[j])
    <3>1. i \in 1 .. Len(popped) /\ popped'[i] = popped[i]
      BY <2>1, <1>3
    <3>2. CASE j = Len(popped) + 1
      BY <3>1, <3>2, <1>1, <1>3
    <3>3. CASE j # Len(popped) + 1
      <4>1. j \in 1 .. Len(popped) /\ popped'[j] = popped[j]
        BY <3>3, <1>3
      <4> QED BY <3>1, <4>1, <2>1 DEF TakenOnceInOrder, Before
    <3> QED BY <3>2, <3>3
  <2> QED BY <2>1 DEF TakenOnceInOrder, Before
<1>8. ASSUME NEW u \in Threads PROVE pc'[u] \notin Removing
  <2>1. CASE u = t
    BY <2>1, <1>2 DEF Removing
  <2>2. CASE u # t
    BY <2>2, <1>2 DEF EndsLocked
  <2> QED BY <2>1, <2>2
<1>9. TakenInv'
  <2>1. {"popRemove", "popLastHead", "popLastTail"} = Removing
    BY DEF Removing
  <2> QED BY <2>1, <1>6, <1>8 DEF TakenInv
<1>10. ASSUME NEW x \in Items, Fresh(x) PROVE Fresh(x)'
  <2>1. x # head' /\ x # tail' /\ x # y
    BY <1>1, <1>10 DEF Fresh
  <2>2. ~Has(popped', x)
    BY <2>1, <1>3, <1>10 DEF Fresh, Has
  <2>3. \A z \in Items : next'[z] # x
    BY <1>2, <1>10 DEF Fresh
  <2> QED BY <2>1, <2>2, <2>3, <1>8 DEF Fresh
<1>11. PushInv'
  <2>1. ASSUME NEW u \in Threads, pc'[u] \in Uncounted \cup Unlinked \cup {"pushFirst", "pushEnd"}
        PROVE  u # t /\ pc'[u] = pc[u] /\ item'[u] = item[u] /\ item[u] \in Items
    <3>1. u # t
      BY <2>1, <1>2 DEF Uncounted, Unlinked
    <3>2. pc'[u] = pc[u] /\ item'[u] = item[u]
      BY <3>1, <1>2
    <3>3. pc[u] \in Working
      BY <2>1, <3>2 DEF Uncounted, Unlinked, Working, Pushing
    <3> QED BY <3>1, <3>2, <3>3 DEF TypeInv
  <2>2. ASSUME NEW u \in Threads, pc'[u] \in Unlinked PROVE Fresh(item[u])'
    <3>1. PICK x \in Items : x = item[u] /\ item'[u] = x /\ pc[u] \in Unlinked
      BY <2>1, <2>2
    <3>2. Fresh(x)'
      BY <3>1, <1>10 DEF PushInv
    <3> QED BY <3>1, <3>2 DEF Fresh
  <2>3. ASSUME NEW u \in Threads, pc'[u] = "pushFirst" PROVE head' = NULL
    <3>1. pc[u] = "pushFirst" /\ pc[u] \in Unlinked /\ item[u] \in Items
      BY <2>1, <2>3 DEF Unlinked
    <3>2. head = NULL
      BY <3>1 DEF PushInv
    <3>3. pc[t] \in {"popRemove", "popLastHead"} => head = y
      BY <1>1 DEF TakenInv
    <3>4. pc[t] = "popLastTail"
      BY <3>2, <3>3 DEF Removing
    <3> QED BY <3>2, <3>4
  <2>4. ASSUME NEW u \in Threads, NEW v \in Threads, u # v,
               pc'[u] \in Uncounted, pc'[v] \in Uncounted
        PROVE  item'[u] # item'[v]
    BY <2>1, <2>4 DEF PushInv
  <2> QED BY <2>1, <2>2, <2>3, <2>4 DEF PushInv
<1> QED BY <1>5, <1>7, <1>9, <1>11


(* Taking the head off the list moves the head along its link, or empties  *)
(* the list; either way what comes after is later.                         *)
LEMMA OrderPop ==
  ASSUME OrderInv, NEW t \in Threads,
         \/ PopRemove(t) /\ item[t] \in owned /\ item[t] # tail
         \/ PopLastHead(t)
         \/ PopLastTail(t)
  PROVE  PushInv' /\ LinkInv' /\ TakenInv' /\ TakenOnceInOrder'
<1> USE DEF OrderInv
<1>1. CASE PopRemove(t) /\ item[t] \in owned /\ item[t] # tail
  <2>1. /\ pc[t] = "popRemove" /\ Delivers(t) /\ head' = next[item[t]]
        /\ pushed' = pushed /\ tail' = tail
    BY <1>1, Zenon DEF PopRemove, At
  <2>2. item[t] \in Items
    BY <2>1 DEF TypeInv, Working
  <2>3. head' # NULL => Before(pushed, item[t], head')
    BY <2>1, <2>2 DEF LinkInv
  <2>4. pc[t] \in Removing
    BY <2>1 DEF Removing
  <2> QED BY <2>1, <2>3, <2>4, OrderDelivers
<1>2. CASE PopLastTail(t)
  <2>1. /\ pc[t] = "popLastTail" /\ Delivers(t) /\ head' = head
        /\ pushed' = pushed /\ tail' = NULL
    BY <1>2, Zenon DEF PopLastTail, At
  <2>2. head' # NULL => Before(pushed, item[t], head')
    BY <2>1 DEF TakenInv
  <2>3. pc[t] \in Removing
    BY <2>1 DEF Removing
  <2> QED BY <2>1, <2>2, <2>3, OrderDelivers
<1>3. CASE PopLastHead(t)
  <2>1. /\ pc[t] = "popLastHead" /\ head' = NULL
        /\ pc' = [pc EXCEPT ![t] = "popLastTail"]
        /\ UNCHANGED <<tail, next, item, pushed, popped>>
    BY <1>3 DEF PopLastHead, At, Goto
  <2>2. pc'[t] = "popLastTail" /\ \A u \in Threads : u # t => pc'[u] = pc[u]
    BY <2>1 DEF TypeInv, ListTypeOK
  <2>3. LinkInv' /\ TakenOnceInOrder'
    BY <2>1 DEF LinkInv, TakenOnceInOrder
  <2>4. \A u \in Threads : pc'[u] \in Removing => u = t
    BY <2>1, <2>2 DEF EndsLocked, Removing
  <2>5. TakenInv'
    <3>1. {"popRemove", "popLastHead", "popLastTail"} = Removing
      BY DEF Removing
    <3> QED BY <3>1, <2>1, <2>2, <2>4 DEF TakenInv
  <2>6. PushInv'
    <3>1. \A u \in Threads : pc'[u] \in Uncounted => u # t
      BY <2>2 DEF Uncounted
    <3>2. \A u \in Threads : pc'[u] \in Unlinked \cup {"pushFirst", "pushEnd"} => u # t
      BY <2>2 DEF Unlinked
    <3>3. ASSUME NEW x \in Items, Fresh(x) PROVE Fresh(x)'
      <4>1. item[t] # x
        BY <2>1, <3>3 DEF Fresh, Removing
      <4> QED BY <4>1, <2>1, <2>4, <3>3 DEF Fresh
    <3>4. ASSUME NEW u \in Threads, pc'[u] \in Unlinked PROVE Fresh(item[u])'
      <4>1. pc[u] \in Unlinked /\ item[u] \in Items
        BY <2>2, <3>2, <3>4 DEF TypeInv, Unlinked, Working, Pushing
      <4>2. PICK x \in Items : x = item[u] /\ item'[u] = x
        BY <4>1, <2>1
      <4>3. Fresh(x)'
        BY <4>1, <4>2, <3>3 DEF PushInv
      <4> QED BY <4>2, <4>3 DEF Fresh
    <3> QED BY <3>1, <3>2, <3>4, <2>1, <2>2 DEF PushInv
  <2> QED BY <2>3, <2>5, <2>6
<1> QED BY <1>1, <1>2, <1>3

(* Every step of every thread keeps the order.                             *)
LEMMA OrderStep == OrderInv /\ [Next]_vars => OrderInv'
<1> SUFFICES ASSUME OrderInv, [Next]_vars PROVE OrderInv'
  OBVIOUS
<1>1. TypeInv'
  BY TypeStep DEF OrderInv
<1>2. CASE UNCHANGED vars
  <2>1. UNCHANGED <<head, tail, next, pushed, popped, pc, item, HeadMutex, TailMutex>>
    BY <1>2 DEF vars, listVars, lockVars
  <2>2. EndsLocked' /\ LinkInv' /\ TakenInv' /\ TakenOnceInOrder'
    BY <2>1 DEF OrderInv, EndsLocked, LinkInv, TakenInv, TakenOnceInOrder
  <2>3. PushInv'
    BY <2>1 DEF OrderInv, PushInv, Fresh
  <2> QED BY <1>1, <2>2, <2>3 DEF OrderInv
<1>3. CASE Next
  <2>1. PICK t \in Threads : Push(t) \/ Pop(t)
    BY <1>3 DEF Next
  <2>2. EndsLocked'
    BY <2>1, EndsStep DEF OrderInv
  <2>3. PushInv' /\ LinkInv' /\ TakenInv' /\ TakenOnceInOrder'
    <3>1. CASE Push(t)
      BY <3>1, OrderPushPlaces, OrderPushCount, OrderPushFirst, OrderPushLink, OrderPushEnd
      DEF Push
    <3>2. CASE PopRemove(t)
      BY <3>2, OrderPopPlaces, OrderPop
    <3>3. CASE Pop(t) /\ ~PopRemove(t)
      BY <3>3, OrderPopPlaces, OrderPop DEF Pop
    <3> QED BY <2>1, <3>1, <3>2, <3>3
  <2> QED BY <1>1, <2>2, <2>3 DEF OrderInv
<1> QED BY <1>2, <1>3

(* No task is taken out twice and tasks come out in the order in which     *)
(* they were counted in, even where the two ends of the list meet.         *)
THEOREM TakenInTurn == Spec => []TakenOnceInOrder
<1>1. OrderInv => TakenOnceInOrder
  BY DEF OrderInv
<1> QED BY <1>1, OrderInit, OrderStep, PTL DEF Spec

-----------------------------------------------------------------------------
(* The list holds the tasks counted in from the Lo-th on; the last one may *)
(* be on its way: linked and made the tail, linked only, or neither.       *)
Lo == Len(popped) + 1
Hi == Len(pushed)

Chain(n) == \A k \in Lo .. n - 1 : next[pushed[k]] = pushed[k + 1]
Owned(n) == \A k \in Lo .. n : pushed[k] \in owned

Some(S) == \E t \in Threads : pc[t] \in S

Linking == Unlinked \cup {"pushEnd"}
Owning == Linking \cup {"pushOwner"}

TailAt == IF Some(Linking) THEN Hi - 1 ELSE Hi
LinkedTo == IF Some(Unlinked) THEN Hi - 1 ELSE Hi
OwnedTo == IF Some(Owning) THEN Hi - 1 ELSE Hi
Leaving == IF Some(Removing) THEN 1 ELSE 0

ListShape ==
  /\ ~crashed
  /\ Lo <= TailAt + 1
  /\ ItemCount = (Hi - Lo + 1) - Leaving
  /\ head = IF Lo > TailAt \/ Some({"popLastTail"}) THEN NULL ELSE pushed[Lo]
  /\ tail = IF Lo > TailAt THEN NULL ELSE pushed[TailAt]
  /\ Chain(LinkedTo)
  /\ Owned(OwnedTo)

(* Why the two ends do not meet: a pop without TailMutex has the tail's    *)
(* task and another one before it, a push without HeadMutex has one.       *)
SideOf(t) ==
  /\ pc[t] \in {"popUnsafe", "popRemove"} => TailMutex = t \/ Lo < TailAt
  /\ pc[t] \in Removing => Lo <= TailAt
  /\ pc[t] \in {"popLastHead", "popLastTail"} => TailMutex = t /\ Lo = TailAt
  /\ pc[t] = "popLastTail" => item[t] = pushed[Lo]
  /\ pc[t] \in {"pushCount", "pushTest"} => HeadMutex = t \/ Lo <= TailAt
  /\ pc[t] = "pushFirst" => HeadMutex = t /\ Lo > TailAt
  /\ pc[t] \in {"pushLink", "pushEnd"} => Lo <= TailAt
  /\ pc[t] \in {"pushEnd", "pushOwner"} => item[t] = pushed[Hi]

Sides == \A t \in Threads : SideOf(t)

CountedInv == ~miscounted => ListShape /\ Sides

(* Bounds and elements of the history. *)
LEMMA HistoryTypes ==
  ASSUME OrderInv
  PROVE  /\ Lo \in Nat /\ Lo >= 1 /\ Hi \in Nat /\ ItemCount \in Nat
         /\ \A k \in 1 .. Hi : pushed[k] \in Items
         /\ pc \in [Threads -> PCs] /\ item \in [Threads -> Items \cup {NULL}]
         /\ pushed \in Seq(Items) /\ popped \in Seq(Items)
         /\ next \in [Items -> Items \cup {NULL}]
         /\ Once(pushed) /\ EndsLocked
BY DEF OrderInv, PushInv, TypeInv, ListTypeOK, Lo, Hi

(* The holder of TailMutex is the only push in the list.                   *)
LEMMA TailAlone ==
  ASSUME EndsLocked, NEW t \in Threads, TailMutex = t,
         \A u \in Threads : u # t => pc'[u] = pc[u]
  PROVE  /\ \A u \in Threads : u # t => pc[u] \notin Owning \cup {"pushCheck", "pushCount"}
         /\ (Some(Linking) <=> pc[t] \in Linking) /\ (Some(Linking)' <=> pc'[t] \in Linking)
         /\ (Some(Unlinked) <=> pc[t] \in Unlinked) /\ (Some(Unlinked)' <=> pc'[t] \in Unlinked)
         /\ (Some(Owning) <=> pc[t] \in Owning) /\ (Some(Owning)' <=> pc'[t] \in Owning)
         /\ pc[t] \notin Removing /\ pc'[t] \notin Removing
              => /\ Some(Removing)' <=> Some(Removing)
                 /\ Some({"popLastTail"})' <=> Some({"popLastTail"})
<1>1. \A u \in Threads : u # t => pc[u] \notin Owning \cup {"pushCheck", "pushCount"}
  BY DEF EndsLocked, Owning, Linking, Unlinked
<1>2. \A u \in Threads : u # t => pc[u] \notin Linking /\ pc[u] \notin Unlinked /\ pc[u] \notin Owning
  BY <1>1 DEF Owning, Linking
<1>3. (Some(Linking) <=> pc[t] \in Linking) /\ (Some(Linking)' <=> pc'[t] \in Linking)
  BY <1>2 DEF Some
<1>4. (Some(Unlinked) <=> pc[t] \in Unlinked) /\ (Some(Unlinked)' <=> pc'[t] \in Unlinked)
  BY <1>2 DEF Some
<1>5. (Some(Owning) <=> pc[t] \in Owning) /\ (Some(Owning)' <=> pc'[t] \in Owning)
  BY <1>2 DEF Some
<1>6. pc[t] \notin Removing /\ pc'[t] \notin Removing
        => /\ Some(Removing)' <=> Some(Removing)
           /\ Some({"popLastTail"})' <=> Some({"popLastTail"})
  BY DEF Some, Removing
<1> QED BY <1>1, <1>3, <1>4, <1>5, <1>6

(* The holder of HeadMutex is the only pop in the list.                    *)
LEMMA HeadAlone ==
  ASSUME EndsLocked, NEW t \in Threads, HeadMutex = t,
         \A u \in Threads : u # t => pc'[u] = pc[u]
  PROVE  /\ \A u \in Threads : u # t => pc[u] \notin Removing \cup {"popCheck", "popUnsafe"}
         /\ (Some(Removing) <=> pc[t] \in Removing) /\ (Some(Removing)' <=> pc'[t] \in Removing)
         /\ Some({"popLastTail"}) <=> pc[t] = "popLastTail"
         /\ Some({"popLastTail"})' <=> pc'[t] = "popLastTail"
         /\ pc[t] \notin Owning /\ pc'[t] \notin Owning
              => /\ Some(Linking)' <=> Some(Linking)
                 /\ Some(Unlinked)' <=> Some(Unlinked)
                 /\ Some(Owning)' <=> Some(Owning)
<1>1. \A u \in Threads : u # t => pc[u] \notin Removing \cup {"popCheck", "popUnsafe"}
  BY DEF EndsLocked, Removing
<1>2. (Some(Removing) <=> pc[t] \in Removing) /\ (Some(Removing)' <=> pc'[t] \in Removing)
  BY <1>1 DEF Some
<1>3. /\ Some({"popLastTail"}) <=> pc[t] = "popLastTail"
      /\ Some({"popLastTail"})' <=> pc'[t] = "popLastTail"
  BY <1>1 DEF Some, Removing
<1>4. pc[t] \notin Owning /\ pc'[t] \notin Owning
        => /\ Some(Linking)' <=> Some(Linking)
           /\ Some(Unlinked)' <=> Some(Unlinked)
           /\ Some(Owning)' <=> Some(Owning)
  BY DEF Some, Owning, Linking
<1> QED BY <1>1, <1>2, <1>3, <1>4

(* A push only adds behind the tail: what the pops rely on stays.          *)
LEMMA PushOthers ==
  ASSUME EndsLocked, Sides, NEW t \in Threads, TailMutex = t,
         \A u \in Threads : u # t => pc'[u] = pc[u],
         Lo \in Nat, TailAt \in Int, TailAt' \in Int, Lo' = Lo, TailAt' >= TailAt, SideOf(t)'
  PROVE  Sides'
<1> SUFFICES ASSUME NEW u \in Threads, u # t PROVE SideOf(u)'
  BY DEF Sides
<1>1. pc[u] \notin {"pushCount", "pushOwner", "pushEnd"} \cup Unlinked /\ pc'[u] = pc[u]
  BY DEF EndsLocked
<1>2. pc[u] \in {"popUnsafe", "popRemove"} => Lo < TailAt
  BY DEF Sides, SideOf
<1>3. pc[u] \in Removing => Lo <= TailAt
  BY DEF Sides, SideOf
<1>4. pc[u] \notin {"popLastHead", "popLastTail"}
  BY DEF Sides, SideOf
<1> QED BY <1>1, <1>2, <1>3, <1>4 DEF SideOf, Unlinked

(* A pop without TailMutex leaves the push the task at the tail.           *)
LEMMA PopOthers ==
  ASSUME EndsLocked, Sides, NEW t \in Threads, HeadMutex = t,
         \A u \in Threads : u # t => pc'[u] = pc[u] /\ item'[u] = item[u],
         Lo \in Nat, TailAt \in Int, TailAt' = TailAt, pushed' = pushed, SideOf(t)',
         Lo' = Lo \/ (Lo' = Lo + 1 /\ (TailMutex = t \/ Lo < TailAt))
  PROVE  Sides'
<1> SUFFICES ASSUME NEW u \in Threads, u # t PROVE SideOf(u)'
  BY DEF Sides
<1>1. pc[u] \notin {"popUnsafe"} \cup Removing /\ pc'[u] = pc[u] /\ item'[u] = item[u]
  BY DEF EndsLocked
<1>2. pc[u] \in {"pushCount", "pushOwner", "pushEnd"} \cup Unlinked => TailMutex = u
  BY DEF EndsLocked
<1>3. pc[u] \in {"pushCount", "pushTest", "pushLink", "pushEnd"} => Lo <= TailAt
  BY DEF Sides, SideOf
<1>4. pc[u] # "pushFirst"
  BY DEF Sides, SideOf
<1>5. pc[u] \in {"pushCount", "pushTest", "pushLink", "pushEnd"} => Lo' <= TailAt'
  BY <1>2, <1>3 DEF Unlinked
<1>6. pc[u] \in {"pushEnd", "pushOwner"} => item[u] = pushed[Hi]
  BY DEF Sides, SideOf
<1> QED BY <1>1, <1>4, <1>5, <1>6 DEF SideOf, Removing, Hi

(* A step of a call outside the list changes nothing there, and enters it  *)
(* only with what it needs.                                                *)
LEMMA OutsideStep ==
  ASSUME ListShape, Sides, NEW t \in Threads,
         pc[t] \notin Owning \cup Removing, pc'[t] \notin Owning \cup Removing,
         \A u \in Threads : u # t => /\ pc'[u] = pc[u] /\ item'[u] = item[u]
                                     /\ HeadMutex = u => HeadMutex' = u
                                     /\ TailMutex = u => TailMutex' = u,
         UNCHANGED <<listVars, ItemCount, pushed, popped, crashed>>, 
         pc'[t] = "pushCount" => HeadMutex' = t \/ Lo <= TailAt,
         pc'[t] = "popUnsafe" => TailMutex' = t \/ Lo < TailAt
  PROVE  ListShape' /\ Sides'
<1>1. /\ UNCHANGED <<head, tail, next, owned, ItemCount, pushed, popped, crashed, Lo, Hi>>
      /\ \A n : (Chain(n)' <=> Chain(n)) /\ (Owned(n)' <=> Owned(n))
  BY DEF listVars, Lo, Hi, Chain, Owned
<1>2. /\ Some(Linking)' <=> Some(Linking)
      /\ Some(Unlinked)' <=> Some(Unlinked)
      /\ Some(Owning)' <=> Some(Owning)
      /\ Some(Removing)' <=> Some(Removing)
      /\ Some({"popLastTail"})' <=> Some({"popLastTail"})
  BY DEF Some, Owning, Linking, Removing
<1>3. UNCHANGED <<TailAt, LinkedTo, OwnedTo, Leaving>>
  BY <1>1, <1>2 DEF TailAt, LinkedTo, OwnedTo, Leaving
<1>4. ListShape'
  BY <1>1, <1>2, <1>3 DEF ListShape, Chain, Owned
<1>5. SideOf(t)'
  BY <1>1, <1>3 DEF SideOf, Owning, Linking, Unlinked, Removing
<1>6. ASSUME NEW u \in Threads, u # t PROVE SideOf(u)'
  <2>1. SideOf(u)
    BY DEF Sides
  <2> QED BY <1>1, <1>3, <1>6, <2>1 DEF SideOf
<1> QED BY <1>4, <1>5, <1>6 DEF Sides

(* The steps of a push in the list: the task is counted, linked behind the *)
(* tail or made the only one, and owned.                                   *)
LEMMA ShapePush ==
  ASSUME OrderInv, ListShape, Sides, NEW t \in Threads,
         PushCount(t) \/ PushTest(t) \/ PushFirst(t) \/ PushLink(t) \/ PushEnd(t) \/ PushOwner(t)
  PROVE  ListShape' /\ Sides'
<1> USE DEF At, Goto, listVars, lockVars
<1>t. /\ Lo \in Nat /\ Lo >= 1 /\ Hi \in Nat /\ ItemCount \in Nat
      /\ \A k \in 1 .. Hi : pushed[k] \in Items
      /\ pc \in [Threads -> PCs] /\ item \in [Threads -> Items \cup {NULL}]
      /\ pushed \in Seq(Items) /\ popped \in Seq(Items)
      /\ next \in [Items -> Items \cup {NULL}]
      /\ Once(pushed) /\ EndsLocked
  BY HistoryTypes
<1>u. /\ \A u \in Threads : u # t => pc'[u] = pc[u]
      /\ TailMutex = t
      /\ pc[t] \notin Removing /\ pc'[t] \notin Removing
  BY <1>t DEF PushCount, PushTest, PushFirst, PushLink, PushEnd, PushOwner, Return, EndsLocked,
              Unlinked, Removing
<1>s. SideOf(t)
  BY DEF Sides
<1>a. /\ (Some(Linking) <=> pc[t] \in Linking) /\ (Some(Linking)' <=> pc'[t] \in Linking)
      /\ (Some(Unlinked) <=> pc[t] \in Unlinked) /\ (Some(Unlinked)' <=> pc'[t] \in Unlinked)
      /\ (Some(Owning) <=> pc[t] \in Owning) /\ (Some(Owning)' <=> pc'[t] \in Owning)
      /\ Some(Removing)' <=> Some(Removing)
      /\ Some({"popLastTail"})' <=> Some({"popLastTail"})
  BY <1>t, <1>u, TailAlone
<1>b. Leaving' = Leaving /\ Leaving \in {0, 1}
  BY <1>a DEF Leaving
<1>1. CASE PushCount(t)
  <2>1. PICK x \in Items :
          /\ pc[t] = "pushCount" /\ item[t] = x /\ pushed' = Append(pushed, x)
          /\ ItemCount' = ItemCount + 1 /\ pc'[t] = "pushTest"
          /\ UNCHANGED <<head, tail, next, owned, item, popped, crashed, HeadMutex, TailMutex>>
    BY <1>1, <1>t DEF PushCount, OrderInv, TypeInv, Working, Pushing
  <2>2. Hi' = Hi + 1 /\ Lo' = Lo /\ \A k \in 1 .. Hi : pushed'[k] = pushed[k]
    BY <2>1, <1>t DEF Hi, Lo
  <2>3. /\ TailAt = Hi /\ LinkedTo = Hi /\ OwnedTo = Hi
        /\ TailAt' = Hi /\ LinkedTo' = Hi /\ OwnedTo' = Hi
    BY <1>a, <2>1, <2>2, <1>t DEF TailAt, LinkedTo, OwnedTo, Owning, Linking, Unlinked
  <2>4. /\ Lo' <= TailAt' + 1 /\ ItemCount' = (Hi' - Lo' + 1) - Leaving'
        /\ head' = IF Lo' > TailAt' \/ Some({"popLastTail"})' THEN NULL ELSE pushed'[Lo']
        /\ tail' = IF Lo' > TailAt' THEN NULL ELSE pushed'[TailAt']
    <3>1. /\ Lo <= Hi + 1 /\ ItemCount = (Hi - Lo + 1) - Leaving
          /\ head = IF Lo > Hi \/ Some({"popLastTail"}) THEN NULL ELSE pushed[Lo]
          /\ tail = IF Lo > Hi THEN NULL ELSE pushed[Hi]
      BY <2>3 DEF ListShape
    <3>2. ~(Lo > Hi) => pushed'[Lo] = pushed[Lo] /\ pushed'[Hi] = pushed[Hi]
      BY <2>2, <1>t
    <3>3. Lo' <= TailAt' + 1 /\ ItemCount' = (Hi' - Lo' + 1) - Leaving'
      <4>1. Lo <= Hi + 1 /\ ItemCount = (Hi - Lo + 1) - Leaving /\ ItemCount' = ItemCount + 1
        BY <3>1, <2>1
      <4>2. Hi' = Hi + 1 /\ Lo' = Lo /\ TailAt' = Hi /\ Leaving' = Leaving /\ Leaving \in Int
        BY <2>2, <2>3, <1>b
      <4> QED BY <4>1, <4>2, <1>t
    <3> QED BY <3>1, <3>2, <3>3, <2>1, <2>2, <2>3, <1>a
  <2>5. Chain(LinkedTo)' /\ Owned(OwnedTo)'
    <3>1. Chain(Hi) /\ Owned(Hi)
      BY <2>3 DEF ListShape
    <3>2. ASSUME NEW k \in Lo .. Hi - 1 PROVE next'[pushed'[k]] = pushed'[k + 1]
      <4>1. k \in 1 .. Hi /\ k + 1 \in 1 .. Hi
        BY <1>t
      <4>2. next[pushed[k]] = pushed[k + 1]
        BY <3>1 DEF Chain
      <4> QED BY <4>1, <4>2, <2>1, <2>2
    <3>3. ASSUME NEW k \in Lo .. Hi PROVE pushed'[k] \in owned'
      <4>1. k \in 1 .. Hi
        BY <1>t
      <4> QED BY <3>1, <4>1, <2>1, <2>2 DEF Owned
    <3> QED BY <2>2, <2>3, <3>2, <3>3 DEF Chain, Owned
  <2>6. SideOf(t)'
    BY <2>1, <2>2, <2>3, <1>s DEF SideOf, Removing
  <2>7. Sides'
    BY <2>2, <2>3, <2>6, <1>t, <1>u, PushOthers
  <2> QED BY <2>1, <2>4, <2>5, <2>7 DEF ListShape
<1>2. CASE PushTest(t)
  <2>1. /\ pc[t] = "pushTest"
        /\ pc'[t] = IF head = NULL /\ tail = NULL THEN "pushFirst" ELSE "pushLink"
        /\ UNCHANGED <<head, tail, next, owned, ItemCount, item, pushed, popped, crashed,
                       HeadMutex, TailMutex>>
    BY <1>2, <1>t DEF PushTest
  <2>2. Hi' = Hi /\ Lo' = Lo
    BY <2>1 DEF Hi, Lo
  <2>3. /\ TailAt = Hi - 1 /\ LinkedTo = Hi - 1 /\ OwnedTo = Hi - 1
        /\ TailAt' = Hi - 1 /\ LinkedTo' = Hi - 1 /\ OwnedTo' = Hi - 1
    BY <1>a, <2>1, <2>2, <1>t DEF TailAt, LinkedTo, OwnedTo, Owning, Linking, Unlinked
  <2>4. ListShape'
    BY <2>1, <2>2, <2>3, <1>a, <1>b DEF ListShape, Chain, Owned
  <2>5. /\ head = NULL /\ tail = NULL => Lo > TailAt
        /\ Lo > TailAt => head = NULL /\ tail = NULL
    BY <2>3, <1>t DEF ListShape
  <2>6. SideOf(t)'
    BY <2>1, <2>2, <2>3, <2>5, <1>t, <1>s DEF SideOf, Removing
  <2>7. Sides'
    BY <2>2, <2>3, <2>6, <1>t, <1>u, PushOthers
  <2> QED BY <2>4, <2>7
<1>3. CASE PushFirst(t)
  <2>1. /\ pc[t] = "pushFirst" /\ pc'[t] = "pushOwner"
        /\ head' = item[t] /\ tail' = item[t]
        /\ UNCHANGED <<next, owned, ItemCount, item, pushed, popped, crashed,
                       HeadMutex, TailMutex>>
    BY <1>3, <1>t DEF PushFirst
  <2>2. Hi' = Hi /\ Lo' = Lo /\ item[t] = pushed[Hi]
    BY <2>1 DEF Hi, Lo, OrderInv, PushInv, Unlinked
  <2>3. /\ TailAt = Hi - 1 /\ LinkedTo = Hi - 1 /\ OwnedTo = Hi - 1
        /\ TailAt' = Hi /\ LinkedTo' = Hi /\ OwnedTo' = Hi - 1
    BY <1>a, <2>1, <2>2, <1>t DEF TailAt, LinkedTo, OwnedTo, Owning, Linking, Unlinked
  <2>4. Lo = Hi /\ HeadMutex = t
    BY <2>1, <2>3, <1>t, <1>s DEF ListShape, SideOf
  <2>5. ~Some({"popLastTail"})'
    <3>1. Some({"popLastTail"}) <=> pc[t] = "popLastTail"
      BY <2>4, <1>t, <1>u, HeadAlone
    <3> QED BY <3>1, <2>1, <1>a
  <2>6. ListShape'
    <3>1. Chain(LinkedTo)' /\ Owned(OwnedTo)'
      BY <2>2, <2>3, <2>4, <1>t DEF Chain, Owned
    <3>2. ItemCount' = (Hi' - Lo' + 1) - Leaving' /\ ~crashed'
      BY <2>1, <2>2, <1>b DEF ListShape
    <3>3. Lo' <= TailAt' + 1 /\ ~(Lo' > TailAt') /\ head' = pushed'[Lo'] /\ tail' = pushed'[TailAt']
      BY <2>1, <2>2, <2>3, <2>4, <1>t
    <3> QED BY <3>1, <3>2, <3>3, <2>5 DEF ListShape
  <2>7. SideOf(t)'
    BY <2>1, <2>2 DEF SideOf, Removing, Hi
  <2>8. Sides'
    BY <2>2, <2>3, <2>7, <1>t, <1>u, PushOthers
  <2> QED BY <2>6, <2>8
<1>4. CASE PushLink(t)
  <2>1. pc[t] = "pushLink"
    BY <1>4 DEF PushLink
  <2>2. TailAt = Hi - 1 /\ LinkedTo = Hi - 1 /\ OwnedTo = Hi - 1 /\ Lo <= Hi - 1
        /\ item[t] = pushed[Hi]
    BY <1>a, <1>s, <2>1 DEF TailAt, LinkedTo, OwnedTo, Owning, Linking, Unlinked, SideOf,
                            OrderInv, PushInv, Hi
  <2>3. tail = pushed[Hi - 1] /\ tail \in Items /\ tail # NULL
    BY <2>2, <1>t DEF ListShape
  <2>4. /\ next' = [next EXCEPT ![tail] = item[t]]
        /\ pc'[t] = "pushEnd"
        /\ UNCHANGED <<head, tail, owned, ItemCount, item, pushed, popped, crashed,
                       HeadMutex, TailMutex>>
    BY <1>4, <2>3, <1>t DEF PushLink
  <2>5. Hi' = Hi /\ Lo' = Lo
    BY <2>4 DEF Hi, Lo
  <2>6. TailAt' = Hi - 1 /\ LinkedTo' = Hi /\ OwnedTo' = Hi - 1
    BY <1>a, <2>4, <2>5 DEF TailAt, LinkedTo, OwnedTo, Owning, Linking, Unlinked
  <2>7. Chain(LinkedTo)'
    <3>1. ASSUME NEW k \in Lo .. Hi - 1 PROVE next'[pushed[k]] = pushed[k + 1]
      <4>1. CASE k = Hi - 1
        <5>1. pushed[k] = tail /\ pushed[k] \in Items /\ pushed[k + 1] = item[t]
          BY <4>1, <3>1, <2>2, <2>3, <1>t
        <5> QED BY <5>1, <2>4, <1>t
      <4>2. CASE k # Hi - 1
        <5>1. k \in 1 .. Hi /\ Hi - 1 \in 1 .. Hi /\ pushed[k] \in Items
          BY <4>2, <3>1, <2>2, <1>t
        <5>2. pushed[k] # tail
          BY <4>2, <5>1, <2>3, <1>t DEF Once, Hi
        <5>3. k \in Lo .. (Hi - 1) - 1
          BY <4>2, <3>1, <1>t
        <5>4. next[pushed[k]] = pushed[k + 1]
          BY <5>3, <2>2 DEF ListShape, Chain
        <5> QED BY <5>1, <5>2, <5>4, <2>4, <1>t
      <4> QED BY <4>1, <4>2
    <3> QED BY <3>1, <2>4, <2>5, <2>6 DEF Chain
  <2>8. ListShape'
    <3>1. Owned(OwnedTo)'
      BY <2>2, <2>4, <2>5, <2>6 DEF ListShape, Owned
    <3> QED BY <3>1, <2>2, <2>4, <2>5, <2>6, <2>7, <1>a, <1>b DEF ListShape
  <2>9. SideOf(t)'
    BY <2>2, <2>4, <2>5, <2>6 DEF SideOf, Removing, Hi
  <2>10. Sides'
    BY <2>2, <2>5, <2>6, <2>9, <1>t, <1>u, PushOthers
  <2> QED BY <2>8, <2>10
<1>5. CASE PushEnd(t)
  <2>1. /\ pc[t] = "pushEnd" /\ pc'[t] = "pushOwner" /\ tail' = item[t]
        /\ UNCHANGED <<head, next, owned, ItemCount, item, pushed, popped, crashed,
                       HeadMutex, TailMutex>>
    BY <1>5, <1>t DEF PushEnd
  <2>2. Hi' = Hi /\ Lo' = Lo /\ item[t] = pushed[Hi]
    BY <2>1, <1>s DEF Hi, Lo, SideOf
  <2>3. /\ TailAt = Hi - 1 /\ LinkedTo = Hi /\ OwnedTo = Hi - 1
        /\ TailAt' = Hi /\ LinkedTo' = Hi /\ OwnedTo' = Hi - 1
    BY <1>a, <2>1, <2>2 DEF TailAt, LinkedTo, OwnedTo, Owning, Linking, Unlinked
  <2>4. Lo <= Hi - 1
    BY <2>1, <2>3, <1>s DEF SideOf
  <2>5. ListShape'
    <3>1. Chain(LinkedTo)' /\ Owned(OwnedTo)'
      BY <2>1, <2>2, <2>3 DEF ListShape, Chain, Owned
    <3>2. head' = IF Lo' > TailAt' \/ Some({"popLastTail"})' THEN NULL ELSE pushed'[Lo']
      BY <2>1, <2>2, <2>3, <2>4, <1>a, <1>t DEF ListShape
    <3> QED BY <3>1, <3>2, <2>1, <2>2, <2>3, <2>4, <1>b, <1>t DEF ListShape
  <2>6. SideOf(t)'
    BY <2>1, <2>2 DEF SideOf, Removing, Hi
  <2>7. Sides'
    BY <2>2, <2>3, <2>6, <1>t, <1>u, PushOthers
  <2> QED BY <2>5, <2>7
<1>6. CASE PushOwner(t)
  <2>1. /\ pc[t] = "pushOwner" /\ pc'[t] = "idle" /\ owned' = owned \cup {item[t]}
        /\ UNCHANGED <<head, tail, next, ItemCount, pushed, popped, crashed>>
    BY <1>6, <1>t DEF PushOwner, Return
  <2>2. Hi' = Hi /\ Lo' = Lo /\ item[t] = pushed[Hi]
    BY <2>1, <1>s DEF Hi, Lo, SideOf
  <2>3. /\ TailAt = Hi /\ LinkedTo = Hi /\ OwnedTo = Hi - 1
        /\ TailAt' = Hi /\ LinkedTo' = Hi /\ OwnedTo' = Hi
    BY <1>a, <2>1, <2>2 DEF TailAt, LinkedTo, OwnedTo, Owning, Linking, Unlinked
  <2>4. ListShape'
    <3>1. Chain(LinkedTo)'
      BY <2>1, <2>2, <2>3 DEF ListShape, Chain
    <3>2. Owned(OwnedTo)'
      BY <2>1, <2>2, <2>3, <1>t DEF ListShape, Owned
    <3> QED BY <3>1, <3>2, <2>1, <2>2, <2>3, <1>a, <1>b DEF ListShape
  <2>5. SideOf(t)'
    BY <2>1 DEF SideOf, Removing
  <2>6. Sides'
    BY <2>2, <2>3, <2>5, <1>t, <1>u, PushOthers
  <2> QED BY <2>4, <2>6
<1> QED BY <1>1, <1>2, <1>3, <1>4, <1>5, <1>6

(* A pop returns the task at the head: the list starts at the next one.    *)
LEMMA ShapeDelivers ==
  ASSUME OrderInv, ListShape, Sides, NEW t \in Threads, pc[t] \in Removing, Delivers(t),
         item[t] = pushed[Lo], Lo <= OwnedTo, TailMutex = t \/ Lo < TailAt,
         UNCHANGED <<ItemCount, pushed>>,
         head' = (IF Lo = TailAt THEN NULL ELSE pushed[Lo + 1]),
         tail' = (IF Lo = TailAt THEN NULL ELSE pushed[TailAt]),
         ~crashed'
  PROVE  ListShape' /\ Sides'
<1>t. /\ Lo \in Nat /\ Lo >= 1 /\ Hi \in Nat /\ ItemCount \in Nat
      /\ \A k \in 1 .. Hi : pushed[k] \in Items
      /\ pc \in [Threads -> PCs] /\ item \in [Threads -> Items \cup {NULL}]
      /\ pushed \in Seq(Items) /\ popped \in Seq(Items)
      /\ next \in [Items -> Items \cup {NULL}]
      /\ Once(pushed) /\ EndsLocked
  BY HistoryTypes
<1>h. HeadMutex = t
  BY <1>t DEF EndsLocked
<1>1. /\ TailAt \in {Hi, Hi - 1} /\ LinkedTo \in {Hi, Hi - 1} /\ OwnedTo \in {Hi, Hi - 1}
      /\ TailAt <= LinkedTo /\ OwnedTo <= LinkedTo
  BY <1>t DEF TailAt, LinkedTo, OwnedTo, Some, Owning, Linking
<1>2. Lo <= TailAt
  BY DEF Sides, SideOf
<1>3. PICK y \in Items :
        /\ y = pushed[Lo]
        /\ popped' = Append(popped, y)
        /\ next' = [next EXCEPT ![y] = NULL]
        /\ owned' = owned \ {y}
        /\ pc' = [pc EXCEPT ![t] = "idle"]
        /\ item' = [item EXCEPT ![t] = NULL]
  <2>1. Lo \in 1 .. Hi
    BY <1>t, <1>1, <1>2
  <2>2. pushed[Lo] \in Items
    BY <2>1, <1>t
  <2> QED BY <2>2 DEF Delivers, Return, Goto
<1>4. /\ pc'[t] = "idle" /\ \A u \in Threads : u # t => pc'[u] = pc[u] /\ item'[u] = item[u]
      /\ \A z \in Items : z # y => next'[z] = next[z]
  BY <1>3, <1>t
<1>5. Hi' = Hi /\ Lo' = Lo + 1
  BY <1>3, <1>t DEF Hi, Lo
<1>6. /\ Some(Removing) /\ ~Some(Removing)' /\ ~Some({"popLastTail"})'
      /\ Some(Linking)' <=> Some(Linking)
      /\ Some(Unlinked)' <=> Some(Unlinked)
      /\ Some(Owning)' <=> Some(Owning)
  <2>1. pc[t] \notin Owning /\ pc'[t] \notin Owning \cup Removing \cup {"popLastTail"}
    BY <1>4 DEF Owning, Linking, Unlinked, Removing
  <2> QED BY <2>1, <1>4, <1>h, <1>t, HeadAlone
<1>7. TailAt' = TailAt /\ LinkedTo' = LinkedTo /\ OwnedTo' = OwnedTo /\ Leaving = 1 /\ Leaving' = 0
  BY <1>5, <1>6 DEF TailAt, LinkedTo, OwnedTo, Leaving
<1>8. \A k \in Lo + 1 .. Hi : pushed[k] # y /\ pushed[k] \in Items
  BY <1>3, <1>t DEF Once, Hi
<1>9. Chain(LinkedTo)'
  <2>1. ASSUME NEW k \in Lo + 1 .. LinkedTo - 1 PROVE next'[pushed[k]] = pushed[k + 1]
    <3>1. k \in Lo .. LinkedTo - 1 /\ k \in Lo + 1 .. Hi
      BY <2>1, <1>1, <1>t
    <3>2. next[pushed[k]] = pushed[k + 1]
      BY <3>1 DEF ListShape, Chain
    <3> QED BY <3>1, <3>2, <1>4, <1>8
  <2> QED BY <2>1, <1>5, <1>7 DEF Chain
<1>10. Owned(OwnedTo)'
  <2>1. ASSUME NEW k \in Lo + 1 .. OwnedTo PROVE pushed[k] \in owned'
    <3>1. k \in Lo .. OwnedTo /\ k \in Lo + 1 .. Hi
      BY <2>1, <1>1, <1>t
    <3> QED BY <3>1, <1>3, <1>8 DEF ListShape, Owned
  <2> QED BY <2>1, <1>5, <1>7 DEF Owned
<1>11. /\ head' = IF Lo' > TailAt' \/ Some({"popLastTail"})' THEN NULL ELSE pushed'[Lo']
       /\ tail' = IF Lo' > TailAt' THEN NULL ELSE pushed'[TailAt']
  BY <1>1, <1>2, <1>5, <1>6, <1>7, <1>t
<1>12. ItemCount' = (Hi' - Lo' + 1) - Leaving' /\ Lo' <= TailAt' + 1
  <2>1. ItemCount = (Hi - Lo + 1) - 1
    BY <1>7 DEF ListShape
  <2> QED BY <2>1, <1>1, <1>2, <1>5, <1>7, <1>t
<1>13. ListShape'
  BY <1>9, <1>10, <1>11, <1>12 DEF ListShape
<1>14. SideOf(t)'
  BY <1>4 DEF SideOf, Removing
<1>15. Sides'
  BY <1>1, <1>4, <1>5, <1>7, <1>14, <1>h, <1>t, PopOthers
<1> QED BY <1>13, <1>15

(* The steps of a pop in the list: the head is counted off, unlinked, and  *)
(* returned; the last task takes two steps.                                *)
LEMMA ShapePop ==
  ASSUME OrderInv, ListShape, Sides, NEW t \in Threads,
         \/ PopUnsafe(t) /\ ~NothingThere
         \/ PopRemove(t) \/ PopLastHead(t) \/ PopLastTail(t)
  PROVE  ListShape' /\ Sides'
<1> USE DEF At, Goto, listVars, lockVars
<1>t. /\ Lo \in Nat /\ Lo >= 1 /\ Hi \in Nat /\ ItemCount \in Nat
      /\ \A k \in 1 .. Hi : pushed[k] \in Items
      /\ pc \in [Threads -> PCs] /\ item \in [Threads -> Items \cup {NULL}]
      /\ pushed \in Seq(Items) /\ popped \in Seq(Items)
      /\ next \in [Items -> Items \cup {NULL}]
      /\ Once(pushed) /\ EndsLocked
  BY HistoryTypes
<1>h. HeadMutex = t
  BY <1>t DEF PopUnsafe, PopRemove, PopLastHead, PopLastTail, EndsLocked, Removing
<1>s. SideOf(t)
  BY DEF Sides
<1>1. /\ TailAt \in {Hi, Hi - 1} /\ LinkedTo \in {Hi, Hi - 1} /\ OwnedTo \in {Hi, Hi - 1}
      /\ TailAt <= LinkedTo /\ OwnedTo <= TailAt /\ TailAt <= OwnedTo + 1
      /\ TailMutex = t => OwnedTo = Hi
  <2>1. TailMutex = t => ~Some(Owning)
    <3>1. pc[t] \notin Owning
      BY DEF PopUnsafe, PopRemove, PopLastHead, PopLastTail, Owning, Linking, Unlinked
    <3>2. ASSUME NEW u \in Threads, pc[u] \in Owning PROVE TailMutex = u
      BY <3>2, <1>t DEF EndsLocked, Owning, Linking
    <3> QED BY <3>1, <3>2 DEF Some
  <2> QED BY <2>1, <1>t DEF TailAt, LinkedTo, OwnedTo, Some, Owning, Linking
<1>2. ASSUME pc[t] \notin Owning, pc'[t] \notin Owning,
             \A u \in Threads : u # t => pc'[u] = pc[u] /\ item'[u] = item[u],
             UNCHANGED <<next, owned, pushed, popped>>
      PROVE  /\ UNCHANGED <<Lo, Hi, TailAt, LinkedTo, OwnedTo>>
             /\ Chain(LinkedTo)' /\ Owned(OwnedTo)'
             /\ (Leaving' = IF pc'[t] \in Removing THEN 1 ELSE 0)
             /\ (Leaving = IF pc[t] \in Removing THEN 1 ELSE 0)
             /\ Some({"popLastTail"}) <=> pc[t] = "popLastTail"
             /\ Some({"popLastTail"})' <=> pc'[t] = "popLastTail"
             /\ SideOf(t)' => Sides'
  <2>1. UNCHANGED <<Lo, Hi>>
    BY <1>2 DEF Lo, Hi
  <2>2. /\ (Some(Removing) <=> pc[t] \in Removing) /\ (Some(Removing)' <=> pc'[t] \in Removing)
        /\ Some({"popLastTail"}) <=> pc[t] = "popLastTail"
        /\ Some({"popLastTail"})' <=> pc'[t] = "popLastTail"
        /\ Some(Linking)' <=> Some(Linking)
        /\ Some(Unlinked)' <=> Some(Unlinked)
        /\ Some(Owning)' <=> Some(Owning)
    BY <1>2, <1>h, <1>t, HeadAlone
  <2>3. UNCHANGED <<TailAt, LinkedTo, OwnedTo>>
    BY <2>1, <2>2 DEF TailAt, LinkedTo, OwnedTo
  <2>4. Chain(LinkedTo)' /\ Owned(OwnedTo)'
    BY <1>2, <2>1, <2>3 DEF ListShape, Chain, Owned
  <2>5. SideOf(t)' => Sides'
    BY <1>2, <2>1, <2>3, <1>1, <1>h, <1>t, PopOthers
  <2> QED BY <2>1, <2>2, <2>3, <2>4, <2>5 DEF Leaving
<1>3. CASE PopUnsafe(t) /\ ~NothingThere
  <2>1. /\ pc[t] = "popUnsafe" /\ pc'[t] = "popRemove" /\ head # NULL
        /\ ItemCount' = ItemCount - 1
        /\ UNCHANGED <<head, tail, next, owned, pushed, popped, crashed, TailMutex>>
        /\ \A u \in Threads : u # t => pc'[u] = pc[u] /\ item'[u] = item[u]
    BY <1>3, <1>t DEF PopUnsafe, NothingThere, CountedOff
  <2>2. /\ UNCHANGED <<Lo, Hi, TailAt, LinkedTo, OwnedTo>>
        /\ Chain(LinkedTo)' /\ Owned(OwnedTo)'
        /\ Leaving = 0 /\ Leaving' = 1
        /\ ~Some({"popLastTail"}) /\ ~Some({"popLastTail"})'
        /\ SideOf(t)' => Sides'
    BY <1>2, <2>1 DEF Owning, Linking, Unlinked, Removing
  <2>3. ListShape'
    BY <2>1, <2>2, <1>1, <1>t DEF ListShape
  <2>4. Lo <= TailAt
    BY <2>1, <1>1, <1>t DEF ListShape
  <2>5. SideOf(t)'
    BY <2>1, <2>2, <2>4, <1>s DEF SideOf, Removing
  <2> QED BY <2>2, <2>3, <2>5
<1>4. CASE PopRemove(t)
  <2>1. /\ pc[t] = "popRemove" /\ pc[t] \in Removing /\ head = item[t]
        /\ TailMutex = t \/ Lo < TailAt
        /\ Lo <= TailAt
    BY <1>4, <1>s DEF PopRemove, Removing, OrderInv, TakenInv, SideOf
  <2>2. /\ Lo <= TailAt /\ Lo <= OwnedTo /\ Lo \in 1 .. Hi /\ TailAt \in 1 .. Hi
    BY <2>1, <1>1, <1>s, <1>t DEF SideOf
  <2>3. ~Some({"popLastTail"})
    BY <2>1, <1>h, <1>t DEF Some, EndsLocked, Removing
  <2>4. item[t] = pushed[Lo] /\ tail = pushed[TailAt] /\ item[t] \in owned /\ item[t] \in Items
    BY <2>1, <2>2, <2>3, <1>t DEF ListShape, Owned
  <2>5. CASE item[t] = tail
    <3>1. Lo = TailAt
      BY <2>2, <2>4, <2>5, <1>t DEF Once, Hi
    <3>2. /\ pc'[t] = "popLastHead"
          /\ \A u \in Threads : u # t => pc'[u] = pc[u] /\ item'[u] = item[u]
          /\ UNCHANGED <<head, tail, next, owned, ItemCount, item, pushed, popped, crashed,
                         HeadMutex, TailMutex>>
      BY <1>4, <2>4, <2>5, <1>t DEF PopRemove
    <3>3. /\ UNCHANGED <<Lo, Hi, TailAt, LinkedTo, OwnedTo>>
          /\ Chain(LinkedTo)' /\ Owned(OwnedTo)'
          /\ Leaving' = Leaving
          /\ ~Some({"popLastTail"})'
          /\ SideOf(t)' => Sides'
      BY <1>2, <2>1, <3>2 DEF Owning, Linking, Unlinked, Removing
    <3>4. ListShape'
      BY <3>2, <3>3, <2>3 DEF ListShape
    <3>5. SideOf(t)'
      BY <3>1, <3>2, <3>3, <2>1, <1>1, <1>t DEF SideOf, Removing
    <3> QED BY <3>3, <3>4, <3>5
  <2>6. CASE item[t] # tail
    <3>1. /\ head' = next[item[t]] /\ crashed' = (next[item[t]] = NULL)
          /\ Delivers(t) /\ UNCHANGED <<tail, ItemCount, pushed>>
      BY <1>4, <2>4, <2>6, Zenon DEF PopRemove
    <3>2. Lo # TailAt /\ Lo < TailAt
      BY <2>2, <2>4, <2>6, <1>1, <1>t
    <3>3. next[item[t]] = pushed[Lo + 1]
      <4>1. Lo \in Lo .. LinkedTo - 1
        BY <3>2, <1>1, <1>t
      <4> QED BY <4>1, <2>4 DEF ListShape, Chain
    <3>4. Lo + 1 \in 1 .. Hi
      BY <3>2, <1>1, <1>t
    <3>5. pushed[Lo + 1] \in Items
      BY <3>4, <1>t
    <3>6. ~crashed'
      BY <3>1, <3>3, <3>5
    <3>7. /\ head' = (IF Lo = TailAt THEN NULL ELSE pushed[Lo + 1])
          /\ tail' = (IF Lo = TailAt THEN NULL ELSE pushed[TailAt])
      BY <3>1, <3>2, <3>3, <2>4, <1>t
    <3> QED BY <3>1, <3>2, <3>6, <3>7, <2>1, <2>2, <2>4, ShapeDelivers
  <2> QED BY <2>5, <2>6
<1>5. CASE PopLastHead(t)
  <2>1. /\ pc[t] = "popLastHead" /\ pc'[t] = "popLastTail" /\ head' = NULL
        /\ UNCHANGED <<tail, next, owned, ItemCount, item, pushed, popped, crashed,
                       HeadMutex, TailMutex>>
        /\ \A u \in Threads : u # t => pc'[u] = pc[u] /\ item'[u] = item[u]
    BY <1>5, <1>t DEF PopLastHead
  <2>2. /\ UNCHANGED <<Lo, Hi, TailAt, LinkedTo, OwnedTo>>
        /\ Chain(LinkedTo)' /\ Owned(OwnedTo)'
        /\ Leaving' = Leaving
        /\ ~Some({"popLastTail"}) /\ Some({"popLastTail"})'
        /\ SideOf(t)' => Sides'
    BY <1>2, <2>1 DEF Owning, Linking, Unlinked, Removing
  <2>3. ListShape'
    BY <2>1, <2>2 DEF ListShape
  <2>4. Lo = TailAt /\ TailMutex = t /\ item[t] = pushed[Lo]
    <3>1. head = item[t] /\ Lo = TailAt /\ TailMutex = t
      BY <2>1, <1>s DEF OrderInv, TakenInv, SideOf
    <3> QED BY <3>1, <2>2, <1>1, <1>t DEF ListShape
  <2>5. SideOf(t)'
    BY <2>1, <2>2, <2>4, <1>1, <1>t DEF SideOf, Removing
  <2> QED BY <2>2, <2>3, <2>5
<1>6. CASE PopLastTail(t)
  <2>1. /\ pc[t] = "popLastTail" /\ pc[t] \in Removing /\ tail' = NULL /\ Delivers(t)
        /\ UNCHANGED <<head, ItemCount, pushed, crashed>>
    BY <1>6 DEF PopLastTail, Removing
  <2>2. Lo = TailAt /\ TailMutex = t /\ item[t] = pushed[Lo]
    BY <2>1, <1>s DEF SideOf
  <2>3. head = NULL /\ ~crashed
    BY <2>1 DEF ListShape, Some
  <2>4. Lo <= OwnedTo
    BY <2>2, <1>1, <1>t
  <2> QED BY <2>1, <2>2, <2>3, <2>4, ShapeDelivers
<1> QED BY <1>3, <1>4, <1>5, <1>6

(* Every step of a push: the second look at the count lets it into the     *)
(* list without HeadMutex only when there is a task for it to link to.     *)
LEMMA CountedPush ==
  ASSUME OrderInv, ListShape, Sides, NEW t \in Threads, Push(t)
  PROVE  ListShape' /\ Sides'
<1> USE DEF At, Goto, lockVars
<1>t. /\ Lo \in Nat /\ Hi \in Nat /\ ItemCount \in Nat /\ EndsLocked
      /\ pc \in [Threads -> PCs] /\ item \in [Threads -> Items \cup {NULL}]
  BY HistoryTypes
<1>n. NULL \notin Threads
  BY TaskListAssumption
<1>1. ASSUME pc[t] \notin Owning \cup Removing, pc'[t] \notin Owning \cup Removing,
             \A u \in Threads : u # t => /\ pc'[u] = pc[u] /\ item'[u] = item[u]
                                         /\ HeadMutex = u => HeadMutex' = u
                                         /\ TailMutex = u => TailMutex' = u,
             UNCHANGED <<listVars, ItemCount, pushed, popped, crashed>>,
             pc'[t] = "pushCount" => HeadMutex' = t \/ Lo <= TailAt,
             pc'[t] # "popUnsafe"
      PROVE  ListShape' /\ Sides'
  BY <1>1, OutsideStep
<1> USE DEF Owning, Linking, Unlinked, Removing
<1>2. CASE \E x \in Items : PushCall(t, x)
  BY <1>1, <1>2, <1>t DEF PushCall
<1>3. CASE PushStart(t)
  BY <1>1, <1>3, <1>t DEF PushStart
<1>4. CASE LockHead(t, "pushHead", "pushTail")
  BY <1>1, <1>4, <1>t, <1>n DEF LockHead, Free
<1>5. CASE LockTail(t, "pushTail", "pushCheck")
  BY <1>1, <1>5, <1>t, <1>n DEF LockTail, Free
<1>6. CASE PushCheck(t)
  <2>1. pc[t] = "pushCheck" /\ TailMutex = t
    BY <1>6, <1>t DEF PushCheck, EndsLocked
  <2>2. TailAt = Hi /\ Leaving \in {0, 1}
    <3>1. \A u \in Threads : u # t => pc'[u] = pc[u]
      BY <1>6, <1>t DEF PushCheck
    <3>2. ~Some(Linking)
      BY <3>1, <2>1, <1>t, TailAlone
    <3> QED BY <3>2 DEF TailAt, Leaving
  <2>3. ItemCount >= 2 => Lo <= TailAt
    BY <2>2, <1>t DEF ListShape
  <2>4. pc'[t] = "pushCount" => HeadMutex' = t \/ Lo <= TailAt
    BY <1>6, <2>3, <1>t DEF PushCheck
  <2> QED BY <1>1, <1>6, <2>1, <2>4, <1>t DEF PushCheck, RetryUnlocks
<1>7. CASE PushCount(t) \/ PushTest(t) \/ PushFirst(t) \/ PushLink(t) \/ PushEnd(t) \/ PushOwner(t)
  BY <1>7, ShapePush
<1> QED BY <1>2, <1>3, <1>4, <1>5, <1>6, <1>7 DEF Push

(* Every step of a pop: its look at the count lets it into the list        *)
(* without TailMutex only when the second task is linked.                  *)
LEMMA CountedPop ==
  ASSUME OrderInv, ListShape, Sides, NEW t \in Threads, Pop(t), ~Miscount
  PROVE  ListShape' /\ Sides'
<1> USE DEF At, Goto, lockVars
<1>t. /\ Lo \in Nat /\ Hi \in Nat /\ ItemCount \in Nat /\ EndsLocked
      /\ pc \in [Threads -> PCs] /\ item \in [Threads -> Items \cup {NULL}]
  BY HistoryTypes
<1>n. NULL \notin Threads
  BY TaskListAssumption
<1>1. ASSUME pc[t] \notin Owning \cup Removing, pc'[t] \notin Owning \cup Removing,
             \A u \in Threads : u # t => /\ pc'[u] = pc[u] /\ item'[u] = item[u]
                                         /\ HeadMutex = u => HeadMutex' = u
                                         /\ TailMutex = u => TailMutex' = u,
             UNCHANGED <<listVars, ItemCount, pushed, popped, crashed>>,
             pc'[t] # "pushCount",
             pc'[t] = "popUnsafe" => TailMutex' = t \/ Lo < TailAt
      PROVE  ListShape' /\ Sides'
  BY <1>1, OutsideStep
<1> USE DEF Owning, Linking, Unlinked, Removing
<1>2. CASE PopCall(t)
  BY <1>1, <1>2, <1>t DEF PopCall
<1>3. CASE LockHead(t, "popHead", "popCheck")
  BY <1>1, <1>3, <1>t, <1>n DEF LockHead, Free
<1>4. CASE PopCheck(t)
  <2>1. /\ pc[t] = "popCheck" /\ pc'[t] = IF ItemCount < 2 THEN "popTail" ELSE "popUnsafe"
        /\ UNCHANGED <<listVars, ItemCount, HeadMutex, TailMutex, item, pushed, popped, crashed>>
        /\ \A u \in Threads : u # t => pc'[u] = pc[u]
    BY <1>4, <1>t DEF PopCheck
  <2>2. Leaving = 0
    <3>1. HeadMutex = t
      BY <2>1, <1>t DEF EndsLocked
    <3>2. ~Some(Removing)
      BY <3>1, <2>1, <1>t, HeadAlone
    <3> QED BY <3>2 DEF Leaving
  <2>3. pc'[t] = "popUnsafe" /\ ItemCount = 2 => ~Some(Linking)
    BY <2>1 DEF Miscount, Some
  <2>4. pc'[t] = "popUnsafe" => Lo < TailAt
    BY <2>1, <2>2, <2>3, <1>t DEF TailAt, ListShape
  <2> QED BY <1>1, <2>1, <2>4
<1>5. CASE LockTail(t, "popTail", "popUnsafe")
  BY <1>1, <1>5, <1>t, <1>n DEF LockTail, Free
<1>6. CASE PopUnsafe(t) /\ NothingThere
  <2>1. /\ pc[t] = "popUnsafe" /\ pc'[t] = "idle"
        /\ \A u \in Threads : u # t => pc'[u] = pc[u] /\ item'[u] = item[u]
        /\ UNCHANGED <<listVars, ItemCount, pushed, popped, crashed>>
        /\ \A u \in Threads : u # t => /\ HeadMutex = u => HeadMutex' = u
                                       /\ TailMutex = u => TailMutex' = u
    BY <1>6, <1>t DEF PopUnsafe, Return, Unlock
  <2> QED BY <1>1, <2>1
<1>7. CASE (PopUnsafe(t) /\ ~NothingThere) \/ PopRemove(t) \/ PopLastHead(t) \/ PopLastTail(t)
  BY <1>7, ShapePop
<1> QED BY <1>2, <1>3, <1>4, <1>5, <1>6, <1>7 DEF Pop

(* At first the list is empty and nobody calls.                            *)
LEMMA CountedInit == Init => CountedInv
<1> SUFFICES ASSUME Init PROVE ListShape /\ Sides
  BY DEF CountedInv
<1>1. /\ \A t \in Threads : pc[t] = "idle"
      /\ ~crashed /\ ItemCount = 0 /\ Lo = 1 /\ Hi = 0 /\ head = NULL /\ tail = NULL
  BY DEF Init, Lo, Hi
<1>2. ~Some(Linking) /\ ~Some(Unlinked) /\ ~Some(Owning) /\ ~Some(Removing)
  BY <1>1 DEF Some, Owning, Linking, Unlinked, Removing
<1>3. TailAt = 0 /\ LinkedTo = 0 /\ OwnedTo = 0 /\ Leaving = 0
  BY <1>1, <1>2 DEF TailAt, LinkedTo, OwnedTo, Leaving
<1>4. ListShape
  BY <1>1, <1>3 DEF ListShape, Chain, Owned
<1>5. Sides
  BY <1>1 DEF Sides, SideOf, Removing
<1> QED BY <1>4, <1>5

(* Once a pop has gone on by a count of two of which one is not linked,    *)
(* miscounted stays true and nothing is promised.                          *)
LEMMA CountedStep == OrderInv /\ CountedInv /\ [Next]_vars => CountedInv'
<1> SUFFICES ASSUME OrderInv, CountedInv, [Next]_vars, ~miscounted' PROVE ListShape' /\ Sides'
  BY Zenon DEF CountedInv
<1>1. CASE Next
  <2>1. ~miscounted /\ ~Miscount
    BY <1>1, Zenon DEF Next
  <2>2. PICK t \in Threads : Push(t) \/ Pop(t)
    BY <1>1, Zenon DEF Next
  <2>3. ListShape /\ Sides
    BY <2>1, Zenon DEF CountedInv
  <2> QED BY <2>1, <2>2, <2>3, CountedPush, CountedPop
<1>2. CASE UNCHANGED vars
  <2>1. UNCHANGED <<head, tail, next, owned, ItemCount, HeadMutex, TailMutex, pc, item,
                    pushed, popped, crashed>>
    BY <1>2 DEF vars, listVars, lockVars
  <2>2. ~miscounted
    BY <1>2, Zenon DEF vars
  <2>3. ListShape /\ Sides
    BY <2>2, Zenon DEF CountedInv
  <2>4. UNCHANGED <<Lo, Hi, TailAt, LinkedTo, OwnedTo, Leaving>>
    BY <2>1 DEF Lo, Hi, TailAt, LinkedTo, OwnedTo, Leaving, Some
  <2>5. ListShape'
    BY <2>1, <2>3, <2>4 DEF ListShape, Chain, Owned, Some
  <2>6. Sides'
    BY <2>1, <2>3, <2>4 DEF Sides, SideOf, Hi
  <2> QED BY <2>5, <2>6
<1> QED BY <1>1, <1>2

(* Between calls this list is the queue of what is in it.                  *)
LEMMA ShapeIsQueue ==
  ASSUME OrderInv, ListShape
  PROVE  IsQueue
<1>1. ASSUME Quiet
      PROVE  /\ ItemCount = Len(Contents)
             /\ head = IF Contents = <<>> THEN NULL ELSE Contents[1]
             /\ tail = IF Contents = <<>> THEN NULL ELSE Contents[Len(Contents)]
             /\ \A k \in 1 .. Len(Contents) - 1 : next[Contents[k]] = Contents[k + 1]
  <2>1. /\ ~Some(Linking) /\ ~Some(Unlinked) /\ ~Some(Owning) /\ ~Some(Removing)
        /\ ~Some({"popLastTail"})
    BY <1>1 DEF Quiet, Some, Owning, Linking, Unlinked, Removing
  <2>2. /\ Lo \in Nat /\ Lo >= 1 /\ Hi \in Nat /\ ItemCount \in Nat
        /\ pushed \in Seq(Items)
    BY HistoryTypes
  <2>3. TailAt = Hi /\ LinkedTo = Hi /\ Leaving = 0
    BY <2>1 DEF TailAt, LinkedTo, Leaving
  <2>4. /\ Len(Contents) = IF Lo <= Hi THEN Hi - Lo + 1 ELSE 0
        /\ \A k \in 1 .. Hi - Lo + 1 : Contents[k] = pushed[Lo + k - 1]
        /\ Contents \in Seq(Items)
    BY <2>2 DEF Contents, Lo, Hi
  <2>5. Contents = <<>> <=> Lo > Hi
    BY <2>2, <2>4
  <2>6. ItemCount = Len(Contents)
    BY <2>2, <2>3, <2>4 DEF ListShape
  <2>7. head = IF Contents = <<>> THEN NULL ELSE Contents[1]
    BY <2>1, <2>2, <2>3, <2>4, <2>5 DEF ListShape
  <2>8. tail = IF Contents = <<>> THEN NULL ELSE Contents[Len(Contents)]
    BY <2>2, <2>3, <2>4, <2>5 DEF ListShape
  <2>9. ASSUME NEW k \in 1 .. Len(Contents) - 1
        PROVE  next[Contents[k]] = Contents[k + 1]
    <3>1. /\ Lo + k - 1 \in Lo .. Hi - 1
          /\ Contents[k] = pushed[Lo + k - 1] /\ Contents[k + 1] = pushed[(Lo + k - 1) + 1]
      <4>1. Lo <= Hi /\ k \in 1 .. Hi - Lo /\ k + 1 \in 1 .. Hi - Lo + 1
        BY <2>2, <2>4
      <4>2. Lo + (k + 1) - 1 = (Lo + k - 1) + 1 /\ k \in 1 .. Hi - Lo + 1
        BY <4>1, <2>2
      <4>3. Contents[k + 1] = pushed[Lo + (k + 1) - 1] /\ Contents[k] = pushed[Lo + k - 1]
        BY <4>1, <4>2, <2>4
      <4> QED BY <4>1, <4>2, <4>3, <2>2
    <3> QED BY <3>1, <2>3 DEF ListShape, Chain
  <2> QED BY <2>6, <2>7, <2>8, <2>9
<1> QED BY <1>1 DEF IsQueue, ListShape

(* With any number of pushes and pops under way, on one mutex or on both,  *)
(* the list is the queue that the scheduler takes it for, as long as no    *)
(* pop took one mutex by a count of two of which one was not linked.       *)
THEOREM QueueWhileCounted == Spec => []QueueUnlessMiscounted
<1>1. OrderInv /\ CountedInv => QueueUnlessMiscounted
  <2> SUFFICES ASSUME OrderInv, CountedInv, ~miscounted PROVE IsQueue
    BY Zenon DEF QueueUnlessMiscounted
  <2>1. ListShape
    BY Zenon DEF CountedInv
  <2> QED BY <2>1, ShapeIsQueue
<1> QED BY <1>1, OrderInit, OrderStep, CountedInit, CountedStep, PTL DEF Spec
=============================================================================
