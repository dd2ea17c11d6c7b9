------------------------------ MODULE TaskList ------------------------------
(***************************************************************************)
(* TaskItemsList (b_task.cc): the ready queue, with one mutex for its head *)
(* and one for its tail.  A push takes only TailMutex, and a pop only      *)
(* HeadMutex, while ItemCount says that there are two items; with fewer    *)
(* they take both.                                                         *)
(*                                                                         *)
(* Besides the worker, every thread that unlocks a bMutex or signals a     *)
(* bCond reaches the queue through AddTask.  One step here is at most one  *)
(* access to what such threads share.                                      *)
(***************************************************************************)
EXTENDS Naturals, Sequences

CONSTANTS
  Threads,            \* the threads that call into the list
  Pushers, Poppers,   \* those that call pushBack, those that call popHead
  Items,              \* the TaskItems, each pushed once
  NULL

ASSUME TaskListAssumption ==
  /\ Pushers \subseteq Threads /\ Poppers \subseteq Threads
  /\ NULL \notin Threads \cup Items

VARIABLES
  head, tail, next,      \* the list
  owned,                 \* the items whose owner is set
  ItemCount,
  HeadMutex, TailMutex,  \* the thread that holds the mutex, or NULL
  pc, item,              \* where a thread is, and the item it works on
  pushed, popped,        \* history: the order of the pushes and of the pops
  crashed,               \* a thread went through a null pointer
  miscounted             \* history: a pop went on with HeadMutex alone though
                         \* one of the two items counted was not linked yet

listVars == <<head, tail, next, owned>>
lockVars == <<HeadMutex, TailMutex>>
vars == <<listVars, ItemCount, lockVars, pc, item, pushed, popped, crashed, miscounted>>

Pushing == {"pushStart", "pushHead", "pushTail", "pushCheck", "pushCount", "pushTest",
            "pushFirst", "pushLink", "pushEnd", "pushOwner"}
Popping == {"popHead", "popCheck", "popTail", "popUnsafe", "popRemove", "popLastHead",
            "popLastTail"}
PCs == {"idle"} \cup Pushing \cup Popping

TypeOK ==
  /\ head \in Items \cup {NULL} /\ tail \in Items \cup {NULL}
  /\ next \in [Items -> Items \cup {NULL}]
  /\ owned \subseteq Items
  /\ ItemCount \in Nat
  /\ HeadMutex \in Threads \cup {NULL} /\ TailMutex \in Threads \cup {NULL}
  /\ pc \in [Threads -> PCs]
  /\ item \in [Threads -> Items \cup {NULL}]
  /\ pushed \in Seq(Items) /\ popped \in Seq(Items)
  /\ crashed \in BOOLEAN
  /\ miscounted \in BOOLEAN

(* TaskItemsList::New. *)
Init ==
  /\ head = NULL /\ tail = NULL
  /\ next = [x \in Items |-> NULL]
  /\ owned = {}
  /\ ItemCount = 0
  /\ HeadMutex = NULL /\ TailMutex = NULL
  /\ pc = [t \in Threads |-> "idle"]
  /\ item = [t \in Threads |-> NULL]
  /\ pushed = <<>> /\ popped = <<>>
  /\ crashed = FALSE
  /\ miscounted = FALSE
-----------------------------------------------------------------------------
At(t, place) == ~crashed /\ pc[t] = place
Goto(t, place) == pc' = [pc EXCEPT ![t] = place]

(* Thread t releases what it holds and returns to its caller. *)
Unlock(t, m) == IF m = t THEN NULL ELSE m

Return(t) ==
  /\ HeadMutex' = Unlock(t, HeadMutex)
  /\ TailMutex' = Unlock(t, TailMutex)
  /\ item' = [item EXCEPT ![t] = NULL]
  /\ Goto(t, "idle")

FreeAlways(mutex) == TRUE
Free(mutex) == mutex = NULL

LockHead(t, place, then) ==
  /\ At(t, place)
  /\ Free(HeadMutex)
  /\ HeadMutex' = t
  /\ Goto(t, then)
  /\ UNCHANGED <<listVars, ItemCount, TailMutex, item, pushed, popped, crashed>>

LockTail(t, place, then) ==
  /\ At(t, place)
  /\ Free(TailMutex)
  /\ TailMutex' = t
  /\ Goto(t, then)
  /\ UNCHANGED <<listVars, ItemCount, HeadMutex, item, pushed, popped, crashed>>
-----------------------------------------------------------------------------
(* pushBack(x) is called. *)
PushCall(t, x) ==
  /\ t \in Pushers
  /\ At(t, "idle")
  /\ \A i \in 1 .. Len(pushed) : pushed[i] # x
  /\ \A u \in Threads : item[u] # x
  /\ item' = [item EXCEPT ![t] = x]
  /\ Goto(t, "pushStart")
  /\ UNCHANGED <<listVars, ItemCount, lockVars, pushed, popped, crashed>>

(* retry: which mutexes are needed? *)
PushStart(t) ==
  /\ At(t, "pushStart")
  /\ Goto(t, IF ItemCount < 2 THEN "pushHead" ELSE "pushTail")
  /\ UNCHANGED <<listVars, ItemCount, lockVars, item, pushed, popped, crashed>>

(* The count is read again under TailMutex; retry if both were needed. *)
RetryKeepsTail(t) == TailMutex
RetryUnlocks(t) == NULL

PushCheck(t) ==
  /\ At(t, "pushCheck")
  /\ \/ /\ ItemCount < 2 /\ HeadMutex # t
        /\ TailMutex' = RetryUnlocks(t)
        /\ Goto(t, "pushStart")
     \/ /\ ItemCount >= 2 \/ HeadMutex = t
        /\ TailMutex' = TailMutex
        /\ Goto(t, "pushCount")
  /\ UNCHANGED <<listVars, ItemCount, HeadMutex, item, pushed, popped, crashed>>

(* pushBackUnsafe counts the item before it links it. *)
PushCount(t) ==
  /\ At(t, "pushCount")
  /\ ItemCount' = ItemCount + 1
  /\ pushed' = Append(pushed, item[t])
  /\ Goto(t, "pushTest")
  /\ UNCHANGED <<listVars, lockVars, item, popped, crashed>>

PushTest(t) ==
  /\ At(t, "pushTest")
  /\ Goto(t, IF head = NULL /\ tail = NULL THEN "pushFirst" ELSE "pushLink")
  /\ UNCHANGED <<listVars, ItemCount, lockVars, item, pushed, popped, crashed>>

PushFirst(t) ==
  /\ At(t, "pushFirst")
  /\ head' = item[t]
  /\ tail' = item[t]
  /\ Goto(t, "pushOwner")
  /\ UNCHANGED <<next, owned, ItemCount, lockVars, item, pushed, popped, crashed>>

(* tail->next = i *)
PushLink(t) ==
  /\ At(t, "pushLink")
  /\ \/ /\ tail = NULL
        /\ crashed' = TRUE
        /\ UNCHANGED <<next, pc>>
     \/ /\ tail # NULL
        /\ next' = [next EXCEPT ![tail] = item[t]]
        /\ Goto(t, "pushEnd")
        /\ UNCHANGED crashed
  /\ UNCHANGED <<head, tail, owned, ItemCount, lockVars, item, pushed, popped>>

(* tail = i *)
PushEnd(t) ==
  /\ At(t, "pushEnd")
  /\ tail' = item[t]
  /\ Goto(t, "pushOwner")
  /\ UNCHANGED <<head, next, owned, ItemCount, lockVars, item, pushed, popped, crashed>>

PushOwner(t) ==
  /\ At(t, "pushOwner")
  /\ owned' = owned \cup {item[t]}
  /\ Return(t)
  /\ UNCHANGED <<head, tail, next, ItemCount, pushed, popped, crashed>>

Push(t) ==
  \/ \E x \in Items : PushCall(t, x)
  \/ PushStart(t)
  \/ LockHead(t, "pushHead", "pushTail")
  \/ LockTail(t, "pushTail", "pushCheck")
  \/ PushCheck(t)
  \/ PushCount(t)
  \/ PushTest(t)
  \/ PushFirst(t)
  \/ PushLink(t)
  \/ PushEnd(t)
  \/ PushOwner(t)
-----------------------------------------------------------------------------
(* popHead() is called; with no item counted it returns at once. *)
PopCall(t) ==
  /\ t \in Poppers
  /\ At(t, "idle")
  /\ ItemCount # 0
  /\ Goto(t, "popHead")
  /\ UNCHANGED <<listVars, ItemCount, lockVars, item, pushed, popped, crashed>>

PopCheck(t) ==
  /\ At(t, "popCheck")
  /\ Goto(t, IF ItemCount < 2 THEN "popTail" ELSE "popUnsafe")
  /\ UNCHANGED <<listVars, ItemCount, lockVars, item, pushed, popped, crashed>>

(* popHeadUnsafe: nothing there, or the head is counted off and removed.   *)
CountedOffTwice == ItemCount - 2
CountedOff == ItemCount - 1

NothingThere == ItemCount = 0 \/ tail = NULL \/ head = NULL

PopUnsafe(t) ==
  /\ At(t, "popUnsafe")
  /\ \/ /\ NothingThere
        /\ Return(t)
        /\ UNCHANGED ItemCount
     \/ /\ ~NothingThere
        /\ ItemCount' = CountedOff
        /\ item' = [item EXCEPT ![t] = head]
        /\ Goto(t, "popRemove")
        /\ UNCHANGED lockVars
  /\ UNCHANGED <<listVars, pushed, popped, crashed>>

(* popHead returns the item it has removed. *)
Delivers(t) ==
  /\ next' = [next EXCEPT ![item[t]] = NULL]
  /\ owned' = owned \ {item[t]}
  /\ popped' = Append(popped, item[t])
  /\ Return(t)

(* RemoveSelfFromOwnerlink of the head: not linked yet, not the last item, *)
(* or the last item.                                                       *)
PopRemove(t) ==
  /\ At(t, "popRemove")
  /\ \/ /\ item[t] \notin owned
        /\ Return(t)
        /\ UNCHANGED <<listVars, popped, crashed>>
     \/ /\ item[t] \in owned /\ item[t] # tail
        /\ head' = next[item[t]]
        /\ crashed' = (next[item[t]] = NULL)
        /\ Delivers(t)
        /\ UNCHANGED tail
     \/ /\ item[t] \in owned /\ item[t] = tail
        /\ Goto(t, "popLastHead")
        /\ UNCHANGED <<listVars, lockVars, item, popped, crashed>>
  /\ UNCHANGED <<ItemCount, pushed>>

PopLastHead(t) ==
  /\ At(t, "popLastHead")
  /\ head' = NULL
  /\ Goto(t, "popLastTail")
  /\ UNCHANGED <<tail, next, owned, ItemCount, lockVars, item, pushed, popped, crashed>>

PopLastTail(t) ==
  /\ At(t, "popLastTail")
  /\ tail' = NULL
  /\ Delivers(t)
  /\ UNCHANGED <<head, ItemCount, pushed, crashed>>

Pop(t) ==
  \/ PopCall(t)
  \/ LockHead(t, "popHead", "popCheck")
  \/ PopCheck(t)
  \/ LockTail(t, "popTail", "popUnsafe")
  \/ PopUnsafe(t)
  \/ PopRemove(t)
  \/ PopLastHead(t)
  \/ PopLastTail(t)

(* A pop looks at ItemCount, sees 2 and takes one mutex only, while a push *)
(* has counted its item and has yet to make it the tail.                   *)
Miscount ==
  \E t, u \in Threads :
    /\ pc[t] = "popCheck" /\ pc'[t] = "popUnsafe" /\ ItemCount = 2
    /\ pc[u] \in {"pushTest", "pushFirst", "pushLink", "pushEnd"}

Next ==
  /\ \E t \in Threads : Push(t) \/ Pop(t)
  /\ miscounted' = (miscounted \/ Miscount)

Spec == Init /\ [][Next]_vars
-----------------------------------------------------------------------------
(***************************************************************************)
(* Both mutexes are taken in the order head, tail, on the retry path too,  *)
(* and none outlives the call: no two callers wait for each other and none *)
(* waits for itself.                                                       *)
(***************************************************************************)
LockOrder ==
  \A t \in Threads :
    /\ pc[t] \in {"pushStart", "pushHead", "popHead"} => HeadMutex # t /\ TailMutex # t
    /\ pc[t] \in {"pushTail", "popTail"} => TailMutex # t
    /\ pc[t] = "idle" => HeadMutex # t /\ TailMutex # t

(***************************************************************************)
(* Whatever the two sides do to each other, the queue stays one: no task   *)
(* is taken out twice (it would be resumed and freed twice), and tasks     *)
(* come out in the order in which they were counted in.                    *)
(***************************************************************************)
TakenOnceInOrder ==
  \A i, j \in 1 .. Len(popped) :
    i < j => \E k, l \in 1 .. Len(pushed) : k < l /\ pushed[k] = popped[i] /\ pushed[l] = popped[j]

(***************************************************************************)
(* Between calls the links and the counter agree with the history: the     *)
(* list holds what was pushed and not popped, in order.                    *)
(***************************************************************************)
Quiet == \A t \in Threads : pc[t] = "idle"
Contents == SubSeq(pushed, Len(popped) + 1, Len(pushed))

IsQueue ==
  /\ ~crashed
  /\ Quiet =>
       /\ ItemCount = Len(Contents)
       /\ head = IF Contents = <<>> THEN NULL ELSE Contents[1]
       /\ tail = IF Contents = <<>> THEN NULL ELSE Contents[Len(Contents)]
       /\ \A k \in 1 .. Len(Contents) - 1 : next[Contents[k]] = Contents[k + 1]

(***************************************************************************)
(* The list is the queue that Scheduler takes it for, with any number of   *)
(* pushes and pops under way together, unless a pop went on with one mutex *)
(* when one of the two items counted was not linked yet.                   *)
(***************************************************************************)
QueueUnlessMiscounted == ~miscounted => IsQueue

(***************************************************************************)
(* It is a queue then, too: this is what the second look at ItemCount is   *)
(* for, which keeps a thread that holds one mutex away from a list with    *)
(* fewer than two items (b_task.cc:39).                                    *)
(***************************************************************************)
QueueIntact == IsQueue
=============================================================================
