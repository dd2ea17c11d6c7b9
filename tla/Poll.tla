-------------------------------- MODULE Poll ---------------------------------
(***************************************************************************)
(* poll() of b_hook.cc and the delivery of its events and timeouts by      *)
(* bRoutineEnv::Deal (b_routine_env.cc).                                   *)
(*                                                                         *)
(* poll() keeps a poll_message in the frame of the coroutine r that calls  *)
(* it, and leaves pointers to it in two places: one TaskItem per           *)
(* descriptor registered with epoll, and one in the time wheel.  So r      *)
(* stands for the poll_message as well; a coroutine is in one poll at a    *)
(* time.  The time wheel is here the set armed, and a timer may be due at  *)
(* any advance: a negative timeout is clipped to a turn of the wheel, so   *)
(* it is no exception.  (poll with timeout 0 does not switch.)             *)
(*                                                                         *)
(* epoll itself is external: ADD fails when the descriptor is closed or    *)
(* registered already, DEL drops whatever registration the descriptor has, *)
(* close drops it too, and the code looks at none of the results.          *)
(***************************************************************************)
EXTENDS Scheduler, FiniteSets

CONSTANTS
  Fds,         \* the file descriptors
  NoRoutine

ASSUME PollAssumption ==
  /\ NoRoutine \notin Routines
  /\ IsFiniteSet(Fds) /\ IsFiniteSet(Routines)

VARIABLES
  polling,     \* the coroutines inside poll, which have a poll_message
  fds,         \* poll_message::_pollfds, without repetition
  revents,     \* those of them whose revents were set
  activeFdsNums, activeFdsNums2,
  IsJoinActiveList, IsRemoveFromTimeoutList,  \* the coroutines that have it set
  IsTasktimeout,                              \* of the coroutine's TaskItem
  armed,       \* the coroutines whose TaskItem is in the time wheel
  registered,  \* epoll: the coroutine to which an event of the fd leads
  open,        \* the descriptors that are open
  dealAt,      \* where ProcessBegin is: at its top, in Deal, or before popHead
  toPrepare,   \* events Deal has yet to hand to pollPerpare
  toCallback,  \* events that were, and have yet to go to pollCallback
  due,         \* timers merged, and not yet handed to pollTimeout
  interfered   \* history: those whose call met another on one of its fds

pmVars == <<fds, revents, activeFdsNums, activeFdsNums2, IsJoinActiveList,
            IsRemoveFromTimeoutList, IsTasktimeout>>
dealVars == <<dealAt, toPrepare, toCallback, due>>
pollVars == <<schedVars, polling, pmVars, armed, registered, open, dealVars,
              interfered>>

Events == Fds \X Routines

PollTypeOK ==
  /\ SchedTypeOK
  /\ polling \subseteq Routines
  /\ fds \in [Routines -> SUBSET Fds]
  /\ revents \in [Routines -> SUBSET Fds]
  /\ activeFdsNums \in [Routines -> Nat]
  /\ activeFdsNums2 \in [Routines -> Nat]
  /\ IsJoinActiveList \subseteq Routines
  /\ IsRemoveFromTimeoutList \subseteq Routines
  /\ IsTasktimeout \subseteq Routines
  /\ armed \subseteq Routines
  /\ registered \in [Fds -> Routines \cup {NoRoutine}]
  /\ open \subseteq Fds
  /\ dealAt \in {"top", "events", "timers", "pop"}
  /\ toPrepare \subseteq Events
  /\ toCallback \subseteq Events
  /\ due \subseteq Routines
  /\ interfered \subseteq Routines

(***************************************************************************)
(* One coroutine runs, the others were resumed and have yielded.           *)
(***************************************************************************)
PollInit ==
  /\ occupyRoutine \in Routines
  /\ pendingRoutine = Loop
  /\ ActivetaskItems \in [1 .. Cardinality(Routines) - 1 -> Routines \ {occupyRoutine}]
  /\ NoDuplicates(ActivetaskItems)
  /\ polling = {}
  /\ fds = [r \in Routines |-> {}]
  /\ revents = [r \in Routines |-> {}]
  /\ activeFdsNums = [r \in Routines |-> 0]
  /\ activeFdsNums2 = [r \in Routines |-> 0]
  /\ IsJoinActiveList = {}
  /\ IsRemoveFromTimeoutList = {}
  /\ IsTasktimeout = {}
  /\ armed = {}
  /\ registered = [f \in Fds |-> NoRoutine]
  /\ open \in SUBSET Fds
  /\ dealAt = "top"
  /\ toPrepare = {}
  /\ toCallback = {}
  /\ due = {}
  /\ interfered = {}
-----------------------------------------------------------------------------
(* epoll_ctl for the items of the poll_message of r. *)
EpollAdd(r, F) ==
  [f \in Fds |-> IF f \in F \cap open /\ registered[f] = NoRoutine
                 THEN r ELSE registered[f]]

EpollKeep(F) == registered
EpollDel(F) == [f \in Fds |-> IF f \in F THEN NoRoutine ELSE registered[f]]

(* r runs, and not inside poll. *)
InApplication(r) == occupyRoutine = r /\ r \notin polling

(* The suspended calls that have one of the descriptors F. *)
CallsOn(F) == {r \in armed : fds[r] \cap F # {}}

(***************************************************************************)
(* poll(fds, nfds, timeout) up to its SwapContext: the timer is armed, the *)
(* descriptors are registered.  An empty F sleeps.                         *)
(***************************************************************************)
poll(r, F) ==
  /\ InApplication(r)
  /\ polling' = polling \cup {r}
  /\ fds' = [fds EXCEPT ![r] = F]
  /\ armed' = armed \cup {r}
  /\ registered' = EpollAdd(r, F)
  /\ interfered' = interfered \cup CallsOn(F)
                     \cup (IF CallsOn(F) # {} \/ ~(F \subseteq open) THEN {r} ELSE {})
  /\ SwapContext
  /\ UNCHANGED <<ActivetaskItems, revents, activeFdsNums, activeFdsNums2,
                 IsJoinActiveList, IsRemoveFromTimeoutList, IsTasktimeout,
                 open, dealVars>>

(***************************************************************************)
(* poll() after its SwapContext returns activeFdsNums[r].  Whoever resumed *)
(* it other than pollCallback or the timeout left its descriptors          *)
(* registered, and poll then deregisters them itself.  In this module      *)
(* nobody does; a TaskItem left behind by bCond::timeWait may (MutexCond). *)
(***************************************************************************)
pollReturns(r) ==
  /\ occupyRoutine = r
  /\ r \in polling
  /\ polling' = polling \ {r}
  /\ fds' = [fds EXCEPT ![r] = {}]
  /\ revents' = [revents EXCEPT ![r] = {}]
  /\ activeFdsNums' = [activeFdsNums EXCEPT ![r] = 0]
  /\ activeFdsNums2' = [activeFdsNums2 EXCEPT ![r] = 0]
  /\ IsJoinActiveList' = IsJoinActiveList \ {r}
  /\ IsRemoveFromTimeoutList' = IsRemoveFromTimeoutList \ {r}
  /\ IsTasktimeout' = IsTasktimeout \ {r}
  /\ interfered' = interfered \ {r}
  /\ registered' = IF r \in IsJoinActiveList \cup IsTasktimeout
                   THEN registered ELSE EpollDel(fds[r])
  /\ UNCHANGED <<schedVars, armed, open, dealVars>>
-----------------------------------------------------------------------------
(***************************************************************************)
(* Deal.  epoll_wait reports some of the descriptors that are registered.  *)
(* All events of one report go to pollPerpare before the first goes to     *)
(* pollCallback; within each pass any order is possible.                   *)
(***************************************************************************)
DealBegins(F) ==
  /\ occupyRoutine = Loop
  /\ dealAt = "top"
  /\ dealAt' = "events"
  /\ toPrepare' = {<<f, registered[f]>> : f \in F}
  /\ UNCHANGED <<schedVars, polling, pmVars, armed, registered, open,
                 toCallback, due, interfered>>

Watched == {f \in Fds : registered[f] # NoRoutine}

(* RemoveSelfFromOwnerlink_Save(pm->task), once per call. *)
TimerKept(r) == armed
TimerRemoved(r) == IF r \in IsRemoveFromTimeoutList THEN armed ELSE armed \ {r}

pollPerpare(f, r) ==
  /\ <<f, r>> \in toPrepare
  /\ toPrepare' = toPrepare \ {<<f, r>>}
  /\ toCallback' = toCallback \cup {<<f, r>>}
  /\ revents' = [revents EXCEPT ![r] = @ \cup {f}]
  /\ activeFdsNums' = [activeFdsNums EXCEPT ![r] = @ + 1]
  /\ activeFdsNums2' = [activeFdsNums2 EXCEPT ![r] = @ + 1]
  /\ armed' = TimerRemoved(r)
  /\ IsRemoveFromTimeoutList' = IsRemoveFromTimeoutList \cup {r}
  /\ UNCHANGED <<schedVars, polling, fds, IsJoinActiveList, IsTasktimeout,
                 registered, open, dealAt, due, interfered>>

(* pollCallback commits the task at the last event that led to r. *)
LastEventMissed(r) == r \notin IsJoinActiveList /\ activeFdsNums2[r] = 0
FirstEvent(r) == r \notin IsJoinActiveList
LastEvent(r) == r \notin IsJoinActiveList /\ activeFdsNums2[r] - 1 = 0

pollCallback(f, r) ==
  /\ toPrepare = {}
  /\ <<f, r>> \in toCallback
  /\ toCallback' = toCallback \ {<<f, r>>}
  /\ activeFdsNums2' = [activeFdsNums2 EXCEPT ![r] = @ - 1]
  /\ \/ /\ LastEvent(r)
        /\ IsJoinActiveList' = IsJoinActiveList \cup {r}
        /\ registered' = EpollDel(fds[r])
        /\ ActivetaskItems' = AddTask(ActivetaskItems, r)
     \/ /\ ~LastEvent(r)
        /\ UNCHANGED <<IsJoinActiveList, registered, ActivetaskItems>>
  /\ UNCHANGED <<occupyRoutine, pendingRoutine, polling, fds, revents,
                 activeFdsNums, IsRemoveFromTimeoutList, IsTasktimeout, armed,
                 open, dealAt, toPrepare, due, interfered>>

(***************************************************************************)
(* NewMergeUpdate2Now unlinks the timers D, after the events; each then    *)
(* gets its timeoutCallFunc and its task is committed.                     *)
(***************************************************************************)
MergeTimers(D) ==
  /\ dealAt = "events"
  /\ toPrepare = {}
  /\ toCallback = {}
  /\ dealAt' = "timers"
  /\ due' = D
  /\ armed' = armed \ D
  /\ UNCHANGED <<schedVars, polling, pmVars, registered, open, toPrepare,
                 toCallback, interfered>>

pollTimeout(r) ==
  /\ r \in due
  /\ due' = due \ {r}
  /\ registered' = EpollDel(fds[r])
  /\ IsTasktimeout' = IsTasktimeout \cup {r}
  /\ ActivetaskItems' = AddTask(ActivetaskItems, r)
  /\ UNCHANGED <<occupyRoutine, pendingRoutine, polling, fds, revents,
                 activeFdsNums, activeFdsNums2, IsJoinActiveList,
                 IsRemoveFromTimeoutList, armed, open, dealAt, toPrepare,
                 toCallback, interfered>>

DealEnds ==
  /\ dealAt = "timers"
  /\ due = {}
  /\ dealAt' = "pop"
  /\ UNCHANGED <<schedVars, polling, pmVars, armed, registered, open,
                 toPrepare, toCallback, due, interfered>>

(* ProcessBegin: Deal is left out when this millisecond saw one already; *)
(* with nothing to pop the loop is soon at its top again.                *)
LoopDispatch ==
  /\ dealAt \in {"top", "pop"}
  /\ Dispatch
  /\ dealAt' = "top"
  /\ UNCHANGED <<polling, pmVars, armed, registered, open, toPrepare,
                 toCallback, due, interfered>>

LoopIdles ==
  /\ occupyRoutine = Loop
  /\ dealAt = "pop"
  /\ ActivetaskItems = <<>>
  /\ dealAt' = "top"
  /\ UNCHANGED <<schedVars, polling, pmVars, armed, registered, open,
                 toPrepare, toCallback, due, interfered>>
-----------------------------------------------------------------------------
(* What else the application does: yield, and open and close descriptors. *)
Yield(r) ==
  /\ InApplication(r)
  /\ YieldSelf(r)
  /\ UNCHANGED <<polling, pmVars, armed, registered, open, dealVars, interfered>>

Open(r, f) ==
  /\ InApplication(r)
  /\ f \notin open
  /\ open' = open \cup {f}
  /\ UNCHANGED <<schedVars, polling, pmVars, armed, registered, dealVars,
                 interfered>>

Close(r, f) ==
  /\ InApplication(r)
  /\ f \in open
  /\ open' = open \ {f}
  /\ registered' = EpollDel({f})
  /\ interfered' = interfered \cup CallsOn({f})
  /\ UNCHANGED <<schedVars, polling, pmVars, armed, dealVars>>

DealContinues ==
  \/ \E e \in toPrepare : pollPerpare(e[1], e[2])
  \/ \E e \in toCallback : pollCallback(e[1], e[2])
  \/ \E D \in SUBSET armed : MergeTimers(D)
  \/ \E r \in due : pollTimeout(r)
  \/ DealEnds

PollNext ==
  \/ \E F \in SUBSET Watched : DealBegins(F)
  \/ DealContinues
  \/ LoopDispatch
  \/ LoopIdles
  \/ \E r \in Routines :
       \/ \E F \in SUBSET Fds : poll(r, F)
       \/ pollReturns(r)
       \/ Yield(r)
       \/ \E f \in Fds : Open(r, f) \/ Close(r, f)

PollSpec == PollInit /\ [][PollNext]_pollVars
-----------------------------------------------------------------------------
(* The poll_message of r is reachable: from epoll, from the wheel, or from *)
(* what Deal has in hand.                                                  *)
LedToByEvent(r) ==
  \/ \E f \in Fds : registered[f] = r
  \/ \E f \in Fds : <<f, r>> \in toPrepare \cup toCallback
LedToByTimer(r) == r \in armed \cup due

Committed(r) == In(ActivetaskItems, r) \/ occupyRoutine = r

(***************************************************************************)
(* Nothing leads to a poll_message whose coroutine is or will be running,  *)
(* or to one that is gone: the wild pointer of the comment in              *)
(* b_hook.cc:205-207, and the TaskItem that ProcessBegin deletes.          *)
(***************************************************************************)
FramesAlive ==
  \A r \in Routines :
    LedToByEvent(r) \/ LedToByTimer(r) => r \in polling /\ ~Committed(r)

(***************************************************************************)
(* A call of poll is woken once: by its events or by its timer, although   *)
(* both may be ready in the same Deal.                                     *)
(***************************************************************************)
WokenOnce ==
  /\ NoDuplicates(ActivetaskItems)
  /\ \A r \in Routines :
       /\ ~(In(ActivetaskItems, r) /\ occupyRoutine = r)
       /\ ~(r \in IsJoinActiveList /\ r \in IsTasktimeout)

(***************************************************************************)
(* A suspended call will be woken: its timer is in the wheel, unless       *)
(* events or the timeout are being handled, or it is ready.  A DEL that    *)
(* hits the registration of another coroutine can delay it, not lose it.   *)
(***************************************************************************)
PollerNotLost ==
  \A r \in polling :
    \/ LedToByTimer(r)
    \/ Committed(r)
    \/ \E f \in Fds : <<f, r>> \in toCallback

(***************************************************************************)
(* poll returns the number of entries with revents, which is what the loop *)
(* of the server in test_CS_net_Echo.cc aborts on, and 0 if and only if it *)
(* was the timer that woke it.                                             *)
(***************************************************************************)
PollCounts ==
  \A r \in polling :
    occupyRoutine = r =>
      /\ revents[r] \subseteq fds[r]
      /\ activeFdsNums[r] = Cardinality(revents[r])
      /\ activeFdsNums[r] = 0 <=> r \in IsTasktimeout

(***************************************************************************)
(* A suspended call hears of events on all its descriptors, unless during  *)
(* the call another coroutine polled or closed one of them.                *)
(***************************************************************************)
Registered ==
  \A r \in armed \ interfered : \A f \in fds[r] : registered[f] = r
=============================================================================
