----------------------------- MODULE PollProofs ------------------------------
(***************************************************************************)
(* Proofs about Poll, for any coroutines and any descriptors: the          *)
(* poll_message outlives every pointer to it, its coroutine is woken once  *)
(* and not lost, poll's result is right, and a call that nobody interfered *)
(* with is registered.                                                     *)
(***************************************************************************)
EXTENDS Poll, QueueLemmas, FiniteSetTheorems

(* r is inside poll and has not been committed since its switch. *)
Suspended(r) == r \in polling /\ r \notin IsJoinActiveList /\ r \notin IsTasktimeout

EventsOf(r) == {f \in Fds : <<f, r>> \in toCallback}

(* Deal works only while Loop runs, on events or on timers.                *)
Places ==
  /\ occupyRoutine # Loop => pendingRoutine = Loop /\ dealAt = "top"
  /\ dealAt # "events" => toPrepare = {} /\ toCallback = {}
  /\ dealAt # "timers" => due = {}

(* Whatever points at a poll_message points at one whose coroutine is      *)
(* suspended; a timer, at one that no event has reached.                   *)
Owners ==
  /\ \A f \in Fds : registered[f] # NoRoutine =>
       Suspended(registered[f]) /\ f \in fds[registered[f]]
  /\ \A f \in Fds : \A r \in Routines : <<f, r>> \in toPrepare =>
       Suspended(r) /\ f \in fds[r] /\ f \notin revents[r]
  /\ \A f \in Fds : \A r \in Routines : <<f, r>> \in toCallback =>
       Suspended(r) /\ f \in revents[r]
  /\ \A r \in armed : Suspended(r) /\ r \notin IsRemoveFromTimeoutList /\ r \notin due
  /\ \A r \in due : Suspended(r) /\ r \notin IsRemoveFromTimeoutList

(* The flags are set in poll only, and tell whether there was an event.    *)
Flags ==
  \A r \in Routines :
    /\ r \in IsJoinActiveList => r \in IsRemoveFromTimeoutList
    /\ r \in IsTasktimeout => r \in polling /\ r \notin IsRemoveFromTimeoutList
    /\ r \in IsRemoveFromTimeoutList => r \in polling
    /\ revents[r] \subseteq fds[r]
    /\ r \in IsRemoveFromTimeoutList <=> revents[r] # {}

(* The two counters count what happened and what is yet to be handled.     *)
Counts ==
  \A r \in Routines :
    /\ activeFdsNums[r] = Cardinality(revents[r])
    /\ activeFdsNums2[r] = Cardinality(EventsOf(r))

(* In poll, committed is the opposite of suspended.                        *)
Queued ==
  /\ NoDuplicates(ActivetaskItems)
  /\ \A r \in Routines :
       /\ ~(In(ActivetaskItems, r) /\ occupyRoutine = r)
       /\ r \in polling => (Committed(r) <=> ~Suspended(r))

(* Something will wake the suspended.                                      *)
Led ==
  \A r \in Routines :
    Suspended(r) => r \in armed \/ r \in due \/ \E f \in Fds : <<f, r>> \in toCallback

(* Two calls on one descriptor have interfered with each other.            *)
Apart ==
  \A q, r \in Routines :
    Suspended(q) /\ Suspended(r) /\ q # r /\ q \notin interfered => fds[q] \cap fds[r] = {}

Inv == PollTypeOK /\ Places /\ Owners /\ Flags /\ Counts /\ Queued /\ Led /\ Apart /\ Registered
-----------------------------------------------------------------------------
USE PollAssumption, LoopAssumption

(* A function on 1 .. n is a sequence. *)
LEMMA IsASeq ==
  ASSUME NEW S, NEW n \in Nat, NEW q \in [1 .. n -> S]
  PROVE  q \in Seq(S)
  OBVIOUS

(* Nothing outside a set is in a sequence over it. *)
LEMMA NotInSeq ==
  ASSUME NEW S, NEW q \in Seq(S), NEW x, x \notin S
  PROVE  ~In(q, x)
  BY DEF In

(* At the start nobody polls. *)
LEMMA PollInitInv == PollInit => Inv
<1> SUFFICES ASSUME PollInit PROVE Inv
  OBVIOUS
<1> USE DEF PollInit
<1>1. PollTypeOK
  <2>1. Cardinality(Routines) \in Nat /\ Cardinality(Routines) # 0
    BY FS_CardinalityType, FS_EmptySet
  <2>2. ActivetaskItems \in Seq(Routines)
    BY <2>1, IsASeq
  <2> QED
    BY <2>2 DEF PollTypeOK, SchedTypeOK, Coroutines, Events
<1>2. Places /\ Owners /\ Led /\ Apart /\ Registered
  BY DEF Places, Owners, Suspended, Led, Apart, Registered
<1>3. Flags
  BY DEF Flags
<1>4. Counts
  BY FS_EmptySet DEF Counts, EventsOf
<1>5. Queued
  <2>1. Cardinality(Routines) \in Nat /\ Cardinality(Routines) # 0
    BY FS_CardinalityType, FS_EmptySet
  <2>2. ActivetaskItems \in Seq(Routines \ {occupyRoutine})
    BY <2>1, IsASeq
  <2>3. ~In(ActivetaskItems, occupyRoutine)
    BY <2>2, NotInSeq
  <2> QED
    BY <2>3 DEF Queued
<1> QED
  BY <1>1, <1>2, <1>3, <1>4, <1>5 DEF Inv

(* The call of poll. *)
LEMMA PollCalled ==
  ASSUME Inv, NEW r \in Routines, NEW F \in SUBSET Fds, poll(r, F)
  PROVE  Inv'
<1> USE DEF poll, InApplication, SwapContext, dealVars
<1>1. /\ occupyRoutine = r /\ r \notin polling /\ r # Loop
      /\ dealAt = "top" /\ toPrepare = {} /\ toCallback = {} /\ due = {}
      /\ pendingRoutine = Loop
  BY DEF Inv, Places
<1>2. /\ occupyRoutine' = Loop
      /\ ~In(ActivetaskItems, r)
      /\ r \notin IsJoinActiveList /\ r \notin IsTasktimeout
      /\ r \notin IsRemoveFromTimeoutList /\ r \notin armed
      /\ revents[r] = {}
  BY <1>1 DEF Inv, Owners, Flags, Queued, Suspended
<1>3. \A f \in Fds : registered'[f] = r \/ registered'[f] = registered[f]
  BY DEF EpollAdd, Inv, PollTypeOK
<1>4. \A f \in Fds : registered'[f] # registered[f] => f \in F
  BY DEF EpollAdd, Inv, PollTypeOK
<1>5. \A q \in Routines : Suspended(q)' <=> Suspended(q) \/ q = r
  BY <1>2 DEF Suspended
<1>6. PollTypeOK'
  <2>1. registered' \in [Fds -> Routines \cup {NoRoutine}]
    BY DEF Inv, PollTypeOK, EpollAdd
  <2>2. fds' \in [Routines -> SUBSET Fds]
    BY DEF Inv, PollTypeOK
  <2>3. interfered' \subseteq Routines
    BY DEF Inv, PollTypeOK, CallsOn
  <2> QED
    BY <1>1, <2>1, <2>2, <2>3 DEF Inv, PollTypeOK, SchedTypeOK, Coroutines, Events
<1>7. Places'
  BY <1>1, <1>2 DEF Places
<1>8. Owners'
  <2>1. ASSUME NEW f \in Fds, NEW p \in Routines, registered'[f] = p
        PROVE  (Suspended(p) \/ p = r) /\ f \in fds'[p]
    <3>1. CASE registered'[f] = registered[f]
      <4>1. Suspended(p) /\ f \in fds[p]
        BY <2>1, <3>1 DEF Inv, Owners
      <4>2. p # r
        BY <1>1, <4>1 DEF Suspended
      <4> QED
        BY <4>1, <4>2 DEF Inv, PollTypeOK
    <3>2. CASE registered'[f] = r /\ registered'[f] # registered[f]
      BY <1>4, <2>1, <3>2 DEF Inv, PollTypeOK
    <3> QED
      BY <1>3, <3>1, <3>2
  <2>3. ASSUME NEW f \in Fds, registered'[f] # NoRoutine
        PROVE  Suspended(registered[f])' /\ f \in fds'[registered'[f]]
    <3> DEFINE p == registered'[f]
    <3>1. p \in Routines
      BY <1>6, <2>3 DEF PollTypeOK
    <3>2. (Suspended(p) \/ p = r) /\ f \in fds'[p]
      BY <2>1, <3>1
    <3> QED
      BY <1>2, <3>1, <3>2 DEF Suspended
  <2>2. \A q \in armed' : Suspended(q)' /\ q \notin IsRemoveFromTimeoutList' /\ q \notin due'
    BY <1>1, <1>2, <1>5 DEF Inv, Owners, PollTypeOK
  <2> QED
    BY <1>1, <2>3, <2>2 DEF Owners
<1>9. Flags'
  BY <1>2 DEF Inv, Flags, PollTypeOK
<1>10. Counts'
  BY DEF Inv, Counts, EventsOf
<1>11. Queued'
  BY <1>1, <1>2, <1>5 DEF Inv, Queued, Committed, PollTypeOK
<1>12. Led'
  BY <1>5 DEF Inv, Led
<1>13. Apart'
  <2> SUFFICES ASSUME NEW q \in Routines, NEW p \in Routines, Suspended(q)', Suspended(p)',
                      q # p, q \notin interfered'
               PROVE  fds'[q] \cap fds'[p] = {}
    BY DEF Apart
  <2>1. \A x \in Routines : Suspended(x) => x \in armed
    BY <1>1 DEF Inv, Led
  <2>2. CASE q = r
    <3>1. CallsOn(F) = {} /\ p \in armed
      BY <1>5, <2>1, <2>2
    <3> QED
      BY <2>2, <3>1 DEF CallsOn, Inv, PollTypeOK
  <2>3. CASE p = r
    <3>1. q \notin CallsOn(F) /\ q \in armed
      BY <1>5, <2>1, <2>3
    <3> QED
      BY <2>3, <3>1 DEF CallsOn, Inv, PollTypeOK
  <2>4. CASE q # r /\ p # r
    BY <1>5, <2>4 DEF Inv, Apart, PollTypeOK
  <2> QED
    BY <2>2, <2>3, <2>4
<1>14. Registered'
  <2> SUFFICES ASSUME NEW q \in armed', q \notin interfered', NEW f \in fds'[q]
               PROVE  registered'[f] = q
    BY DEF Registered
  <2>1. CASE q = r
    <3>1. CallsOn(F) = {} /\ f \in F /\ f \in open
      BY <2>1 DEF Inv, PollTypeOK
    <3>2. ASSUME registered[f] # NoRoutine PROVE FALSE
      <4> DEFINE p == registered[f]
      <4>1. p \in Routines /\ Suspended(p) /\ f \in fds[p]
        BY <3>1, <3>2 DEF Inv, Owners, PollTypeOK
      <4>2. p \in armed
        BY <1>1, <4>1 DEF Inv, Led
      <4> QED
        BY <3>1, <4>1, <4>2 DEF CallsOn
    <3> QED
      BY <2>1, <3>1, <3>2 DEF EpollAdd
  <2>2. CASE q # r
    <3>1. q \in armed /\ q \notin interfered /\ f \in fds[q] /\ f \in Fds
      BY <2>2 DEF Inv, PollTypeOK
    <3>2. registered[f] = q
      BY <3>1 DEF Inv, Registered
    <3> QED
      BY <3>1, <3>2 DEF EpollAdd, Inv, PollTypeOK
  <2> QED
    BY <2>1, <2>2
<1> QED
  BY <1>6, <1>7, <1>8, <1>9, <1>10, <1>11, <1>12, <1>13, <1>14 DEF Inv

(* The return from poll: r was woken, so nothing points at its frame.      *)
LEMMA PollReturned ==
  ASSUME Inv, NEW r \in Routines, pollReturns(r)
  PROVE  Inv'
<1> USE DEF pollReturns, dealVars, schedVars
<1>1. /\ occupyRoutine = r /\ r # Loop /\ r \in polling
      /\ dealAt = "top" /\ toPrepare = {} /\ toCallback = {} /\ due = {}
  BY DEF Inv, Places
<1>2. ~Suspended(r) /\ r \notin armed /\ \A f \in Fds : registered[f] # r
  <2>1. ~Suspended(r)
    BY <1>1 DEF Inv, Queued, Committed
  <2> QED
    BY <2>1 DEF Inv, Owners
<1>r. registered' = registered
  BY <1>1, <1>2 DEF Suspended
<1>3. \A q \in Routines : Suspended(q)' <=> Suspended(q)
  BY <1>2 DEF Suspended
<1>4. PollTypeOK'
  BY <1>r DEF Inv, PollTypeOK, SchedTypeOK, Events
<1>5. Places'
  BY DEF Inv, Places
<1>6. Owners'
  <2>1. ASSUME NEW f \in Fds, registered'[f] # NoRoutine
        PROVE  Suspended(registered[f])' /\ f \in fds'[registered'[f]]
    <3> DEFINE p == registered[f]
    <3>1. p \in Routines /\ Suspended(p) /\ f \in fds[p] /\ p # r
      BY <1>2, <1>r, <2>1 DEF Inv, Owners, PollTypeOK
    <3> QED
      BY <3>1, <1>r DEF Suspended, Inv, PollTypeOK
  <2>2. \A q \in armed' : Suspended(q)' /\ q \notin IsRemoveFromTimeoutList' /\ q \notin due'
    BY <1>1, <1>3 DEF Inv, Owners, PollTypeOK
  <2> QED
    BY <1>1, <2>1, <2>2 DEF Owners
<1>7. Flags'
  BY DEF Inv, Flags, PollTypeOK
<1>8. Counts'
  BY <1>1, FS_EmptySet DEF Inv, Counts, EventsOf, PollTypeOK
<1>9. Queued'
  BY <1>2, <1>3 DEF Inv, Queued, Committed
<1>10. Led'
  BY <1>3 DEF Inv, Led
<1>11. Apart'
  <2> SUFFICES ASSUME NEW q \in Routines, NEW p \in Routines, Suspended(q)', Suspended(p)',
                      q # p, q \notin interfered'
               PROVE  fds'[q] \cap fds'[p] = {}
    BY DEF Apart
  <2>1. Suspended(q) /\ Suspended(p) /\ q # r /\ p # r
    BY <1>2, <1>3
  <2> QED
    BY <2>1 DEF Inv, Apart, PollTypeOK
<1>12. Registered'
  <2> SUFFICES ASSUME NEW q \in armed', q \notin interfered', NEW f \in fds'[q]
               PROVE  registered'[f] = q
    BY DEF Registered
  <2>1. q # r
    BY <1>2
  <2> QED
    BY <2>1, <1>r DEF Inv, Registered, PollTypeOK
<1> QED
  BY <1>4, <1>5, <1>6, <1>7, <1>8, <1>9, <1>10, <1>11, <1>12 DEF Inv

(* epoll_wait: each event leads to a call whose timer is in the wheel, so  *)
(* that no event has reached it before.                                    *)
LEMMA EventsReported ==
  ASSUME Inv, NEW F \in SUBSET Watched, DealBegins(F)
  PROVE  Inv'
<1> USE DEF DealBegins, pmVars, schedVars
<1>1. toPrepare = {} /\ toCallback = {} /\ due = {} /\ occupyRoutine = Loop
  BY DEF Inv, Places
<1>2. \A q \in Routines : Suspended(q)' <=> Suspended(q)
  BY DEF Suspended
<1>3. ASSUME NEW f \in Fds, NEW r \in Routines, <<f, r>> \in toPrepare'
      PROVE  Suspended(r) /\ f \in fds[r] /\ f \notin revents[r]
  <2>1. registered[f] = r
    BY <1>3
  <2>2. Suspended(r) /\ f \in fds[r]
    BY <2>1 DEF Inv, Owners
  <2>3. r \in armed
    BY <1>1, <2>2 DEF Inv, Led
  <2> QED
    BY <2>2, <2>3 DEF Inv, Owners, Flags
<1>4. PollTypeOK'
  <2>1. toPrepare' \subseteq Events
    BY DEF Watched, Events, Inv, PollTypeOK
  <2> QED
    BY <2>1 DEF Inv, PollTypeOK, SchedTypeOK
<1>5. Places'
  BY <1>1 DEF Inv, Places
<1>6. Owners'
  <2>1. ASSUME NEW f \in Fds, registered'[f] # NoRoutine
        PROVE  Suspended(registered[f])' /\ f \in fds'[registered'[f]]
    BY <2>1 DEF Inv, Owners, Suspended
  <2>2. \A f \in Fds : \A r \in Routines : <<f, r>> \in toPrepare' =>
          Suspended(r)' /\ f \in fds'[r] /\ f \notin revents'[r]
    BY <1>2, <1>3
  <2>3. \A q \in armed' : Suspended(q)' /\ q \notin IsRemoveFromTimeoutList' /\ q \notin due'
    BY <1>1, <1>2 DEF Inv, Owners, PollTypeOK
  <2> QED
    BY <1>1, <2>1, <2>2, <2>3 DEF Owners
<1>7. Flags'
  BY DEF Inv, Flags
<1>8. Counts'
  BY DEF Inv, Counts, EventsOf
<1>9. Queued'
  BY <1>2 DEF Inv, Queued, Committed
<1>10. Led' /\ Apart' /\ Registered'
  BY <1>1, <1>2 DEF Inv, Led, Apart, Registered
<1> QED
  BY <1>4, <1>5, <1>6, <1>7, <1>8, <1>9, <1>10 DEF Inv

(* pollPerpare: the timer goes, and there is one more event to handle.     *)
LEMMA EventPrepared ==
  ASSUME Inv, NEW f \in Fds, NEW r \in Routines, pollPerpare(f, r)
  PROVE  Inv'
<1> USE DEF pollPerpare, schedVars
<1>1. /\ <<f, r>> \in toPrepare /\ dealAt = "events" /\ due = {} /\ occupyRoutine = Loop
      /\ Suspended(r) /\ f \in fds[r] /\ f \notin revents[r] /\ <<f, r>> \notin toCallback
  BY DEF Inv, Places, Owners
<1>2. \A q \in Routines : Suspended(q)' <=> Suspended(q)
  BY DEF Suspended
<1>3. armed' = armed \ {r}
  BY DEF TimerRemoved, Inv, Owners
<1>4. EventsOf(r)' = EventsOf(r) \cup {f} /\ f \notin EventsOf(r)
  BY <1>1 DEF EventsOf
<1>5. \A q \in Routines : q # r => EventsOf(q)' = EventsOf(q)
  BY DEF EventsOf
<1>6. revents'[r] = revents[r] \cup {f} /\ \A q \in Routines : q # r => revents'[q] = revents[q]
  BY DEF Inv, PollTypeOK
<1>7. PollTypeOK'
  <2>1. revents' \in [Routines -> SUBSET Fds]
    BY DEF Inv, PollTypeOK
  <2>2. activeFdsNums' \in [Routines -> Nat] /\ activeFdsNums2' \in [Routines -> Nat]
    BY DEF Inv, PollTypeOK
  <2>3. armed' \subseteq Routines /\ toPrepare' \subseteq Events /\ toCallback' \subseteq Events
    BY <1>3 DEF Inv, PollTypeOK, Events
  <2> QED
    BY <2>1, <2>2, <2>3 DEF Inv, PollTypeOK, SchedTypeOK
<1>8. Places'
  BY <1>1 DEF Inv, Places
<1>9. Owners'
  <2>1. ASSUME NEW g \in Fds, registered'[g] # NoRoutine
        PROVE  Suspended(registered[g])' /\ g \in fds'[registered'[g]]
    BY <2>1 DEF Inv, Owners, Suspended
  <2>2. ASSUME NEW g \in Fds, NEW q \in Routines, <<g, q>> \in toPrepare'
        PROVE  Suspended(q)' /\ g \in fds'[q] /\ g \notin revents'[q]
    <3>1. <<g, q>> \in toPrepare /\ ~(g = f /\ q = r)
      BY <2>2
    <3> QED
      BY <1>2, <1>6, <3>1 DEF Inv, Owners
  <2>3. ASSUME NEW g \in Fds, NEW q \in Routines, <<g, q>> \in toCallback'
        PROVE  Suspended(q)' /\ g \in revents'[q]
    <3>1. <<g, q>> \in toCallback \/ (g = f /\ q = r)
      BY <2>3
    <3> QED
      BY <1>1, <1>2, <1>6, <3>1 DEF Inv, Owners
  <2>4. \A q \in armed' : Suspended(q)' /\ q \notin IsRemoveFromTimeoutList' /\ q \notin due'
    BY <1>1, <1>2, <1>3 DEF Inv, Owners, PollTypeOK
  <2> QED
    BY <1>1, <2>1, <2>2, <2>3, <2>4 DEF Owners
<1>10. Flags'
  BY <1>1, <1>6 DEF Inv, Flags, Suspended
<1>11. Counts'
  <2>1. IsFiniteSet(revents[r]) /\ IsFiniteSet(EventsOf(r))
    BY FS_Subset DEF Inv, PollTypeOK, EventsOf
  <2>2. /\ Cardinality(revents'[r]) = Cardinality(revents[r]) + 1
        /\ Cardinality(EventsOf(r)') = Cardinality(EventsOf(r)) + 1
    BY <1>1, <1>4, <1>6, <2>1, FS_AddElement
  <2> QED
    BY <1>5, <1>6, <2>2 DEF Inv, Counts, PollTypeOK
<1>12. Queued'
  BY <1>2 DEF Inv, Queued, Committed
<1>13. Led'
  <2>1. <<f, r>> \in toCallback'
    OBVIOUS
  <2> QED
    BY <1>1, <1>2, <1>3, <2>1 DEF Inv, Led
<1>14. Apart' /\ Registered'
  BY <1>2, <1>3 DEF Inv, Apart, Registered
<1> QED
  BY <1>7, <1>8, <1>9, <1>10, <1>11, <1>12, <1>13, <1>14 DEF Inv

(* Nothing but r's own call is registered on r's descriptors when r was    *)
(* not interfered with, so DEL by another leaves its registrations.        *)
LEMMA DelSpares ==
  ASSUME Inv, NEW r \in Routines, Suspended(r),
         NEW q \in armed, q # r, q \notin interfered, NEW f \in fds[q]
  PROVE  EpollDel(fds[r])[f] = q
<1>1. q \in Routines /\ Suspended(q) /\ f \in Fds /\ registered[f] = q
  BY DEF Inv, PollTypeOK, Owners, Registered
<1>2. f \notin fds[r]
  BY <1>1 DEF Inv, Apart
<1> QED
  BY <1>1, <1>2 DEF EpollDel

(* After DEL on the descriptors of r no event leads to r.                  *)
LEMMA DelDrops ==
  ASSUME Inv, NEW r \in Routines, NEW f \in Fds, EpollDel(fds[r])[f] # NoRoutine
  PROVE  /\ EpollDel(fds[r])[f] = registered[f]
         /\ registered[f] # r
  BY DEF EpollDel, Inv, Owners

(* pollCallback at the last event: nothing else leads to r then.           *)
LEMMA CallbackCommits ==
  ASSUME Inv, NEW f \in Fds, NEW r \in Routines, pollCallback(f, r), LastEvent(r)
  PROVE  Inv'
<1> USE DEF AddTask
<1>0. /\ toPrepare = {} /\ <<f, r>> \in toCallback
      /\ toCallback' = toCallback \ {<<f, r>>}
      /\ activeFdsNums2' = [activeFdsNums2 EXCEPT ![r] = @ - 1]
      /\ IsJoinActiveList' = IsJoinActiveList \cup {r}
      /\ registered' = EpollDel(fds[r])
      /\ ActivetaskItems' = AddTask(ActivetaskItems, r)
      /\ UNCHANGED <<occupyRoutine, pendingRoutine, polling, fds, revents,
                 activeFdsNums, IsRemoveFromTimeoutList, IsTasktimeout, armed,
                 open, dealAt, toPrepare, due, interfered>>
  BY DEF pollCallback
<1>1. /\ dealAt = "events" /\ due = {} /\ occupyRoutine = Loop /\ r # Loop
      /\ Suspended(r) /\ f \in revents[r] /\ r \in IsRemoveFromTimeoutList
      /\ r \notin armed /\ ~In(ActivetaskItems, r)
  BY <1>0 DEF Inv, Places, Owners, Flags, Queued, Committed
<1>2. EventsOf(r) = {f}
  <2>1. f \in EventsOf(r)
    BY <1>0 DEF EventsOf
  <2>2. IsFiniteSet(EventsOf(r))
    BY FS_Subset DEF EventsOf
  <2>3. Cardinality(EventsOf(r)) - 1 = 0
    BY DEF LastEvent, Inv, Counts
  <2>4. Cardinality(EventsOf(r)) \in Nat
    BY <2>2, FS_CardinalityType
  <2>5. IsFiniteSet(EventsOf(r) \ {f}) /\ Cardinality(EventsOf(r) \ {f}) = 0
    BY <2>1, <2>2, <2>3, <2>4, FS_RemoveElement
  <2>6. EventsOf(r) \ {f} = {}
    BY <2>5, FS_EmptySet
  <2> QED
    BY <2>1, <2>6
<1>3. EventsOf(r)' = {}
  BY <1>0, <1>2 DEF EventsOf
<1>4. \A q \in Routines : q # r => EventsOf(q)' = EventsOf(q)
  BY <1>0 DEF EventsOf
<1>5. \A q \in Routines : Suspended(q)' <=> Suspended(q) /\ q # r
  BY <1>0 DEF Suspended
<1>6. /\ Append(ActivetaskItems, r) \in Seq(Routines)
      /\ \A q \in Routines : In(ActivetaskItems', q) <=> In(ActivetaskItems, q) \/ q = r
      /\ NoDuplicates(ActivetaskItems')
  BY <1>0, <1>1, AppendIn DEF Inv, PollTypeOK, SchedTypeOK, Queued
<1>7. PollTypeOK'
  <2>1. activeFdsNums2' \in [Routines -> Nat]
    BY <1>0, <1>2 DEF LastEvent, Inv, PollTypeOK
  <2>2. registered' \in [Fds -> Routines \cup {NoRoutine}]
    BY <1>0 DEF EpollDel, Inv, PollTypeOK
  <2> QED
    BY <1>0, <1>6, <2>1, <2>2 DEF Inv, PollTypeOK, SchedTypeOK, Events
<1>8. Places'
  BY <1>0, <1>1 DEF Inv, Places
<1>9. Owners'
  <2>1. ASSUME NEW g \in Fds, registered'[g] # NoRoutine
        PROVE  Suspended(registered[g])' /\ g \in fds'[registered'[g]]
    <3> DEFINE p == registered[g]
    <3>1. registered'[g] = p /\ p # r
      BY <1>0, <2>1, DelDrops
    <3>2. p \in Routines /\ Suspended(p) /\ g \in fds[p]
      BY <2>1, <3>1 DEF Inv, Owners, PollTypeOK
    <3> QED
      BY <1>0, <3>1, <3>2 DEF Suspended
  <2>2. ASSUME NEW g \in Fds, NEW q \in Routines, <<g, q>> \in toCallback'
        PROVE  Suspended(q)' /\ g \in revents'[q]
    <3>1. <<g, q>> \in toCallback
      BY <1>0, <2>2
    <3>2. q # r
      BY <1>3, <2>2 DEF EventsOf
    <3> QED
      BY <1>0, <1>5, <3>1, <3>2 DEF Inv, Owners
  <2>3. \A q \in armed' : Suspended(q)' /\ q \notin IsRemoveFromTimeoutList' /\ q \notin due'
    BY <1>0, <1>1, <1>5 DEF Inv, Owners, PollTypeOK
  <2> QED
    BY <1>0, <1>1, <2>1, <2>2, <2>3 DEF Owners
<1>10. Flags'
  BY <1>0, <1>1 DEF Inv, Flags, Suspended
<1>11. Counts'
  <2>1. activeFdsNums2'[r] = 0
    BY <1>0 DEF LastEvent, Inv, PollTypeOK
  <2>2. Cardinality(EventsOf(r)') = 0
    BY <1>3, FS_EmptySet
  <2> QED
    BY <1>0, <1>4, <2>1, <2>2 DEF Inv, Counts, PollTypeOK
<1>12. Queued'
  <2>1. ASSUME NEW q \in Routines, q \in polling
        PROVE  Committed(q)' <=> ~Suspended(q)'
    BY <1>0, <1>5, <1>6, <2>1 DEF Inv, Queued, Committed
  <2>2. \A q \in Routines : ~(In(ActivetaskItems', q) /\ occupyRoutine' = q)
    BY <1>0, <1>1
  <2> QED
    BY <1>0, <1>6, <2>1, <2>2 DEF Queued
<1>13. Led'
  <2> SUFFICES ASSUME NEW q \in Routines, Suspended(q)'
               PROVE  q \in armed' \/ q \in due' \/ \E g \in Fds : <<g, q>> \in toCallback'
    BY DEF Led
  <2>1. Suspended(q) /\ q # r
    BY <1>5
  <2> QED
    BY <1>0, <2>1 DEF Inv, Led
<1>14. Apart'
  BY <1>0, <1>5 DEF Inv, Apart
<1>15. Registered'
  BY <1>0, <1>1, DelSpares DEF Registered
<1> QED
  BY <1>7, <1>8, <1>9, <1>10, <1>11, <1>12, <1>13, <1>14, <1>15 DEF Inv

(* pollCallback at an earlier event only counts it off.                    *)
LEMMA CallbackCounts ==
  ASSUME Inv, NEW f \in Fds, NEW r \in Routines, pollCallback(f, r), ~LastEvent(r)
  PROVE  Inv'
<1>0. /\ toPrepare = {} /\ <<f, r>> \in toCallback
      /\ toCallback' = toCallback \ {<<f, r>>}
      /\ activeFdsNums2' = [activeFdsNums2 EXCEPT ![r] = @ - 1]
      /\ UNCHANGED <<schedVars, polling, fds, revents, IsJoinActiveList, registered,
                 activeFdsNums, IsRemoveFromTimeoutList, IsTasktimeout, armed,
                 open, dealAt, toPrepare, due, interfered>>
  BY DEF pollCallback, schedVars
<1> USE DEF schedVars
<1>1. /\ dealAt = "events" /\ due = {} /\ occupyRoutine = Loop
      /\ Suspended(r) /\ f \in revents[r] /\ r \notin armed
  BY <1>0 DEF Inv, Places, Owners, Flags
<1>2. EventsOf(r)' = EventsOf(r) \ {f} /\ f \in EventsOf(r)
  BY <1>0 DEF EventsOf
<1>3. IsFiniteSet(EventsOf(r))
  BY FS_Subset DEF EventsOf
<1>4. /\ Cardinality(EventsOf(r)') = Cardinality(EventsOf(r)) - 1
      /\ Cardinality(EventsOf(r)) \in Nat /\ Cardinality(EventsOf(r)') \in Nat
      /\ IsFiniteSet(EventsOf(r)')
  BY <1>2, <1>3, FS_RemoveElement, FS_CardinalityType
<1>5. \A q \in Routines : q # r => EventsOf(q)' = EventsOf(q)
  BY <1>0 DEF EventsOf
<1>6. \A q \in Routines : Suspended(q)' <=> Suspended(q)
  BY <1>0 DEF Suspended
<1>7. activeFdsNums2[r] = Cardinality(EventsOf(r)) /\ activeFdsNums2[r] - 1 # 0
  BY <1>1 DEF LastEvent, Inv, Counts, Suspended
<1>8. PollTypeOK'
  <2>1. activeFdsNums2' \in [Routines -> Nat]
    BY <1>0, <1>4, <1>7 DEF Inv, PollTypeOK
  <2> QED
    BY <1>0, <2>1 DEF Inv, PollTypeOK, SchedTypeOK, Events
<1>9. Places'
  BY <1>0, <1>1 DEF Inv, Places
<1>10. Owners'
  <2>1. ASSUME NEW g \in Fds, registered'[g] # NoRoutine
        PROVE  Suspended(registered[g])' /\ g \in fds'[registered'[g]]
    BY <1>0, <2>1 DEF Inv, Owners, Suspended
  <2>2. ASSUME NEW g \in Fds, NEW q \in Routines, <<g, q>> \in toCallback'
        PROVE  Suspended(q)' /\ g \in revents'[q]
    BY <1>0, <1>6, <2>2 DEF Inv, Owners
  <2>3. \A q \in armed' : Suspended(q)' /\ q \notin IsRemoveFromTimeoutList' /\ q \notin due'
    BY <1>0, <1>6 DEF Inv, Owners, PollTypeOK
  <2> QED
    BY <1>0, <1>1, <2>1, <2>2, <2>3 DEF Owners
<1>11. Flags'
  BY <1>0 DEF Inv, Flags
<1>12. Counts'
  BY <1>0, <1>4, <1>5, <1>7 DEF Inv, Counts, PollTypeOK
<1>13. Queued'
  BY <1>0, <1>6 DEF Inv, Queued, Committed
<1>14. Led'
  <2>1. \E g \in Fds : <<g, r>> \in toCallback'
    <3>1. EventsOf(r)' # {}
      BY <1>4, <1>7, FS_EmptySet
    <3> QED
      BY <3>1 DEF EventsOf
  <2>2. ASSUME NEW q \in Routines, q # r, Suspended(q)'
        PROVE  q \in armed' \/ q \in due' \/ \E g \in Fds : <<g, q>> \in toCallback'
    BY <1>0, <1>6, <2>2 DEF Inv, Led
  <2> QED
    BY <2>1, <2>2 DEF Led
<1>15. Apart' /\ Registered'
  BY <1>0, <1>6 DEF Inv, Apart, Registered
<1> QED
  BY <1>8, <1>9, <1>10, <1>11, <1>12, <1>13, <1>14, <1>15 DEF Inv

(* The merge of the wheel: the timers D move from the wheel to the hands   *)
(* of Deal.                                                                *)
LEMMA TimersMerged ==
  ASSUME Inv, NEW D \in SUBSET armed, MergeTimers(D)
  PROVE  Inv'
<1> USE DEF MergeTimers, pmVars, schedVars
<1>1. due = {} /\ occupyRoutine = Loop /\ toPrepare = {} /\ toCallback = {}
  BY DEF Inv, Places
<1>2. \A q \in Routines : Suspended(q)' <=> Suspended(q)
  BY DEF Suspended
<1>3. PollTypeOK'
  BY DEF Inv, PollTypeOK, SchedTypeOK, Events
<1>4. Places'
  BY <1>1 DEF Inv, Places
<1>5. Owners'
  <2>1. ASSUME NEW f \in Fds, registered'[f] # NoRoutine
        PROVE  Suspended(registered[f])' /\ f \in fds'[registered'[f]]
    BY <2>1 DEF Inv, Owners, Suspended
  <2>2. \A q \in armed' : Suspended(q)' /\ q \notin IsRemoveFromTimeoutList' /\ q \notin due'
    BY <1>2 DEF Inv, Owners, PollTypeOK
  <2>3. \A q \in due' : Suspended(q)' /\ q \notin IsRemoveFromTimeoutList'
    BY <1>2 DEF Inv, Owners, PollTypeOK
  <2> QED
    BY <1>1, <2>1, <2>2, <2>3 DEF Owners
<1>6. Flags'
  BY DEF Inv, Flags
<1>7. Counts'
  BY DEF Inv, Counts, EventsOf
<1>8. Queued'
  BY <1>2 DEF Inv, Queued, Committed
<1>9. Led' /\ Apart' /\ Registered'
  BY <1>1, <1>2 DEF Inv, Led, Apart, Registered
<1> QED
  BY <1>3, <1>4, <1>5, <1>6, <1>7, <1>8, <1>9 DEF Inv

(* pollTimeout: no event has reached r, and none leads to it any more.     *)
LEMMA TimeoutCommits ==
  ASSUME Inv, NEW r \in due, pollTimeout(r)
  PROVE  Inv'
<1> USE DEF AddTask
<1>0. /\ due' = due \ {r}
      /\ registered' = EpollDel(fds[r])
      /\ IsTasktimeout' = IsTasktimeout \cup {r}
      /\ ActivetaskItems' = AddTask(ActivetaskItems, r)
      /\ UNCHANGED <<occupyRoutine, pendingRoutine, polling, fds, revents,
                 activeFdsNums, activeFdsNums2, IsJoinActiveList,
                 IsRemoveFromTimeoutList, armed, open, dealAt, toPrepare,
                 toCallback, interfered>>
  BY DEF pollTimeout
<1>1. /\ r \in Routines
      /\ dealAt = "timers" /\ toPrepare = {} /\ toCallback = {}
      /\ occupyRoutine = Loop /\ r # Loop
      /\ Suspended(r) /\ r \notin IsRemoveFromTimeoutList
      /\ r \notin armed /\ ~In(ActivetaskItems, r)
  <2>1. dealAt = "timers" /\ occupyRoutine = Loop /\ toPrepare = {} /\ toCallback = {}
    BY DEF Inv, Places
  <2>2. r \in Routines /\ Suspended(r) /\ r \notin IsRemoveFromTimeoutList /\ r \notin armed
    BY DEF Inv, PollTypeOK, Owners
  <2>3. ~In(ActivetaskItems, r)
    BY <2>2 DEF Inv, Queued, Committed, Suspended
  <2> QED
    BY <2>1, <2>2, <2>3
<1>2. \A q \in Routines : Suspended(q)' <=> Suspended(q) /\ q # r
  BY <1>0 DEF Suspended
<1>3. /\ Append(ActivetaskItems, r) \in Seq(Routines)
      /\ \A q \in Routines : In(ActivetaskItems', q) <=> In(ActivetaskItems, q) \/ q = r
      /\ NoDuplicates(ActivetaskItems')
  BY <1>0, <1>1, AppendIn DEF Inv, PollTypeOK, SchedTypeOK, Queued
<1>4. PollTypeOK'
  <2>1. registered' \in [Fds -> Routines \cup {NoRoutine}]
    BY <1>0 DEF EpollDel, Inv, PollTypeOK
  <2> QED
    BY <1>0, <1>1, <1>3, <2>1 DEF Inv, PollTypeOK, SchedTypeOK, Events
<1>5. Places'
  BY <1>0, <1>1 DEF Inv, Places
<1>6. Owners'
  <2>1. ASSUME NEW g \in Fds, registered'[g] # NoRoutine
        PROVE  Suspended(registered[g])' /\ g \in fds'[registered'[g]]
    <3> DEFINE p == registered[g]
    <3>1. registered'[g] = p /\ p # r
      BY <1>0, <1>1, <2>1, DelDrops
    <3>2. p \in Routines /\ Suspended(p) /\ g \in fds[p]
      BY <2>1, <3>1 DEF Inv, Owners, PollTypeOK
    <3> QED
      BY <1>0, <3>1, <3>2 DEF Suspended
  <2>2. \A q \in armed' : Suspended(q)' /\ q \notin IsRemoveFromTimeoutList' /\ q \notin due'
    BY <1>0, <1>1, <1>2 DEF Inv, Owners, PollTypeOK
  <2>3. \A q \in due' : Suspended(q)' /\ q \notin IsRemoveFromTimeoutList'
    BY <1>0, <1>2 DEF Inv, Owners, PollTypeOK
  <2> QED
    BY <1>0, <1>1, <2>1, <2>2, <2>3 DEF Owners
<1>7. Flags'
  BY <1>0, <1>1 DEF Inv, Flags, Suspended
<1>8. Counts'
  BY <1>0 DEF Inv, Counts, EventsOf
<1>9. Queued'
  <2>1. ASSUME NEW q \in Routines, q \in polling
        PROVE  Committed(q)' <=> ~Suspended(q)'
    BY <1>0, <1>2, <1>3, <2>1 DEF Inv, Queued, Committed
  <2>2. \A q \in Routines : ~(In(ActivetaskItems', q) /\ occupyRoutine' = q)
    BY <1>0, <1>1
  <2> QED
    BY <1>0, <1>3, <2>1, <2>2 DEF Queued
<1>10. Led'
  <2> SUFFICES ASSUME NEW q \in Routines, Suspended(q)'
               PROVE  q \in armed' \/ q \in due' \/ \E g \in Fds : <<g, q>> \in toCallback'
    BY DEF Led
  <2>1. Suspended(q) /\ q # r
    BY <1>2
  <2> QED
    BY <1>0, <2>1 DEF Inv, Led
<1>11. Apart'
  BY <1>0, <1>2 DEF Inv, Apart
<1>12. Registered'
  BY <1>0, <1>1, DelSpares DEF Registered
<1> QED
  BY <1>4, <1>5, <1>6, <1>7, <1>8, <1>9, <1>10, <1>11, <1>12 DEF Inv

(* Deal returns.                                                           *)
LEMMA DealEnded ==
  ASSUME Inv, DealEnds
  PROVE  Inv'
<1> USE DEF DealEnds, pmVars, schedVars
<1>1. \A q \in Routines : Suspended(q)' <=> Suspended(q)
  BY DEF Suspended
<1>2. PollTypeOK' /\ Places' /\ Flags'
  BY DEF Inv, PollTypeOK, SchedTypeOK, Events, Places, Flags
<1>3. Owners'
  BY DEF Inv, Owners, Suspended
<1>4. Counts'
  BY DEF Inv, Counts, EventsOf
<1>5. Queued' /\ Led' /\ Apart' /\ Registered'
  BY <1>1 DEF Inv, Queued, Committed, Led, Apart, Registered
<1> QED
  BY <1>2, <1>3, <1>4, <1>5 DEF Inv

(* The loop takes the oldest task: its coroutine is no longer in the       *)
(* queue but running, committed as before.                                 *)
LEMMA LoopDispatched ==
  ASSUME Inv, LoopDispatch
  PROVE  Inv'
<1>0. /\ occupyRoutine = Loop /\ ActivetaskItems # <<>>
      /\ occupyRoutine' = Head(ActivetaskItems) /\ pendingRoutine' = Loop
      /\ ActivetaskItems' = Tail(ActivetaskItems)
      /\ dealAt' = "top" /\ dealAt \in {"top", "pop"}
      /\ UNCHANGED <<polling, pmVars, armed, registered, open, toPrepare,
                     toCallback, due, interfered>>
  BY DEF LoopDispatch, Dispatch
<1> USE DEF pmVars
<1>1. /\ Head(ActivetaskItems) \in Routines
      /\ Tail(ActivetaskItems) \in Seq(Routines)
      /\ \A x : In(ActivetaskItems, x) <=> In(ActivetaskItems', x) \/ x = occupyRoutine'
      /\ NoDuplicates(ActivetaskItems') /\ ~In(ActivetaskItems', occupyRoutine')
  BY <1>0, TailIn DEF Inv, PollTypeOK, SchedTypeOK, Queued
<1>2. \A q \in Routines : Suspended(q)' <=> Suspended(q)
  BY <1>0 DEF Suspended
<1>3. \A q \in Routines : Committed(q)' <=> Committed(q)
  BY <1>0, <1>1 DEF Committed
<1>4. PollTypeOK'
  BY <1>0, <1>1 DEF Inv, PollTypeOK, SchedTypeOK, Coroutines, Events
<1>5. Places'
  BY <1>0 DEF Inv, Places
<1>6. Owners'
  BY <1>0 DEF Inv, Owners, Suspended
<1>7. Flags'
  BY <1>0 DEF Inv, Flags
<1>8. Counts'
  BY <1>0 DEF Inv, Counts, EventsOf
<1>9. Queued'
  BY <1>0, <1>1, <1>2, <1>3 DEF Inv, Queued
<1>10. Led' /\ Apart' /\ Registered'
  BY <1>0, <1>2 DEF Inv, Led, Apart, Registered
<1> QED
  BY <1>4, <1>5, <1>6, <1>7, <1>8, <1>9, <1>10 DEF Inv

(* A turn of the loop that finds nothing.                                  *)
LEMMA LoopIdled ==
  ASSUME Inv, LoopIdles
  PROVE  Inv'
<1> USE DEF LoopIdles, pmVars, schedVars
<1>1. \A q \in Routines : Suspended(q)' <=> Suspended(q)
  BY DEF Suspended
<1>2. PollTypeOK' /\ Places' /\ Flags'
  BY DEF Inv, PollTypeOK, SchedTypeOK, Events, Places, Flags
<1>3. Owners'
  BY DEF Inv, Owners, Suspended
<1>4. Counts'
  BY DEF Inv, Counts, EventsOf
<1>5. Queued' /\ Led' /\ Apart' /\ Registered'
  BY <1>1 DEF Inv, Queued, Committed, Led, Apart, Registered
<1> QED
  BY <1>2, <1>3, <1>4, <1>5 DEF Inv

(* A yield: r is not in poll, and stays committed.                         *)
LEMMA Yielded ==
  ASSUME Inv, NEW r \in Routines, Yield(r)
  PROVE  Inv'
<1>0. /\ occupyRoutine = r /\ r \notin polling
      /\ ActivetaskItems' = Append(ActivetaskItems, r)
      /\ occupyRoutine' = pendingRoutine /\ pendingRoutine' = occupyRoutine
      /\ UNCHANGED <<polling, pmVars, armed, registered, open, dealVars, interfered>>
  BY DEF Yield, InApplication, YieldSelf, AddTask, SwapContext
<1> USE DEF pmVars, dealVars
<1>1. pendingRoutine = Loop /\ dealAt = "top" /\ r # Loop
  BY <1>0 DEF Inv, Places
<1>2. ~In(ActivetaskItems, r)
  BY <1>0 DEF Inv, Queued
<1>3. /\ Append(ActivetaskItems, r) \in Seq(Routines)
      /\ \A q \in Routines : In(ActivetaskItems', q) <=> In(ActivetaskItems, q) \/ q = r
      /\ NoDuplicates(ActivetaskItems')
  BY <1>0, <1>2, AppendIn DEF Inv, PollTypeOK, SchedTypeOK, Queued
<1>4. \A q \in Routines : Suspended(q)' <=> Suspended(q)
  BY <1>0 DEF Suspended
<1>5. \A q \in Routines : Committed(q)' <=> Committed(q)
  BY <1>0, <1>1, <1>3 DEF Committed
<1>6. PollTypeOK'
  BY <1>0, <1>1, <1>3 DEF Inv, PollTypeOK, SchedTypeOK, Coroutines, Events
<1>7. Places'
  BY <1>0, <1>1 DEF Inv, Places
<1>8. Owners'
  BY <1>0 DEF Inv, Owners, Suspended
<1>9. Flags'
  BY <1>0 DEF Inv, Flags
<1>10. Counts'
  BY <1>0 DEF Inv, Counts, EventsOf
<1>11. Queued'
  BY <1>0, <1>1, <1>3, <1>4, <1>5 DEF Inv, Queued
<1>12. Led' /\ Apart' /\ Registered'
  BY <1>0, <1>4 DEF Inv, Led, Apart, Registered
<1> QED
  BY <1>6, <1>7, <1>8, <1>9, <1>10, <1>11, <1>12 DEF Inv

(* Opening a descriptor.                                                   *)
LEMMA Opened ==
  ASSUME Inv, NEW r \in Routines, NEW f \in Fds, Open(r, f)
  PROVE  Inv'
<1> USE DEF Open, pmVars, dealVars, schedVars
<1>1. \A q \in Routines : Suspended(q)' <=> Suspended(q)
  BY DEF Suspended
<1>2. PollTypeOK' /\ Places' /\ Flags'
  BY DEF Inv, PollTypeOK, SchedTypeOK, Events, Places, Flags
<1>3. Owners'
  BY DEF Inv, Owners, Suspended
<1>4. Counts'
  BY DEF Inv, Counts, EventsOf
<1>5. Queued' /\ Led' /\ Apart' /\ Registered'
  BY <1>1 DEF Inv, Queued, Committed, Led, Apart, Registered
<1> QED
  BY <1>2, <1>3, <1>4, <1>5 DEF Inv

(* Closing a descriptor interferes with the calls that wait for it.        *)
LEMMA Closed ==
  ASSUME Inv, NEW r \in Routines, NEW f \in Fds, Close(r, f)
  PROVE  Inv'
<1> USE DEF Close, pmVars, dealVars, schedVars
<1>1. \A q \in Routines : Suspended(q)' <=> Suspended(q)
  BY DEF Suspended
<1>2. \A g \in Fds : registered'[g] = IF g = f THEN NoRoutine ELSE registered[g]
  BY DEF EpollDel
<1>3. PollTypeOK'
  <2>1. registered' \in [Fds -> Routines \cup {NoRoutine}]
    BY DEF EpollDel, Inv, PollTypeOK
  <2>2. interfered' \subseteq Routines
    BY DEF CallsOn, Inv, PollTypeOK
  <2> QED
    BY <2>1, <2>2 DEF Inv, PollTypeOK, SchedTypeOK, Events
<1>4. Places' /\ Flags'
  BY DEF Inv, Places, Flags
<1>5. Owners'
  BY <1>2 DEF Inv, Owners, Suspended
<1>6. Counts'
  BY DEF Inv, Counts, EventsOf
<1>7. Queued' /\ Led' /\ Apart'
  BY <1>1 DEF Inv, Queued, Committed, Led, Apart
<1>8. Registered'
  <2> SUFFICES ASSUME NEW q \in armed, q \notin interfered, q \notin CallsOn({f}),
                      NEW g \in fds[q]
               PROVE  registered'[g] = q
    BY DEF Registered
  <2>1. g # f /\ g \in Fds
    BY DEF CallsOn, Inv, PollTypeOK
  <2> QED
    BY <1>2, <2>1 DEF Inv, Registered
<1> QED
  BY <1>3, <1>4, <1>5, <1>6, <1>7, <1>8 DEF Inv

(* Every step keeps the invariant.                                         *)
LEMMA PollStep == Inv /\ PollNext => Inv'
<1> SUFFICES ASSUME Inv, PollNext PROVE Inv'
  OBVIOUS
<1>1. ASSUME NEW F \in SUBSET Watched, DealBegins(F) PROVE Inv'
  BY <1>1, EventsReported
<1>2. ASSUME NEW e \in toPrepare, pollPerpare(e[1], e[2]) PROVE Inv'
  <2>1. e[1] \in Fds /\ e[2] \in Routines
    BY DEF Inv, PollTypeOK, Events
  <2> QED
    BY <1>2, <2>1, EventPrepared
<1>3. ASSUME NEW e \in toCallback, pollCallback(e[1], e[2]) PROVE Inv'
  <2>1. e[1] \in Fds /\ e[2] \in Routines
    BY DEF Inv, PollTypeOK, Events
  <2> QED
    BY <1>3, <2>1, CallbackCommits, CallbackCounts
<1>4. ASSUME NEW D \in SUBSET armed, MergeTimers(D) PROVE Inv'
  BY <1>4, TimersMerged
<1>5. ASSUME NEW r \in due, pollTimeout(r) PROVE Inv'
  BY <1>5, TimeoutCommits
<1>6. ASSUME NEW r \in Routines, NEW F \in SUBSET Fds, poll(r, F) PROVE Inv'
  BY <1>6, PollCalled
<1>7. ASSUME NEW r \in Routines, NEW f \in Fds, Open(r, f) \/ Close(r, f) PROVE Inv'
  BY <1>7, Opened, Closed
<1>8. ASSUME NEW r \in Routines, pollReturns(r) \/ Yield(r) PROVE Inv'
  BY <1>8, PollReturned, Yielded
<1>9. DealEnds \/ LoopDispatch \/ LoopIdles => Inv'
  BY DealEnded, LoopDispatched, LoopIdled
<1> QED
  BY <1>1, <1>2, <1>3, <1>4, <1>5, <1>6, <1>7, <1>8, <1>9 DEF PollNext, DealContinues

(* What is left when nothing changes.                                      *)
LEMMA PollStutters == Inv /\ UNCHANGED pollVars => Inv'
<1> SUFFICES ASSUME Inv, UNCHANGED pollVars PROVE Inv'
  OBVIOUS
<1> USE DEF pollVars, pmVars, dealVars, schedVars
<1>1. \A q \in Routines : Suspended(q)' <=> Suspended(q)
  BY DEF Suspended
<1>2. PollTypeOK' /\ Places' /\ Flags'
  BY DEF Inv, PollTypeOK, SchedTypeOK, Events, Places, Flags
<1>3. Owners'
  BY DEF Inv, Owners, Suspended
<1>4. Counts'
  BY DEF Inv, Counts, EventsOf
<1>5. Queued' /\ Led' /\ Apart' /\ Registered'
  BY <1>1 DEF Inv, Queued, Committed, Led, Apart, Registered
<1> QED
  BY <1>2, <1>3, <1>4, <1>5 DEF Inv

(* The invariant gives what the runs check.                                *)
LEMMA InvGives ==
  Inv => FramesAlive /\ WokenOnce /\ PollerNotLost /\ PollCounts
<1> SUFFICES ASSUME Inv PROVE FramesAlive /\ WokenOnce /\ PollerNotLost /\ PollCounts
  OBVIOUS
<1>1. FramesAlive
  <2> SUFFICES ASSUME NEW r \in Routines, LedToByEvent(r) \/ LedToByTimer(r)
               PROVE  r \in polling /\ ~Committed(r)
    BY DEF FramesAlive
  <2>1. r # NoRoutine
    OBVIOUS
  <2>2. Suspended(r)
    <3>1. CASE LedToByEvent(r)
      BY <2>1, <3>1 DEF LedToByEvent, Inv, Owners
    <3>2. CASE LedToByTimer(r)
      BY <3>2 DEF LedToByTimer, Inv, Owners
    <3> QED
      BY <3>1, <3>2
  <2> QED
    BY <2>2 DEF Inv, Queued, Suspended
<1>2. WokenOnce
  BY DEF WokenOnce, Inv, Queued, Flags
<1>3. PollerNotLost
  <2> SUFFICES ASSUME NEW r \in polling
               PROVE  \/ LedToByTimer(r) \/ Committed(r)
                      \/ \E f \in Fds : <<f, r>> \in toCallback
    BY DEF PollerNotLost
  <2>1. r \in Routines
    BY DEF Inv, PollTypeOK
  <2> QED
    BY <2>1 DEF Inv, Queued, Led, LedToByTimer
<1>4. PollCounts
  <2> SUFFICES ASSUME NEW r \in polling, occupyRoutine = r
               PROVE  /\ revents[r] \subseteq fds[r]
                      /\ activeFdsNums[r] = Cardinality(revents[r])
                      /\ activeFdsNums[r] = 0 <=> r \in IsTasktimeout
    BY DEF PollCounts
  <2>1. r \in Routines
    BY DEF Inv, PollTypeOK
  <2>2. r \in IsJoinActiveList \/ r \in IsTasktimeout
    BY <2>1 DEF Inv, Queued, Committed, Suspended
  <2>3. revents[r] = {} <=> r \in IsTasktimeout
    BY <2>1, <2>2 DEF Inv, Flags
  <2>4. Cardinality(revents[r]) = 0 <=> revents[r] = {}
    <3>1. IsFiniteSet(revents[r])
      BY <2>1, FS_Subset DEF Inv, PollTypeOK
    <3> QED
      BY <3>1, FS_EmptySet
  <2> QED
    BY <2>1, <2>3, <2>4 DEF Inv, Flags, Counts
<1> QED
  BY <1>1, <1>2, <1>3, <1>4
-----------------------------------------------------------------------------
(* PollSpec keeps the invariant.                                           *)
LEMMA PollInvariant == PollSpec => []Inv
<1>1. PollInit => Inv
  BY PollInitInv
<1>2. Inv /\ [PollNext]_pollVars => Inv'
  BY PollStep, PollStutters
<1> QED
  BY <1>1, <1>2, PTL DEF PollSpec
=============================================================================
