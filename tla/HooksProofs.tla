----------------------------- MODULE HooksProofs -----------------------------
(***************************************************************************)
(* Proofs about Hooks, for any coroutines, descriptors and lengths.  The   *)
(* hooked calls use poll as Poll says it is used, so what PollProofs shows *)
(* holds of them too, the worker is held up only in the known cases, and   *)
(* read, write and connect tell their callers the truth.                   *)
(***************************************************************************)
EXTENDS Hooks, PollProofs

(* Who is in poll during a call came from the place in it that waits, and  *)
(* only a call has places.                                                 *)
Placed ==
  \A r \in Routines :
    /\ r \in polling /\ call[r] # NoCall => at[r] = "wait"
    /\ at[r] # "user" => call[r].of # "none"

(* connect has a poll left where it waits. *)
PollsLeft == \A r \in Routines : at[r] = "wait" /\ call[r].of = "connect" => left[r] # 0

(* A socket with a fileDesc is open, and non-blocking or from accept. *)
Marked ==
  \A s \in Sockets :
    hooksFdSet[s] # "none" => s \in open /\ s \in nonblock \cup accepted

HookInv == HookTypeOK /\ Placed /\ PollsLeft /\ Marked
-----------------------------------------------------------------------------
USE HooksAssumption

(* The descriptor of a call is a socket. *)
LEMMA CallsFd ==
  ASSUME HookTypeOK, NEW r \in Routines, call[r].of # "none"
  PROVE  call[r].fd \in Sockets
  BY DEF HookTypeOK, Calls, NoCall

(* Every step of the calls is a step of Poll, or changes nothing there.    *)
LEMMA HookStepIsPollStep == HookInv /\ Next => [PollNext]_pollVars
<1> SUFFICES ASSUME HookInv, Next PROVE PollNext \/ UNCHANGED pollVars
  OBVIOUS
<1>1. Worker => PollNext
  BY DEF Worker, PollNext
<1>2. ASSUME NEW s \in Sockets, Peer(s) PROVE UNCHANGED pollVars
  BY <1>2 DEF Peer
<1>3. ASSUME NEW r \in Routines, InCall(r) PROVE PollNext \/ UNCHANGED pollVars
  <2>1. CASE Waits(r)
    <3>1. {call[r].fd} \in SUBSET Fds /\ poll(r, {call[r].fd})
      BY <2>1, CallsFd DEF Waits, In_, HookInv, Reads, Writes
    <3> QED
      BY <3>1 DEF PollNext
  <2>2. CASE Woken(r)
    BY <2>2 DEF Woken, PollNext
  <2>3. CASE Glances(r) \/ Read(r) \/ ConnectEnds(r)
    BY <2>3 DEF Glances, Read, ConnectEnds
  <2>4. ASSUME NEW where, Write(r, where) \/ Sendto(r, where) PROVE UNCHANGED pollVars
    BY <2>4 DEF Write, Sendto
  <2> QED
    BY <1>3, <2>1, <2>2, <2>3, <2>4 DEF InCall
<1>4. ASSUME NEW r \in Routines, Application(r) PROVE PollNext \/ UNCHANGED pollVars
  <2>1. CASE Yield(r) \/ pollReturns(r) \/ \E F \in SUBSET Fds : poll(r, F)
    BY <2>1 DEF PollNext
  <2>2. ASSUME NEW s \in Sockets, Open(r, s) \/ Close(r, s) PROVE PollNext
    BY <2>2 DEF PollNext
  <2>3. ASSUME NEW s \in Sockets, NEW nb, socket(r, s, nb) \/ F_SETFL(r, s, nb)
        PROVE  PollNext \/ UNCHANGED pollVars
    BY <2>2, <2>3 DEF socket, Fresh, F_SETFL
  <2>4. ASSUME NEW s \in Sockets, accept(r, s) \/ close(r, s) PROVE PollNext
    BY <2>2, <2>4 DEF accept, Fresh, close
  <2>8. ASSUME NEW s \in Sockets, NEW nb, NEW l, OpenElsewhere(r, s, nb, l) PROVE PollNext
    BY <2>2, <2>8 DEF OpenElsewhere, Fresh
  <2>9. ASSUME NEW s \in Sockets, ConnectAtOnce(r, s) PROVE UNCHANGED pollVars
    BY <2>9 DEF ConnectAtOnce
  <2>5. ASSUME NEW s \in Sockets, NEW way, NEW short, setsockopt(r, s, way, short)
        PROVE  UNCHANGED pollVars
    BY <2>5 DEF setsockopt
  <2>6. ASSUME NEW s \in Sockets, NEW kind,
               BeginRead(r, kind, s) \/ BeginWrite(r, kind, s) \/ BeginConnect(r, s)
        PROVE  UNCHANGED pollVars
    BY <2>6 DEF BeginRead, BeginWrite, BeginConnect, Begins
  <2>7. \/ Yield(r) \/ pollReturns(r) \/ \E F \in SUBSET Fds : poll(r, F)
        \/ acceptFails(r)
        \/ \E s \in Sockets :
             \/ \E nb \in BOOLEAN : socket(r, s, nb) \/ F_SETFL(r, s, nb)
             \/ \E way \in {"R", "W"}, short \in BOOLEAN : setsockopt(r, s, way, short)
             \/ \E nb \in BOOLEAN, l \in {"idle", "up"} : OpenElsewhere(r, s, nb, l)
             \/ accept(r, s) \/ close(r, s)
             \/ \E kind \in Reads : BeginRead(r, kind, s)
             \/ \E kind \in Writes : BeginWrite(r, kind, s)
             \/ ConnectAtOnce(r, s)
             \/ BeginConnect(r, s)
    BY <1>4 DEF Application
  <2>10. acceptFails(r) => UNCHANGED pollVars
    BY DEF acceptFails
  <2> QED
    BY <2>1, <2>3, <2>4, <2>5, <2>6, <2>7, <2>8, <2>9, <2>10
<1> QED
  BY <1>1, <1>2, <1>3, <1>4 DEF Next

(* At the start no socket is open and no call is made. *)
LEMMA HookInitInv == Init => Inv /\ HookInv
<1> SUFFICES ASSUME Init PROVE HookInv
  BY PollInitInv DEF Init
<1>1. HookTypeOK
  BY DEF Init, HookTypeOK, Calls, Links, Ats
<1>2. Placed /\ PollsLeft /\ Marked
  BY DEF Init, PollInit, Placed, PollsLeft, Marked, NoCall
<1> QED
  BY <1>1, <1>2 DEF HookInv

(* A call begins where it first leaves the library; its caller is not in   *)
(* poll.                                                                   *)
LEMMA CallBegins ==
  ASSUME HookInv, NEW r \in Routines, NEW s \in Sockets,
         \/ \E kind \in Reads : BeginRead(r, kind, s)
         \/ \E kind \in Writes : BeginWrite(r, kind, s)
         \/ BeginConnect(r, s)
  PROVE  HookInv'
<1> DEFINE Kinds == Reads \cup Writes \cup {"connect"}
<1>1. PICK kind \in Kinds, where \in {"wait", "first", "straight"}, k \in Nat :
        /\ Begins(r, kind, s, where, k)
        /\ kind = "connect" => k # 0
        /\ Uses(r, s)
        /\ UNCHANGED <<nonblock, readable>>
        /\ link' = link \/ link' = [link EXCEPT ![s] = "connecting"]
        /\ writable' \subseteq writable
  BY DEF BeginRead, BeginWrite, BeginConnect, Dials, Via, kernelVars, Attempts, Reads, Writes
<1> USE DEF Begins, User, InApplication, tableVars
<1>2. HookTypeOK'
  <2>1. call' \in [Routines -> Calls]
    BY <1>1 DEF HookInv, HookTypeOK, Calls
  <2>2. at' \in [Routines -> Ats] /\ left' \in [Routines -> Nat]
    BY <1>1 DEF HookInv, HookTypeOK, Ats
  <2>3. raced' \subseteq Routines
    BY <1>1 DEF HookInv, HookTypeOK, Uses, Others
  <2>4. link' \in [Sockets -> Links]
    BY <1>1 DEF HookInv, HookTypeOK, Links
  <2> QED
    BY <1>1, <2>1, <2>2, <2>3, <2>4 DEF HookInv, HookTypeOK
<1>3. Placed' /\ PollsLeft' /\ Marked'
  BY <1>1 DEF HookInv, HookTypeOK, Placed, PollsLeft, Marked, pollVars, Reads, Writes
<1> QED
  BY <1>2, <1>3 DEF HookInv

(* The calls on the table: none of them is made inside another call.       *)
LEMMA TableChanges ==
  ASSUME HookInv, NEW r \in Routines, NEW s \in Sockets,
         \/ \E nb \in BOOLEAN : socket(r, s, nb) \/ F_SETFL(r, s, nb)
         \/ \E way \in {"R", "W"}, short \in BOOLEAN : setsockopt(r, s, way, short)
         \/ \E nb \in BOOLEAN, l \in {"idle", "up"} : OpenElsewhere(r, s, nb, l)
         \/ accept(r, s) \/ close(r, s) \/ ConnectAtOnce(r, s)
  PROVE  HookInv'
<1> USE DEF HookInv, User, Fresh, Open, Close, callVars, kernelVars, tableVars, Links
<1>1. ASSUME NEW nb \in BOOLEAN, socket(r, s, nb) PROVE HookInv'
  <2>1. HookTypeOK'
    BY <1>1 DEF HookTypeOK, socket, UserFlags, FlagForced
  <2>2. Placed' /\ PollsLeft' /\ Marked'
    BY <1>1 DEF socket, FlagForced, HookTypeOK, Placed, PollsLeft, Marked
  <2> QED
    BY <2>1, <2>2
<1>2. ASSUME NEW nb \in BOOLEAN, F_SETFL(r, s, nb) PROVE HookInv'
  <2>1. HookTypeOK'
    BY <1>2 DEF HookTypeOK, F_SETFL, UserFlags, FlagForced, FlagAsAsked
  <2>2. Placed' /\ PollsLeft' /\ Marked'
    BY <1>2 DEF F_SETFL, FlagForced, FlagAsAsked, HookTypeOK, Placed, PollsLeft, Marked, pollVars
  <2> QED
    BY <2>1, <2>2
<1>3. ASSUME NEW way \in {"R", "W"}, NEW short \in BOOLEAN, setsockopt(r, s, way, short)
      PROVE  HookInv'
  <2>1. HookTypeOK'
    BY <1>3 DEF HookTypeOK, setsockopt
  <2>2. Placed' /\ PollsLeft' /\ Marked'
    BY <1>3 DEF setsockopt, Placed, PollsLeft, Marked, pollVars
  <2> QED
    BY <2>1, <2>2
<1>4. ASSUME accept(r, s) PROVE HookInv'
  <2>1. HookTypeOK'
    BY <1>4 DEF HookTypeOK, accept
  <2>2. Placed' /\ PollsLeft' /\ Marked'
    BY <1>4 DEF accept, HookTypeOK, Placed, PollsLeft, Marked
  <2> QED
    BY <2>1, <2>2
<1>5. ASSUME close(r, s) PROVE HookInv'
  <2>1. HookTypeOK'
    BY <1>5 DEF HookTypeOK, close, Others
  <2>2. Placed' /\ PollsLeft' /\ Marked'
    BY <1>5 DEF close, HookTypeOK, Placed, PollsLeft, Marked
  <2> QED
    BY <2>1, <2>2
<1>6. ASSUME NEW nb \in BOOLEAN, NEW l \in {"idle", "up"}, OpenElsewhere(r, s, nb, l)
      PROVE  HookInv'
  <2>1. HookTypeOK'
    BY <1>6 DEF HookTypeOK, OpenElsewhere, FlagAsAsked
  <2>2. Placed' /\ PollsLeft' /\ Marked'
    BY <1>6 DEF OpenElsewhere, FlagAsAsked, Placed, PollsLeft, Marked
  <2> QED
    BY <2>1, <2>2
<1>7. ASSUME ConnectAtOnce(r, s) PROVE HookInv'
  <2>1. HookTypeOK'
    BY <1>7 DEF HookTypeOK, ConnectAtOnce, Dials, Reported, Others
  <2>2. Placed' /\ PollsLeft' /\ Marked'
    BY <1>7 DEF ConnectAtOnce, Placed, PollsLeft, Marked, pollVars
  <2> QED
    BY <2>1, <2>2
<1> QED
  BY <1>1, <1>2, <1>3, <1>4, <1>5, <1>6, <1>7

(* What Uses and Returns leave well typed, and where Returns leaves r.     *)
LEMMA UsesType ==
  ASSUME HookTypeOK, NEW r \in Routines, NEW s, Uses(r, s)
  PROVE  raced' \subseteq Routines
  BY DEF HookTypeOK, Uses, Others

LEMMA ReturnsType ==
  ASSUME HookInv, NEW r \in Routines,
         NEW result \in {"ok", "short", "again", "timeout", "error"},
         Returns(r, result), UNCHANGED <<pollVars, tableVars, nonblock>>
  PROVE  /\ call' \in [Routines -> Calls]
         /\ at' \in [Routines -> Ats]
         /\ left' \in [Routines -> Nat]
         /\ timedOut' \subseteq Routines
         /\ ret' \in {"none", "ok", "short", "again", "timeout", "error"}
         /\ Placed' /\ PollsLeft' /\ Marked'
<1> USE DEF HookInv, HookTypeOK, Returns, tableVars
<1>1. /\ call' \in [Routines -> Calls]
      /\ at' \in [Routines -> Ats]
      /\ left' \in [Routines -> Nat]
      /\ timedOut' \subseteq Routines
      /\ ret' \in {"none", "ok", "short", "again", "timeout", "error"}
  BY DEF Calls, Ats
<1>2. Placed' /\ PollsLeft' /\ Marked'
  BY DEF Placed, PollsLeft, Marked, pollVars
<1> QED
  BY <1>1, <1>2

(* Going on after poll has returned n.                                     *)
LEMMA GoesOnAfterPoll ==
  ASSUME HookInv, NEW r \in Routines, NEW n, AfterPoll(r, n),
         at[r] = "wait", call[r] # NoCall, r \notin polling',
         polling' \subseteq polling, open' = open
  PROVE  HookInv'
<1> USE DEF HookInv, AfterPoll, tableVars, kernelVars
<1>1. HookTypeOK'
  <2>1. left' \in [Routines -> Nat]
    BY DEF HookTypeOK, PollsLeft
  <2>2. at' \in [Routines -> Ats]
    BY DEF HookTypeOK, ReadAgain, Ats
  <2> QED
    BY <2>1, <2>2 DEF HookTypeOK
<1>2. Placed' /\ Marked'
  BY DEF Placed, HookTypeOK, Marked
<1>3. PollsLeft'
  BY DEF PollsLeft, HookTypeOK
<1> QED
  BY <1>1, <1>2, <1>3

(* The kernel calls of a coroutine that is in a call but not in poll.      *)
LEMMA KernelCalled ==
  ASSUME HookInv, NEW r \in Routines,
         \/ Read(r) \/ ConnectEnds(r)
         \/ \E where \in {"first", "try", "straight"} : Write(r, where) \/ Sendto(r, where)
  PROVE  HookInv'
<1> USE DEF HookInv
<1> DEFINE s == call[r].fd
<1>0. UNCHANGED link \/ link' = Reported(s) => link' \in [Sockets -> Links]
  BY DEF HookTypeOK, Reported, Links
<1>1. ASSUME NEW result \in {"ok", "short", "again", "timeout", "error"}, Returns(r, result),
             Uses(r, s), readable' \subseteq readable, writable' \subseteq writable,
             UNCHANGED link \/ link' = Reported(s),
             UNCHANGED <<pollVars, tableVars, nonblock>>
      PROVE  HookInv'
  BY <1>0, <1>1, UsesType, ReturnsType DEF HookTypeOK, tableVars
<1>2. ASSUME GoesTo(r, "wait"), call[r].of \notin {"none", "connect"}, left' \in [Routines -> Nat],
             \A q \in Routines : q # r => left'[q] = left[q],
             Uses(r, s), readable' \subseteq readable, writable' \subseteq writable,
             UNCHANGED link \/ link' = Reported(s),
             UNCHANGED <<pollVars, tableVars, nonblock>>
      PROVE  HookInv'
  <2>1. HookTypeOK'
    BY <1>0, <1>2, UsesType DEF HookTypeOK, GoesTo, tableVars, Ats
  <2>2. Placed' /\ PollsLeft' /\ Marked'
    BY <1>2 DEF HookTypeOK, GoesTo, tableVars, pollVars, Placed, PollsLeft, Marked
  <2> QED
    BY <2>1, <2>2
<1>3. CASE Read(r)
  <2>1. /\ UNCHANGED <<pollVars, tableVars, nonblock, writable>>
        /\ UNCHANGED link \/ link' = Reported(s)
        /\ Uses(r, s) /\ readable' \subseteq readable
        /\ Returns(r, "error") \/ Returns(r, "ok") \/ Returns(r, "again")
    BY <1>3 DEF Read
  <2> QED
    BY <1>1, <2>1
<1>4. CASE ConnectEnds(r)
  <2>1. /\ UNCHANGED <<pollVars, tableVars, nonblock, readable, writable>> /\ Uses(r, s)
        /\ UNCHANGED link \/ link' = Reported(s)
        /\ Returns(r, "timeout") \/ Returns(r, "error") \/ Returns(r, "ok")
    BY <1>4 DEF ConnectEnds
  <2> QED
    BY <1>1, <2>1
<1>5. ASSUME NEW where \in {"first", "try", "straight"}, Write(r, where) PROVE HookInv'
  <2>1. /\ UNCHANGED <<pollVars, tableVars, nonblock, readable>> /\ Uses(r, s)
        /\ UNCHANGED link \/ link' = Reported(s)
        /\ call[r].of = "write"
    BY <1>5 DEF Write, In_
  <2>2. \/ \E k \in 1 .. Length :
             /\ Takes(r, s, k)
             /\ \/ k = left[r] /\ Returns(r, "ok")
                \/ /\ k < left[r]
                   /\ left' = [left EXCEPT ![r] = @ - k]
                   /\ GoesTo(r, "wait")
                \/ Returns(r, "short")
        \/ GoesTo(r, "wait") /\ UNCHANGED <<left, writable>>
        \/ /\ Returns(r, WriteEnds(r, "error")) \/ Returns(r, WriteEnds(r, "again"))
           /\ UNCHANGED writable
    BY <1>5 DEF Write
  <2>3. ASSUME NEW k \in 1 .. Length, Takes(r, s, k), Returns(r, "ok") \/ Returns(r, "short")
        PROVE  HookInv'
    BY <1>1, <2>1, <2>3 DEF Takes
  <2>4. ASSUME NEW k \in 1 .. Length, Takes(r, s, k), k < left[r],
               left' = [left EXCEPT ![r] = @ - k], GoesTo(r, "wait")
        PROVE  HookInv'
    <3>1. left' \in [Routines -> Nat] /\ \A q \in Routines : q # r => left'[q] = left[q]
      BY <2>4 DEF HookTypeOK
    <3>2. writable' \subseteq writable
      BY <2>4 DEF Takes
    <3> QED
      BY <1>2, <2>1, <2>4, <3>1, <3>2 DEF NoCall
  <2>5. ASSUME GoesTo(r, "wait"), UNCHANGED <<left, writable>> PROVE HookInv'
    BY <1>2, <2>1, <2>5 DEF NoCall, HookTypeOK
  <2>6. ASSUME Returns(r, WriteEnds(r, "error")) \/ Returns(r, WriteEnds(r, "again")),
               UNCHANGED writable
        PROVE  HookInv'
    BY <1>1, <2>1, <2>6 DEF WriteEnds
  <2> QED
    BY <2>2, <2>3, <2>4, <2>5, <2>6
<1>6. ASSUME NEW where \in {"first", "try", "straight"}, Sendto(r, where) PROVE HookInv'
  <2>1. /\ UNCHANGED <<pollVars, tableVars, nonblock, readable>> /\ Uses(r, s)
        /\ UNCHANGED link \/ link' = Reported(s)
        /\ call[r].of = "sendto"
        /\ writable' \subseteq writable
        /\ \/ GoesTo(r, "wait") /\ UNCHANGED left
           \/ Returns(r, "ok") \/ Returns(r, "error") \/ Returns(r, "again")
    BY <1>6 DEF Sendto, In_, Takes
  <2>2. ASSUME GoesTo(r, "wait"), UNCHANGED left PROVE HookInv'
    BY <1>2, <2>1, <2>2 DEF NoCall, HookTypeOK
  <2> QED
    BY <1>1, <2>1, <2>2
<1> QED
  BY <1>3, <1>4, <1>5, <1>6

(* Every step keeps the invariant of the calls.                            *)
LEMMA HookStep == Inv /\ HookInv /\ Next => HookInv'
<1> SUFFICES ASSUME Inv, HookInv, Next PROVE HookInv'
  OBVIOUS
<1>1. ASSUME UNCHANGED <<tableVars, kernelVars, callVars, open>>, ret' = "none",
             \A q \in Routines : q \in polling' => q \in polling \/ call[q] = NoCall
      PROVE  HookInv'
  <2>1. HookTypeOK'
    BY <1>1 DEF HookInv, HookTypeOK, tableVars, kernelVars, callVars
  <2>2. Placed' /\ PollsLeft' /\ Marked'
    BY <1>1 DEF HookInv, Placed, PollsLeft, Marked, tableVars, kernelVars, callVars
  <2> QED
    BY <2>1, <2>2 DEF HookInv
<1>2. CASE Worker
  <2>1. UNCHANGED <<polling, open>>
    <3>1. ASSUME NEW F, DealBegins(F) PROVE UNCHANGED <<polling, open>>
      BY <3>1 DEF DealBegins
    <3>2. ASSUME DealContinues PROVE UNCHANGED <<polling, open>>
      BY <3>2 DEF DealContinues, pollPerpare, pollCallback, MergeTimers, pollTimeout, DealEnds
    <3>3. LoopDispatch \/ LoopIdles => UNCHANGED <<polling, open>>
      BY DEF LoopDispatch, LoopIdles
    <3> QED
      BY <1>2, <3>1, <3>2, <3>3 DEF Worker
  <2> QED
    BY <1>1, <1>2, <2>1 DEF Worker, Rest
<1>3. ASSUME NEW s \in Sockets, Peer(s) PROVE HookInv'
  <2>1. HookTypeOK'
    BY <1>3 DEF HookInv, HookTypeOK, Peer, Links, tableVars, callVars
  <2>2. Placed' /\ PollsLeft' /\ Marked'
    BY <1>3 DEF HookInv, Placed, PollsLeft, Marked, Peer, tableVars, callVars, pollVars
  <2> QED
    BY <2>1, <2>2 DEF HookInv
<1>4. ASSUME NEW r \in Routines, InCall(r) PROVE HookInv'
  <2>1. CASE Waits(r)
    <3>1. at[r] = "wait" /\ open' = open /\ polling' = polling \cup {r}
      BY <2>1 DEF Waits, In_, poll
    <3>2. HookTypeOK'
      BY <2>1 DEF Waits, HookInv, HookTypeOK, tableVars, kernelVars, callVars
    <3>3. Placed' /\ PollsLeft' /\ Marked'
      BY <2>1, <3>1 DEF Waits, HookInv, Placed, PollsLeft, Marked, tableVars, kernelVars, callVars
    <3> QED
      BY <3>2, <3>3 DEF HookInv
  <2>2. CASE Woken(r)
    BY <2>2, GoesOnAfterPoll DEF Woken, pollReturns, HookInv, Placed
  <2>3. CASE Glances(r)
    <3>1. /\ at[r] = "wait" /\ call[r] # NoCall /\ r \notin polling
          /\ UNCHANGED <<polling, open>> /\ AfterPoll(r, KernelSays(r))
      BY <2>3 DEF Glances, In_, InApplication, NoCall, Reads, Writes, pollVars
    <3> QED
      BY <3>1, GoesOnAfterPoll
  <2> QED
    BY <1>4, <2>1, <2>2, <2>3, KernelCalled DEF InCall
<1>5. ASSUME NEW r \in Routines, Application(r) PROVE HookInv'
  <2>1. ASSUME User(r), Yield(r) \/ \E F \in SUBSET Fds : poll(r, F), Rest PROVE HookInv'
    <3>1. polling' \subseteq polling \cup {r} /\ open' = open /\ call[r] = NoCall
      BY <2>1 DEF Yield, poll, User
    <3> QED
      BY <1>1, <2>1, <3>1 DEF Rest
  <2>2. ASSUME pollReturns(r), Rest PROVE HookInv'
    BY <1>1, <2>2 DEF pollReturns, Rest
  <2>3. ASSUME acceptFails(r) PROVE HookInv'
    BY <2>3 DEF acceptFails, HookInv, HookTypeOK, Placed, PollsLeft, Marked, pollVars, tableVars,
                kernelVars, callVars
  <2> QED
    BY <1>5, <2>1, <2>2, <2>3, CallBegins, TableChanges DEF Application
<1> QED
  BY <1>2, <1>3, <1>4, <1>5 DEF Next

LEMMA HookStutters == HookInv /\ UNCHANGED vars => HookInv'
  BY DEF HookInv, HookTypeOK, Placed, PollsLeft, Marked, vars, tableVars, kernelVars,
         callVars, pollVars

(* Together, the two invariants are one of the calls.                      *)
LEMMA HookInvariant == Spec => [](Inv /\ HookInv)
<1>1. Init => Inv /\ HookInv
  BY HookInitInv
<1>2. Inv /\ HookInv /\ [Next]_vars => Inv' /\ HookInv'
  BY HookStepIsPollStep, PollStep, PollStutters, HookStep, HookStutters DEF vars
<1> QED
  BY <1>1, <1>2, PTL DEF Spec
-----------------------------------------------------------------------------
(***************************************************************************)
(* Every behaviour of the hooked calls is one of PollSpec: read, write,    *)
(* connect and the others enter poll only outside of it, with one          *)
(* descriptor, and take its result when it returns.                        *)
(***************************************************************************)
THEOREM HooksImplementPoll == Spec => PollSpec
<1>1. Init => PollInit
  BY DEF Init
<1>2. HookInv /\ [Next]_vars => [PollNext]_pollVars
  BY HookStepIsPollStep DEF vars
<1> QED
  BY <1>1, <1>2, HookInvariant, PTL DEF Spec, PollSpec

(***************************************************************************)
(* The variables of the calls, of poll and of epoll keep their types: the  *)
(* counters of a poll_message stay natural numbers, and connect does not   *)
(* poll when no attempt is left.                                           *)
(***************************************************************************)
THEOREM HooksTypeCorrect == Spec => []TypeOK
<1>1. Inv /\ HookInv => TypeOK
  BY DEF Inv, HookInv, TypeOK
<1> QED
  BY <1>1, HookInvariant, PTL

(***************************************************************************)
(* No pointer in epoll's data, in the time wheel or in Deal's hands leads  *)
(* to the poll_message of a coroutine that runs or is about to.            *)
(***************************************************************************)
THEOREM PollMessageOutlivesPointers == Spec => []FramesAlive
<1>1. Inv /\ HookInv => FramesAlive
  BY InvGives
<1> QED
  BY <1>1, HookInvariant, PTL

(***************************************************************************)
(* A coroutine in poll is committed once, by its last event or its timer.  *)
(***************************************************************************)
THEOREM PollWokenOnce == Spec => []WokenOnce
<1>1. Inv /\ HookInv => WokenOnce
  BY InvGives
<1> QED
  BY <1>1, HookInvariant, PTL

(***************************************************************************)
(* A coroutine in poll always has a timer or an event that will wake it,   *)
(* or is ready.                                                            *)
(***************************************************************************)
THEOREM NoPollerLost == Spec => []PollerNotLost
<1>1. Inv /\ HookInv => PollerNotLost
  BY InvGives
<1> QED
  BY <1>1, HookInvariant, PTL

(***************************************************************************)
(* poll returns the number of descriptors with revents, and 0 exactly when *)
(* the timer woke it.                                                      *)
(***************************************************************************)
THEOREM PollResult == Spec => []PollCounts
<1>1. Inv /\ HookInv => PollCounts
  BY InvGives
<1> QED
  BY <1>1, HookInvariant, PTL

(***************************************************************************)
(* A suspended poll that no other coroutine interfered with is registered  *)
(* on all its descriptors.                                                 *)
(***************************************************************************)
THEOREM StaysRegistered == Spec => []Registered
<1>1. Inv /\ HookInv => Registered
  BY DEF Inv
<1> QED
  BY <1>1, HookInvariant, PTL

(***************************************************************************)
(* The worker stands in a kernel call that blocks only on a descriptor     *)
(* without fileDesc, or on one from accept whose flags nobody has set.     *)
(***************************************************************************)
THEOREM WorkerHeldOnlyAsKnown == Spec => []HeldOnlyAsKnown
<1>1. ASSUME HookInv, NEW r \in Routines, Blocks(r)
      PROVE  call[r].fd \in accepted \/ hooksFdSet[call[r].fd] = "none"
  <2>1. call[r].fd \notin nonblock /\ at[r] # "user"
    BY <1>1 DEF Blocks
  <2>2. call[r].fd \in Sockets
    BY <2>1, <1>1, CallsFd DEF HookInv, Placed
  <2> QED
    BY <1>1, <2>1, <2>2 DEF HookInv, Marked
<1>2. Inv /\ HookInv => HeldOnlyAsKnown
  BY <1>1 DEF HeldOnlyAsKnown
<1> QED
  BY <1>2, HookInvariant, PTL
-----------------------------------------------------------------------------
(* An event was reported to the poll that r is in, or its last one did not *)
(* time out and the kernel call that follows is yet to come.               *)
Expects(r) ==
  \/ r \in polling /\ (revents[r] # {} \/ \E f \in Fds : <<f, r>> \in toPrepare)
  \/ at[r] = "try" /\ r \notin timedOut

(* What a call of r may rely on: poll asks for its descriptor, read() does *)
(* not go on after a timeout, and as long as nobody else has used the      *)
(* socket, connect has dialled, and for a call that goes through the       *)
(* library it is open, and what the event said of it is still true.        *)
TruthOf(r) ==
  call[r] # NoCall =>
    /\ r \in polling => fds[r] = {call[r].fd}
    /\ at[r] = "try" /\ call[r].of = "read" => r \notin timedOut
    /\ r \notin raced /\ call[r].of = "connect" => link[call[r].fd] # "idle"
    /\ r \notin raced /\ at[r] # "straight" =>
         /\ call[r].fd \in open
         /\ Expects(r) => Ready(call[r].fd, AsksFor(call[r].of))

(* A descriptor that is not open has no connection, and only a connection  *)
(* that was made has room.                                                 *)
TableInv ==
  \A s \in Sockets :
    /\ s \notin open => link[s] = "idle"
    /\ s \in writable => link[s] \in {"up", "closed"}

TrueInv == TableInv /\ \A r \in Routines : TruthOf(r)

(* At the start no call is made, no socket is open, and none has room. *)
LEMMA TruthInit == Init => TrueInv
BY DEF Init, TrueInv, TableInv, TruthOf

(* More to read and more room make no difference for the worse: what the   *)
(* kernel would do at once, it still would.                                *)
LEMMA PeerHelps ==
  ASSUME HookTypeOK, TableInv, NEW s \in Sockets, Peer(s), NEW u \in Sockets,
         NEW way \in {"R", "W"}, Ready(u, way)
  PROVE  Ready(u, way)'
<1> USE DEF Ready, CanRead, CanWrite, Fails, Peer, HookTypeOK, pollVars
<1>1. CASE u # s
  BY <1>1
<1>2. CASE u = s /\ way = "R"
  BY <1>2
<1>3. CASE u = s /\ way = "W"
  BY <1>3 DEF TableInv
<1> QED BY <1>1, <1>2, <1>3

(* What a call relies on stays, where its own variables and its socket are *)
(* left alone and no event is reported to it.                              *)
LEMMA Undisturbed ==
  ASSUME HookTypeOK, NEW r \in Routines, TruthOf(r),
         UNCHANGED <<call[r], at[r], r \in timedOut>>,
         r \in raced => r \in raced',
         r \in polling' => /\ r \in polling /\ UNCHANGED <<fds[r]>>
                           /\ \/ UNCHANGED <<revents[r]>>
                              \/ \E f \in Fds : <<f, r>> \in toPrepare,
         \A f \in Fds : <<f, r>> \in toPrepare' => <<f, r>> \in toPrepare,
         call[r] # NoCall /\ r \notin raced' =>
           /\ link[call[r].fd] # "idle" => link'[call[r].fd] # "idle"
           /\ call[r].fd \in open => call[r].fd \in open'
           /\ Ready(call[r].fd, AsksFor(call[r].of)) => Ready(call[r].fd, AsksFor(call[r].of))'
  PROVE  TruthOf(r)'
<1>1. Expects(r)' => Expects(r)
  BY DEF Expects
<1> QED BY <1>1 DEF TruthOf, AsksFor

(* A call that is the kernel's alone, but for connect, relies on nothing.  *)
KernelOnly(r) == at[r] = "straight" /\ call[r].of # "connect"

(* In particular a step of another coroutine on the socket s: whoever is   *)
(* in a call on s has company from then on.                                *)
LEMMA Elsewhere ==
  ASSUME HookTypeOK, NEW r \in Routines, NEW s \in Sockets, TruthOf(r),
         UNCHANGED <<call[r], at[r], r \in timedOut>>,
         r \in raced => r \in raced',
         UNCHANGED <<polling, fds, revents, toPrepare>>,
         \A u \in Sockets \ {s} :
           UNCHANGED <<u \in open, link[u], u \in readable, u \in writable>>,
         call[r] # NoCall /\ call[r].fd = s => r \in raced' \/ KernelOnly(r)
  PROVE  TruthOf(r)'
<1>0. CASE KernelOnly(r)
  BY <1>0 DEF TruthOf, KernelOnly
<1>1. CASE /\ call[r] # NoCall /\ r \notin raced'
           /\ ~KernelOnly(r)
  <2>1. call[r].fd \in Sockets \ {s}
    BY <1>1 DEF HookTypeOK, Calls
  <2>2. /\ link[call[r].fd] # "idle" => link'[call[r].fd] # "idle"
        /\ call[r].fd \in open => call[r].fd \in open'
        /\ Ready(call[r].fd, AsksFor(call[r].of)) => Ready(call[r].fd, AsksFor(call[r].of))'
    BY <2>1 DEF Ready, CanRead, CanWrite, Fails, AsksFor
  <2> QED BY <2>2, Undisturbed
<1>2. CASE ~(call[r] # NoCall /\ r \notin raced')
  BY <1>2, Undisturbed
<1> QED BY <1>0, <1>1, <1>2

(* The worker reports only what is true, and changes no call.              *)
LEMMA WorkerTruth ==
  ASSUME Inv, HookInv, TrueInv, Worker, NEW r \in Routines
  PROVE  TruthOf(r)'
<1> USE DEF Rest, tableVars, kernelVars, callVars
<1>0. /\ HookTypeOK /\ TruthOf(r)
      /\ UNCHANGED <<call[r], at[r], r \in timedOut, r \in raced>>
      /\ UNCHANGED <<link, readable, writable>>
  BY DEF HookInv, TrueInv, Worker
<1>1. ASSUME UNCHANGED <<open, polling, fds, revents>>,
             \A f \in Fds : <<f, r>> \in toPrepare' => <<f, r>> \in toPrepare
      PROVE  TruthOf(r)'
  <2>1. UNCHANGED Ready(call[r].fd, AsksFor(call[r].of))
    BY <1>0, <1>1 DEF Ready, CanRead, CanWrite, Fails, AsksFor
  <2> QED BY <1>0, <1>1, <2>1, Undisturbed
<1>2. ASSUME NEW F \in SUBSET {f \in Watched : ReadyFor(f)}, DealBegins(F)
      PROVE  TruthOf(r)'
  <2>1. /\ UNCHANGED <<open, polling, fds, revents>>
        /\ toPrepare' = {<<f, registered[f]>> : f \in F}
    BY <1>2 DEF DealBegins, pmVars
  <2>2. CASE \E f \in Fds : <<f, r>> \in toPrepare'
    <3>1. PICK f \in F : registered[f] = r
      BY <2>1, <2>2
    <3>2. f \in Fds /\ ReadyFor(f) /\ r \in polling /\ f \in fds[r]
      BY <3>1 DEF Watched, Inv, Owners, Suspended
    <3>3. call[r] # NoCall => f = call[r].fd /\ Ready(f, AsksFor(call[r].of))
      BY <1>0, <3>1, <3>2 DEF ReadyFor, TruthOf
    <3>4. UNCHANGED Ready(call[r].fd, AsksFor(call[r].of))
      BY <1>0, <2>1 DEF Ready, CanRead, CanWrite, Fails, AsksFor
    <3>5. TruthOf(r)' = (call[r] # NoCall =>
            /\ r \in polling => fds[r] = {call[r].fd}
            /\ at[r] = "try" /\ call[r].of = "read" => r \notin timedOut
            /\ r \notin raced /\ call[r].of = "connect" => link[call[r].fd] # "idle"
            /\ r \notin raced /\ at[r] # "straight" =>
                 /\ call[r].fd \in open
                 /\ Expects(r)' => Ready(call[r].fd, AsksFor(call[r].of))')
      BY <1>0, <2>1 DEF TruthOf, AsksFor
    <3> QED BY <1>0, <3>3, <3>4, <3>5 DEF TruthOf
  <2>3. CASE ~\E f \in Fds : <<f, r>> \in toPrepare'
    BY <1>1, <2>1, <2>3
  <2> QED BY <2>2, <2>3
<1>3. ASSUME NEW e \in toPrepare, pollPerpare(e[1], e[2])
      PROVE  TruthOf(r)'
  <2>1. /\ UNCHANGED <<open, polling, fds>> /\ toPrepare' \subseteq toPrepare
        /\ revents' = [revents EXCEPT ![e[2]] = @ \cup {e[1]}]
        /\ <<e[1], e[2]>> \in toPrepare /\ e[1] \in Fds
        /\ revents \in [Routines -> SUBSET Fds]
    BY <1>3 DEF pollPerpare, Inv, PollTypeOK, Events
  <2>2. r = e[2] \/ revents'[r] = revents[r]
    BY <2>1
  <2>3. UNCHANGED Ready(call[r].fd, AsksFor(call[r].of))
    BY <1>0, <2>1 DEF Ready, CanRead, CanWrite, Fails, AsksFor
  <2> QED BY <1>0, <2>1, <2>2, <2>3, Undisturbed
<1>4. ASSUME DealContinues, ~\E e \in toPrepare : pollPerpare(e[1], e[2])
      PROVE  TruthOf(r)'
  <2>1. UNCHANGED <<open, polling, fds, revents, toPrepare>>
    BY <1>4 DEF DealContinues, pollCallback, MergeTimers, pollTimeout, DealEnds, pmVars
  <2> QED BY <1>1, <2>1
<1>5. CASE LoopDispatch \/ LoopIdles
  BY <1>1, <1>5 DEF LoopDispatch, LoopIdles, pmVars
<1> QED BY <1>2, <1>3, <1>4, <1>5 DEF Worker

(* The peer. *)
LEMMA PeerTruth ==
  ASSUME HookInv, TrueInv, NEW s \in Sockets, Peer(s), NEW r \in Routines
  PROVE  TruthOf(r)'
<1>1. /\ HookTypeOK /\ TableInv /\ TruthOf(r)
      /\ UNCHANGED <<call, at, timedOut, raced, polling, fds, revents, toPrepare, open>>
  BY DEF HookInv, TrueInv, Peer, callVars, pollVars, pmVars, dealVars
<1>2. CASE call[r] # NoCall
  <2>1. call[r].fd \in Sockets /\ AsksFor(call[r].of) \in {"R", "W"}
    BY <1>1, <1>2 DEF HookTypeOK, Calls, AsksFor
  <2>2. Ready(call[r].fd, AsksFor(call[r].of)) => Ready(call[r].fd, AsksFor(call[r].of))'
    BY <1>1, <2>1, PeerHelps DEF AsksFor
  <2>3. link[call[r].fd] # "idle" => link'[call[r].fd] # "idle"
    BY <1>1, <2>1 DEF Peer, HookTypeOK
  <2> QED BY <1>1, <2>2, <2>3, Undisturbed
<1>3. CASE call[r] = NoCall
  BY <1>1, <1>3 DEF TruthOf
<1> QED BY <1>2, <1>3

(* The calls on the table: whoever was in a call on the socket that is     *)
(* closed has company from then on, and there is no call on one that is    *)
(* opened, but for those that had.                                         *)
LEMMA TableTruth ==
  ASSUME HookInv, TrueInv, NEW q \in Routines, NEW s \in Sockets,
         \/ \E nb \in BOOLEAN : socket(q, s, nb) \/ F_SETFL(q, s, nb)
         \/ \E way \in {"R", "W"}, short \in BOOLEAN : setsockopt(q, s, way, short)
         \/ \E nb \in BOOLEAN, l \in {"idle", "up"} : OpenElsewhere(q, s, nb, l)
         \/ accept(q, s) \/ close(q, s) \/ ConnectAtOnce(q, s),
         NEW r \in Routines
  PROVE  TruthOf(r)'
<1> USE DEF callVars, kernelVars, pollVars, pmVars, dealVars
<1>1. /\ HookTypeOK /\ TruthOf(r) /\ call[q] = NoCall
  BY DEF HookInv, TrueInv, socket, F_SETFL, setsockopt, OpenElsewhere, accept, close,
         ConnectAtOnce, User
<1>2. CASE \/ \E nb \in BOOLEAN : socket(q, s, nb)
           \/ \E nb \in BOOLEAN, l \in {"idle", "up"} : OpenElsewhere(q, s, nb, l)
           \/ accept(q, s)
  <2>1. /\ UNCHANGED <<call, at, timedOut, raced, polling, fds, revents, toPrepare>>
        /\ s \notin open /\ open' = open \cup {s}
        /\ \A u \in Sockets \ {s} : UNCHANGED <<link[u], u \in readable, u \in writable>>
    BY <1>1, <1>2 DEF socket, accept, OpenElsewhere, Fresh, Open, HookTypeOK
  <2>2. link[s] = "idle"
    BY <2>1 DEF TrueInv, TableInv
  <2>3. call[r] # NoCall /\ call[r].fd = s =>
          r \in raced' \/ KernelOnly(r)
    <3>1. ASSUME call[r] # NoCall, call[r].fd = s, r \notin raced PROVE KernelOnly(r)
      BY <1>1, <2>1, <2>2, <3>1 DEF TruthOf, KernelOnly
    <3> QED BY <2>1, <3>1
  <2> QED BY <1>1, <2>1, <2>3, Elsewhere
<1>3. CASE \/ \E nb \in BOOLEAN : F_SETFL(q, s, nb)
           \/ \E way \in {"R", "W"}, short \in BOOLEAN : setsockopt(q, s, way, short)
  <2>1. UNCHANGED <<call, at, timedOut, raced, polling, fds, revents, toPrepare, open,
                    link, readable, writable>>
    BY <1>3 DEF F_SETFL, setsockopt
  <2>2. UNCHANGED Ready(call[r].fd, AsksFor(call[r].of))
    BY <2>1 DEF Ready, CanRead, CanWrite, Fails, AsksFor
  <2> QED BY <1>1, <2>1, <2>2, Undisturbed
<1>4. CASE close(q, s)
  <2>1. /\ UNCHANGED <<call, at, timedOut, polling, fds, revents, toPrepare>>
        /\ open' = open \ {s} /\ raced' = raced \cup Others(q, s)
        /\ \A u \in Sockets \ {s} : UNCHANGED <<link[u], u \in readable, u \in writable>>
    BY <1>1, <1>4 DEF close, Close, HookTypeOK
  <2>2. call[r] # NoCall /\ call[r].fd = s => r \in raced'
    BY <1>1, <2>1 DEF Others
  <2> QED BY <1>1, <2>1, <2>2, Elsewhere
<1>5. CASE ConnectAtOnce(q, s)
  <2>1. /\ UNCHANGED <<call, at, timedOut, polling, fds, revents, toPrepare, open>>
        /\ raced' = raced \cup Others(q, s)
        /\ \A u \in Sockets \ {s} : UNCHANGED <<link[u], u \in readable, u \in writable>>
    BY <1>1, <1>5 DEF ConnectAtOnce, Dials, Reported, HookTypeOK
  <2>2. call[r] # NoCall /\ call[r].fd = s => r \in raced'
    BY <1>1, <2>1 DEF Others
  <2> QED BY <1>1, <2>1, <2>2, Elsewhere
<1> QED BY <1>2, <1>3, <1>4, <1>5

(* A step of the call of q on s, for the calls of others.                  *)
LEMMA OthersTruth ==
  ASSUME HookInv, TrueInv, NEW q \in Routines, NEW s \in Sockets, Uses(q, s),
         UNCHANGED <<pollVars>>,
         NEW r \in Routines \ {q},
         UNCHANGED <<call[r], at[r], r \in timedOut>>,
         \A u \in Sockets \ {s} : UNCHANGED <<link[u], u \in readable, u \in writable>>
  PROVE  TruthOf(r)'
<1>1. /\ HookTypeOK /\ TruthOf(r)
      /\ UNCHANGED <<polling, fds, revents, toPrepare, open>>
  BY DEF HookInv, TrueInv, pollVars, pmVars, dealVars
<1>2. /\ r \in raced => r \in raced'
      /\ call[r] # NoCall /\ call[r].fd = s => r \in raced'
  BY DEF Uses, Others
<1> QED BY <1>1, <1>2, Elsewhere

(* A call begins with nothing reported yet, on an open socket where it     *)
(* goes through the library, and connect after it has dialled.             *)
LEMMA BeginsTruth ==
  ASSUME HookInv, TrueInv, NEW q \in Routines, NEW s \in Sockets,
         \/ \E kind \in Reads : BeginRead(q, kind, s)
         \/ \E kind \in Writes : BeginWrite(q, kind, s)
         \/ BeginConnect(q, s),
         NEW r \in Routines
  PROVE  TruthOf(r)'
<1>1. PICK kind \in Reads \cup Writes \cup {"connect"},
           where \in {"wait", "first", "straight"}, n \in Nat :
        /\ Begins(q, kind, s, where, n) /\ Uses(q, s)
        /\ \A u \in Sockets \ {s} : UNCHANGED <<link[u], u \in readable, u \in writable>>
        /\ where = "straight" \/ Hooked(s)
        /\ kind = "connect" => link'[s] = "connecting"
  <2>1. CASE \E kind \in Reads : BeginRead(q, kind, s)
    BY <2>1 DEF BeginRead, Via, kernelVars, Reads
  <2>2. CASE \E kind \in Writes : BeginWrite(q, kind, s)
    BY <2>2, HooksAssumption DEF BeginWrite, Via, kernelVars, Writes
  <2>3. CASE BeginConnect(q, s)
    <3>1. /\ \A u \in Sockets \ {s} : UNCHANGED <<link[u], u \in readable, u \in writable>>
          /\ link'[s] = "connecting" /\ Uses(q, s)
      BY <2>3 DEF BeginConnect, Dials, HookInv, HookTypeOK
    <3> QED BY <2>3, <3>1 DEF BeginConnect, Attempts
  <2> QED BY <2>1, <2>2, <2>3
<1>2. CASE r # q
  <2>1. UNCHANGED <<pollVars, call[r], at[r], timedOut>>
    BY <1>1, <1>2 DEF Begins, HookInv, HookTypeOK
  <2> QED BY <1>1, <1>2, <2>1, OthersTruth
<1>3. CASE r = q
  <2>1. /\ r \notin polling' /\ at'[r] = where /\ UNCHANGED open
        /\ call'[r].fd = s /\ call'[r].of = kind
    BY <1>1, <1>3 DEF Begins, User, InApplication, pollVars, HookInv, HookTypeOK
  <2>2. Hooked(s) => s \in open
    BY DEF Hooked, HookInv, Marked
  <2> QED BY <1>1, <2>1, <2>2 DEF TruthOf, Expects
<1> QED BY <1>2, <1>3

(* poll is entered with nothing reported yet.                              *)
LEMMA WaitsTruth ==
  ASSUME Inv, HookInv, TrueInv, NEW q \in Routines, Waits(q), NEW r \in Routines
  PROVE  TruthOf(r)'
<1>1. /\ HookTypeOK /\ TruthOf(r) /\ at[q] = "wait" /\ InApplication(q)
      /\ poll(q, {call[q].fd})
      /\ UNCHANGED <<link, readable, writable, call, at, timedOut, raced>>
  BY DEF HookInv, TrueInv, Waits, In_, poll, kernelVars, callVars
<1>2. /\ polling' = polling \cup {q} /\ fds' = [fds EXCEPT ![q] = {call[q].fd}]
      /\ UNCHANGED <<open, revents, toPrepare>>
      /\ fds \in [Routines -> SUBSET Fds]
  BY <1>1 DEF poll, dealVars, Inv, PollTypeOK
<1>3. UNCHANGED Ready(call[r].fd, AsksFor(call[r].of))
  BY <1>1, <1>2 DEF Ready, CanRead, CanWrite, Fails, AsksFor
<1>4. CASE r # q
  BY <1>1, <1>2, <1>3, <1>4, Undisturbed
<1>5. CASE r = q
  <2>1. toPrepare = {} /\ q \notin polling /\ q # Loop
    BY <1>1, LoopAssumption DEF Inv, Places, InApplication
  <2>2. revents[q] = {}
    BY <2>1 DEF Inv, Flags
  <2>3. ~Expects(r)'
    BY <1>1, <1>2, <1>5, <2>1, <2>2 DEF Expects
  <2> QED BY <1>1, <1>2, <1>5, <2>3 DEF TruthOf
<1> QED BY <1>4, <1>5

(* Back from poll, with n events: unless there was none, which is a        *)
(* timeout, the socket is what the call waited for.                        *)
LEMMA AfterPollTruth ==
  ASSUME HookInv, TrueInv, NEW q \in Routines, NEW n, AfterPoll(q, n),
         at[q] = "wait", call[q] # NoCall,
         n # 0 /\ q \notin raced => Ready(call[q].fd, AsksFor(call[q].of)),
         q \notin polling', UNCHANGED <<open, toPrepare>>,
         \A p \in Routines \ {q} : UNCHANGED <<p \in polling, fds[p], revents[p]>>,
         NEW r \in Routines
  PROVE  TruthOf(r)'
<1>1. /\ HookTypeOK /\ TruthOf(r)
      /\ UNCHANGED <<link, readable, writable, call, raced>>
  BY DEF HookInv, TrueInv, AfterPoll, kernelVars
<1>2. UNCHANGED Ready(call[r].fd, AsksFor(call[r].of))
  BY <1>1 DEF Ready, CanRead, CanWrite, Fails, AsksFor
<1>3. CASE r # q
  <2>1. UNCHANGED <<at[r], r \in timedOut>>
    BY <1>1, <1>3 DEF AfterPoll, HookTypeOK
  <2> QED BY <1>1, <1>2, <1>3, <2>1, Undisturbed
<1>4. CASE r = q
  <2>1. r \in timedOut' <=> n = 0
    BY <1>4 DEF AfterPoll
  <2>2. call[r].of = "read" => at'[r] = IF n = 0 THEN "wait" ELSE "try"
    BY <1>1, <1>4 DEF AfterPoll, ReadAgain, Writes, HookTypeOK
  <2>3. Expects(r)' => n # 0
    BY <1>4, <2>1 DEF Expects
  <2>4. /\ call'[r] = call[r] /\ r \notin polling'
        /\ at'[r] = "try" /\ call[r].of = "read" => r \notin timedOut'
    BY <1>1, <1>4, <2>1, <2>2
  <2>5. r \notin raced' =>
          /\ call[r].of = "connect" => link'[call[r].fd] # "idle"
          /\ call[r].fd \in open'
          /\ Expects(r)' => Ready(call[r].fd, AsksFor(call[r].of))'
    BY <1>1, <1>2, <1>4, <2>3 DEF TruthOf
  <2> QED BY <2>4, <2>5 DEF TruthOf, AsksFor
<1> QED BY <1>3, <1>4

(* The kernel call of q ends the call, or leads to poll; it concerns the   *)
(* others only on the same socket.                                         *)
LEMMA KernelTruth ==
  ASSUME HookInv, TrueInv, NEW q \in Routines,
         \/ Read(q) \/ ConnectEnds(q)
         \/ \E where \in {"first", "try", "straight"} : Write(q, where) \/ Sendto(q, where),
         NEW r \in Routines
  PROVE  TruthOf(r)'
<1> DEFINE s == call[q].fd
<1> DEFINE Outcome ==
       /\ call[q] # NoCall /\ q \notin polling
       /\ Uses(q, s) /\ UNCHANGED <<pollVars>>
       /\ \A u \in Sockets \ {s} : UNCHANGED <<link[u], u \in readable, u \in writable>>
       /\ \/ \E result : Returns(q, result)
          \/ GoesTo(q, "wait") /\ at[q] # "straight" /\ call[q].of # "connect"
<1>1. Outcome
  <2>1. CASE Read(q)
    BY <2>1 DEF Read, Reported, In_, InApplication, Reads, NoCall, HookInv, HookTypeOK
  <2>2. CASE ConnectEnds(q)
    BY <2>2 DEF ConnectEnds, Reported, In_, InApplication, NoCall, HookInv, HookTypeOK
  <2>3. ASSUME NEW where \in {"first", "try", "straight"}, Write(q, where) PROVE Outcome
    BY <2>3 DEF Write, Reported, In_, InApplication, NoCall, Takes, HookInv, HookTypeOK
  <2>4. ASSUME NEW where \in {"first", "try", "straight"}, Sendto(q, where) PROVE Outcome
    BY <2>4 DEF Sendto, Reported, In_, InApplication, NoCall, Takes, HookInv, HookTypeOK
  <2> QED BY <2>1, <2>2, <2>3, <2>4
<1>2. s \in Sockets
  BY <1>1, CallsFd DEF HookInv, HookTypeOK, Calls
<1>3. CASE r # q
  <2>1. UNCHANGED <<call[r], at[r], r \in timedOut>>
    BY <1>1, <1>3 DEF Returns, GoesTo, HookInv, HookTypeOK
  <2> QED BY <1>1, <1>2, <1>3, <2>1, OthersTruth
<1>4. CASE r = q /\ \E result : Returns(q, result)
  BY <1>4 DEF TruthOf, Returns, HookInv, HookTypeOK
<1>5. CASE r = q /\ GoesTo(q, "wait") /\ at[q] # "straight" /\ call[q].of # "connect"
  <2>1. /\ call'[r] = call[r] /\ at'[r] = "wait" /\ r \notin polling' /\ open' = open
    BY <1>1, <1>5 DEF GoesTo, HookInv, HookTypeOK, pollVars
  <2>2. r \notin raced' => r \notin raced
    BY <1>1, <1>5, <2>1 DEF Uses
  <2>3. ~Expects(r)'
    BY <2>1 DEF Expects
  <2> QED BY <1>5, <2>1, <2>2, <2>3 DEF TruthOf, TrueInv
<1> QED BY <1>1, <1>3, <1>4, <1>5

(* The table and the connections, in every step. *)
LEMMA TableStep == ASSUME HookInv, TableInv, Next PROVE TableInv'
<1> USE DEF HookInv, HookTypeOK, TableInv
<1>0. ASSUME UNCHANGED <<open, link>>, writable' \subseteq writable PROVE TableInv'
  BY <1>0
<1>5. ASSUME NEW s, UNCHANGED link \/ link' = Reported(s), UNCHANGED open,
             writable' \subseteq writable
      PROVE  TableInv'
  BY <1>5 DEF Reported
<1>1. CASE Worker
  <2>1. UNCHANGED open
    BY <1>1 DEF Worker, DealBegins, DealContinues, pollPerpare, pollCallback, MergeTimers,
                pollTimeout, DealEnds, LoopDispatch, LoopIdles
  <2> QED BY <1>0, <1>1, <2>1 DEF Worker, Rest, tableVars, kernelVars
<1>2. ASSUME NEW s \in Sockets, Peer(s) PROVE TableInv'
  BY <1>2 DEF Peer, tableVars, pollVars
<1>3. ASSUME NEW r \in Routines, InCall(r) PROVE TableInv'
  <2>1. CASE Waits(r) \/ Woken(r) \/ Glances(r)
    <3>1. UNCHANGED <<open, tableVars, kernelVars>>
      BY <2>1 DEF Waits, poll, Woken, pollReturns, Glances, AfterPoll, pollVars
    <3> QED BY <1>0, <3>1 DEF tableVars, kernelVars
  <2>2. CASE Read(r) \/ ConnectEnds(r)
    BY <1>5, <2>2 DEF Read, ConnectEnds, pollVars
  <2>3. ASSUME NEW where, Write(r, where) \/ Sendto(r, where) PROVE TableInv'
    <3>1. /\ UNCHANGED link \/ link' = Reported(call[r].fd)
          /\ UNCHANGED open /\ writable' \subseteq writable
      BY <2>3 DEF Write, Sendto, Takes, pollVars
    <3> QED BY <1>5, <3>1
  <2> QED BY <1>3, <2>1, <2>2, <2>3 DEF InCall
<1>4. ASSUME NEW r \in Routines, Application(r) PROVE TableInv'
  <2>1. CASE Rest /\ (Yield(r) \/ pollReturns(r) \/ \E F \in SUBSET Fds : poll(r, F))
    BY <1>0, <2>1 DEF Yield, pollReturns, poll, Rest, tableVars, kernelVars
  <2>2. ASSUME NEW s \in Sockets, NEW nb, socket(r, s, nb) \/ F_SETFL(r, s, nb) PROVE TableInv'
    BY <2>2 DEF socket, F_SETFL, Fresh, Open, pollVars
  <2>3. ASSUME NEW s \in Sockets, NEW way, NEW short, setsockopt(r, s, way, short) PROVE TableInv'
    BY <1>0, <2>3 DEF setsockopt, pollVars, kernelVars
  <2>4. ASSUME NEW s \in Sockets, accept(r, s) \/ close(r, s) PROVE TableInv'
    BY <2>4 DEF accept, close, Fresh, Open, Close
  <2>7. ASSUME NEW s \in Sockets, NEW nb, NEW l \in {"idle", "up"}, OpenElsewhere(r, s, nb, l)
        PROVE  TableInv'
    BY <2>7 DEF OpenElsewhere, Fresh, Open
  <2>8. CASE acceptFails(r)
    BY <1>0, <2>8 DEF acceptFails, pollVars, kernelVars
  <2>9. ASSUME NEW s \in Sockets, ConnectAtOnce(r, s) PROVE TableInv'
    BY <2>9 DEF ConnectAtOnce, Dials, Reported, pollVars
  <2>5. ASSUME NEW s \in Sockets, NEW kind, BeginRead(r, kind, s) \/ BeginWrite(r, kind, s)
        PROVE  TableInv'
    BY <1>0, <2>5 DEF BeginRead, BeginWrite, Begins, pollVars, tableVars, kernelVars
  <2>6. ASSUME NEW s \in Sockets, BeginConnect(r, s) PROVE TableInv'
    BY <2>6 DEF BeginConnect, Begins, Dials, pollVars
  <2> QED
    BY <1>4, <2>1, <2>2, <2>3, <2>4, <2>5, <2>6, <2>7, <2>8, <2>9 DEF Application
<1> QED BY <1>1, <1>2, <1>3, <1>4 DEF Next

(* Every step keeps the truth. *)
LEMMA TruthStep == Inv /\ HookInv /\ TrueInv /\ Next => TrueInv'
<1> SUFFICES ASSUME Inv, HookInv, TrueInv, Next, NEW r \in Routines PROVE TruthOf(r)'
  BY TableStep DEF TrueInv
<1>0. ASSUME UNCHANGED <<call, at, timedOut, raced, fds[r], revents[r], toPrepare, open>>,
             UNCHANGED <<link, readable, writable>>,
             r \in polling' => r \in polling
      PROVE  TruthOf(r)'
  <2>1. UNCHANGED Ready(call[r].fd, AsksFor(call[r].of))
    BY <1>0 DEF Ready, CanRead, CanWrite, Fails, AsksFor
  <2> QED BY <1>0, <2>1, Undisturbed DEF HookInv, TrueInv
<1>1. ASSUME NEW q \in Routines, InCall(q) PROVE TruthOf(r)'
  <2>1. CASE Woken(q)
    <3>1. /\ at[q] = "wait" /\ call[q] # NoCall /\ AfterPoll(q, activeFdsNums[q])
          /\ q \in polling /\ q \notin polling' /\ UNCHANGED <<open, toPrepare>>
          /\ \A p \in Routines \ {q} : UNCHANGED <<p \in polling, fds[p], revents[p]>>
      BY <2>1 DEF Woken, pollReturns, HookInv, Placed, Inv, PollTypeOK, dealVars
    <3>2. activeFdsNums[q] # 0 => revents[q] # {}
      BY FS_EmptySet DEF Inv, Counts
    <3>3. activeFdsNums[q] # 0 /\ q \notin raced => Ready(call[q].fd, AsksFor(call[q].of))
      BY <3>1, <3>2 DEF TrueInv, TruthOf, Expects
    <3> QED BY <3>1, <3>3, AfterPollTruth
  <2>2. CASE Glances(q)
    <3>1. /\ at[q] = "wait" /\ call[q] # NoCall /\ AfterPoll(q, KernelSays(q))
          /\ q \notin polling' /\ UNCHANGED <<open, toPrepare, polling, fds, revents>>
      BY <2>2 DEF Glances, In_, InApplication, NoCall, Reads, Writes, pollVars, pmVars, dealVars
    <3>2. KernelSays(q) # 0 => Ready(call[q].fd, AsksFor(call[q].of))
      BY DEF KernelSays
    <3> QED BY <3>1, <3>2, AfterPollTruth
  <2> QED BY <1>1, <2>1, <2>2, WaitsTruth, KernelTruth DEF InCall
<1>2. ASSUME NEW q \in Routines, Application(q) PROVE TruthOf(r)'
  <2>1. CASE Rest /\ Yield(q)
    BY <1>0, <2>1 DEF Rest, Yield, pmVars, dealVars, callVars, kernelVars
  <2>2. ASSUME Rest, call[q] = NoCall, pollReturns(q) \/ \E F \in SUBSET Fds : poll(q, F)
        PROVE  TruthOf(r)'
    <3>1. CASE r = q
      BY <2>2, <3>1 DEF TruthOf, Rest, callVars
    <3>2. CASE r # q
      BY <1>0, <2>2, <3>2 DEF Inv, PollTypeOK, Rest, pollReturns, poll, dealVars, callVars,
                            kernelVars
    <3> QED BY <3>1, <3>2
  <2>3. CASE acceptFails(q)
    BY <1>0, <2>3 DEF acceptFails, pollVars, pmVars, dealVars, callVars, kernelVars
  <2> QED
    BY <1>2, <2>1, <2>2, <2>3, BeginsTruth, TableTruth DEF Application, User
<1> QED BY <1>1, <1>2, WorkerTruth, PeerTruth DEF Next

LEMMA TruthStutters == TrueInv /\ UNCHANGED vars => TrueInv'
<1> SUFFICES ASSUME TrueInv, UNCHANGED vars PROVE TrueInv'
  OBVIOUS
<1> USE DEF vars, pollVars, pmVars, dealVars, tableVars, kernelVars, callVars
<1>1. TableInv'
  BY DEF TrueInv, TableInv
<1>2. \A r \in Routines : TruthOf(r)'
  BY DEF TrueInv, TruthOf, Expects, Ready, CanRead, CanWrite, Fails, AsksFor
<1> QED BY <1>1, <1>2 DEF TrueInv

(* With it, the three invariants are one of the calls. *)
LEMMA TruthInvariant == Spec => [](Inv /\ HookInv /\ TrueInv)
<1>1. Inv /\ HookInv /\ TrueInv /\ [Next]_vars => TrueInv'
  BY TruthStep, TruthStutters
<1> QED
  BY <1>1, TruthInit, HookInvariant, PTL DEF Spec

(* A call is over only by a kernel call of its own coroutine. *)
LEMMA OverByItself ==
  ASSUME HookInv, [Next]_vars, NEW r \in Routines, call[r] # NoCall, call'[r] = NoCall
  PROVE  \/ Read(r) \/ ConnectEnds(r)
         \/ \E where \in {"first", "try", "straight"} : Write(r, where) \/ Sendto(r, where)
<1>1. Next
  BY DEF vars, callVars
<1>2. ~Worker
  BY DEF Worker, Rest, callVars
<1>3. \A s \in Sockets : ~Peer(s)
  BY DEF Peer, callVars
<1>4. ASSUME NEW q \in Routines, Application(q) PROVE FALSE
  <2>1. CASE \/ Rest
             \/ \E s \in Sockets :
                  \/ \E nb \in BOOLEAN : socket(q, s, nb) \/ F_SETFL(q, s, nb)
                  \/ \E way \in {"R", "W"}, short \in BOOLEAN : setsockopt(q, s, way, short)
                  \/ \E nb \in BOOLEAN, l \in {"idle", "up"} : OpenElsewhere(q, s, nb, l)
                  \/ accept(q, s) \/ close(q, s) \/ ConnectAtOnce(q, s)
    BY <2>1 DEF Rest, socket, F_SETFL, setsockopt, OpenElsewhere, accept, close, ConnectAtOnce,
                callVars
  <2>2. ASSUME NEW s \in Sockets, NEW kind, NEW where, NEW n, Begins(q, kind, s, where, n)
        PROVE  FALSE
    BY <2>2 DEF Begins, User, HookInv, HookTypeOK
  <2>3. CASE \E s \in Sockets : \/ \E kind \in Reads : BeginRead(q, kind, s)
                                \/ \E kind \in Writes : BeginWrite(q, kind, s)
                                \/ BeginConnect(q, s)
    BY <2>2, <2>3 DEF BeginRead, BeginWrite, BeginConnect
  <2>4. CASE acceptFails(q)
    BY <2>4 DEF acceptFails, callVars
  <2> QED BY <1>4, <2>1, <2>3, <2>4 DEF Application
<1>5. PICK q \in Routines : InCall(q)
  BY <1>1, <1>2, <1>3, <1>4 DEF Next
<1>6. ~(Waits(q) \/ Woken(q) \/ Glances(q))
  BY DEF Waits, Woken, Glances, AfterPoll, callVars
<1>7. \/ Read(q) \/ ConnectEnds(q)
      \/ \E where \in {"first", "try", "straight"} : Write(q, where) \/ Sendto(q, where)
  BY <1>5, <1>6 DEF InCall
<1>8. q = r
  <2>1. (\E result : Returns(q, result)) \/ GoesTo(q, "wait")
    BY <1>7 DEF Read, ConnectEnds, Write, Sendto
  <2> QED BY <2>1 DEF Returns, GoesTo, HookInv, HookTypeOK
<1> QED BY <1>7, <1>8

(***************************************************************************)
(* A blocking read that went through poll and comes back empty-handed was  *)
(* disturbed by another coroutine, or is recvfrom after a timeout: what    *)
(* the event promised is still there when the coroutine runs.              *)
(***************************************************************************)
THEOREM ReadsGetTheirData == Spec => ReadHasData
<1>1. Inv /\ HookInv /\ TrueInv /\ [Next]_vars
        => [\A r \in Routines :
              Over(r, Reads) /\ at[r] = "try" =>
                /\ ret' = "again" => r \in raced \cup timedOut
                /\ call[r].of = "read" => r \notin timedOut]_vars
  <2> SUFFICES ASSUME HookInv, TrueInv, [Next]_vars, NEW r \in Routines, Over(r, Reads),
                      at[r] = "try"
               PROVE  /\ ret' = "again" => r \in raced \cup timedOut
                      /\ call[r].of = "read" => r \notin timedOut
    OBVIOUS
  <2>1. call[r] # NoCall /\ call'[r] = NoCall
    BY DEF Over, NoCall, Reads
  <2>2. Read(r)
    BY <2>1, OverByItself DEF Over, Reads, ConnectEnds, Write, Sendto, In_
  <2>3. TruthOf(r)
    BY DEF TrueInv
  <2>4. ret' = "again" => ~CanRead(call[r].fd)
    BY <2>2 DEF Read, Returns
  <2>5. Ready(call[r].fd, AsksFor(call[r].of)) = CanRead(call[r].fd)
    BY DEF Over, Ready, AsksFor
  <2> QED BY <2>1, <2>3, <2>4, <2>5 DEF TruthOf, Expects
<1> QED BY <1>1, TruthInvariant, PTL DEF Spec, ReadHasData

(***************************************************************************)
(* A write or send of the library takes all of its bytes, unless the       *)
(* connection failed, poll timed out, or another coroutine used the        *)
(* socket.                                                                 *)
(***************************************************************************)
THEOREM WritesAreWhole == Spec => ShortOnlyAfterTimeout
<1>1. Inv /\ HookInv /\ TrueInv /\ [Next]_vars
        => [\A r \in Routines :
              Over(r, {"write"}) /\ at[r] # "straight" /\ ret' \in {"short", "again"} =>
                r \in timedOut \cup raced \/ Fails(call[r].fd)]_vars
  <2> SUFFICES ASSUME HookInv, TrueInv, [Next]_vars, NEW r \in Routines, Over(r, {"write"}),
                      at[r] # "straight", ret' \in {"short", "again"}
               PROVE  r \in timedOut \cup raced \/ Fails(call[r].fd)
    OBVIOUS
  <2>1. call[r] # NoCall /\ call'[r] = NoCall
    BY DEF Over, NoCall
  <2>2. PICK where \in {"first", "try", "straight"} : Write(r, where)
    BY <2>1, OverByItself DEF Over, Reads, Read, ConnectEnds, Sendto, In_
  <2>3. at[r] = where /\ where # "straight" /\ TruthOf(r)
    BY <2>2 DEF Write, In_, TrueInv
  <2>4. \/ Fails(call[r].fd)
        \/ ~CanWrite(call[r].fd) /\ where = "try"
    BY <2>1, <2>2, <2>3 DEF Write, Returns, GoesTo
  <2>5. Ready(call[r].fd, AsksFor(call[r].of)) = CanWrite(call[r].fd)
    BY DEF Over, Ready, AsksFor, Reads
  <2> QED BY <2>1, <2>3, <2>4, <2>5 DEF TruthOf, Expects
<1> QED BY <1>1, TruthInvariant, PTL DEF Spec, ShortOnlyAfterTimeout

(***************************************************************************)
(* connect says "connected" only of a connection that was made, and gives  *)
(* an error only for one that failed, unless another coroutine took the    *)
(* number of the descriptor from under it.                                 *)
(***************************************************************************)
THEOREM ConnectsAreTrue == Spec => ConnectTruthful
<1>1. Inv /\ HookInv /\ TrueInv /\ [Next]_vars
        => [\A r \in Routines :
              Over(r, {"connect"}) /\ r \notin raced =>
                /\ ret' = "ok" => link[call[r].fd] \in {"up", "closed"}
                /\ ret' = "error" => link[call[r].fd] = "down"]_vars
  <2> SUFFICES ASSUME HookInv, TrueInv, [Next]_vars, NEW r \in Routines, Over(r, {"connect"}),
                      r \notin raced, ret' \in {"ok", "error"}
               PROVE  IF ret' = "ok" THEN link[call[r].fd] \in {"up", "closed"}
                                     ELSE link[call[r].fd] = "down"
    OBVIOUS
  <2> DEFINE s == call[r].fd
  <2>1. call[r] # NoCall /\ call'[r] = NoCall /\ call[r].of = "connect" /\ s \in Sockets
    BY CallsFd DEF Over, NoCall, HookInv
  <2>2. /\ at[r] = "try" \/ (at[r] = "straight" /\ link[s] # "connecting")
        /\ r \notin timedOut /\ ret' = IF SO_ERROR(s) THEN "error" ELSE "ok"
    <3>1. ConnectEnds(r)
      BY <2>1, OverByItself DEF Reads, Read, Write, Sendto, In_
    <3>2. at[r] = "try" \/ (at[r] = "straight" /\ link[s] # "connecting")
      BY <3>1 DEF ConnectEnds, In_
    <3>3. ret' = IF r \in timedOut THEN "timeout" ELSE IF SO_ERROR(s) THEN "error" ELSE "ok"
      BY <3>1 DEF ConnectEnds, Returns, SO_ERROR
    <3> QED BY <3>2, <3>3 DEF SO_ERROR
  <2>3. link[s] \in Links \ {"idle"} /\ s \in open
    BY <2>1 DEF TrueInv, TruthOf, TableInv, HookInv, HookTypeOK
  <2>4. SO_ERROR(s) <=> link[s] = "down"
    BY <2>3 DEF SO_ERROR
  <2>5. CASE at[r] = "straight"
    BY <2>2, <2>3, <2>4, <2>5 DEF Links
  <2>6. CASE at[r] = "try"
    <3>1. CanWrite(s)
      BY <2>1, <2>2, <2>6 DEF TrueInv, TruthOf, Expects, Ready, AsksFor, Reads
    <3>2. link[s] # "connecting"
      BY <2>1, <2>3, <3>1 DEF CanWrite, Fails, TrueInv, TableInv
    <3> QED BY <2>2, <2>3, <2>4, <3>2 DEF Links
  <2> QED BY <2>2, <2>5, <2>6
<1> QED BY <1>1, TruthInvariant, PTL DEF Spec, ConnectTruthful
=============================================================================
