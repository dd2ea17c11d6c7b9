-------------------------------- MODULE Hooks --------------------------------
(***************************************************************************)
(* The hooked system calls of b_hook.cc on sockets, over the poll of       *)
(* module Poll: socket, accept, connect, read, recv, recvfrom, write,      *)
(* send, sendto, setsockopt, fcntl(F_SETFL) and close.  recv switches as   *)
(* read does, and send as write.  Hooks are enabled in all coroutines.     *)
(*                                                                         *)
(* A call is split where it leaves the library: at[r] says whether r goes  *)
(* on with a first kernel call, with poll, with the kernel call after      *)
(* poll, or with the one kernel call ("straight") that it is on a          *)
(* descriptor without fileDesc or with the user's O_NONBLOCK.  A kernel    *)
(* call that would block the thread is a step that is not enabled; since r *)
(* occupies the worker, no coroutine moves either.                         *)
(*                                                                         *)
(* The kernel (external) keeps of a socket its connection, whether a read  *)
(* or a write would go on at once, and O_NONBLOCK.  The connection is      *)
(* "idle" (none, or its error was reported), "connecting", "up", "closed"  *)
(* (by the peer: no more to read) or "down" (failed, and the error is      *)
(* pending).  That SO_RCVTIMEO and SO_SNDTIMEO would also end a kernel     *)
(* call that blocks is left out, and so are listening sockets: accept may  *)
(* find a connection or not.                                               *)
(***************************************************************************)
EXTENDS Poll

CONSTANTS
  Sockets,     \* the descriptors that the hooked calls are used on
  Length,      \* the bytes of a write
  NoFd

ASSUME HooksAssumption ==
  /\ Sockets \subseteq Fds
  /\ Length \in Nat \ {0}
  /\ NoFd \notin Fds

VARIABLES
  hooksFdSet,  \* "none": no fileDesc; else O_NONBLOCK in its _userFlags
  noWait,      \* <<s, "R">>, <<s, "W">>: that timeout of s is below 1 ms
  nonblock,    \* kernel: the sockets with O_NONBLOCK
  link,        \* kernel: the connection of a socket
  readable, writable,   \* kernel: those with data, and with room
  call,        \* the hooked call r is in, its descriptor, and whether the
               \* timeout it read at its start makes poll return at once
  at,          \* where r is in it
  left,        \* write: bytes to go; connect: polls to go
  timedOut,    \* history: those whose last poll returned 0
  raced,       \* history: those whose socket another used during the call
  accepted,    \* history: sockets that accept made, without F_SETFL since
  ret          \* what the last step returned to the application, if it did

kernelVars == <<nonblock, link, readable, writable>>
tableVars == <<hooksFdSet, noWait, accepted>>
callVars == <<call, at, left, timedOut, raced>>
vars == <<pollVars, tableVars, kernelVars, callVars, ret>>

Reads == {"read", "recvfrom"}
Writes == {"write", "sendto"}
NoCall == [of |-> "none", fd |-> NoFd, glances |-> FALSE]
Calls == {NoCall} \cup
  [of : Reads \cup Writes \cup {"connect"}, fd : Sockets, glances : BOOLEAN]

Links == {"idle", "connecting", "up", "closed", "down"}
Ats == {"user", "first", "wait", "try", "straight"}

HookTypeOK ==
  /\ hooksFdSet \in [Sockets -> {"none", "block", "nonblock"}]
  /\ noWait \subseteq Sockets \X {"R", "W"}
  /\ nonblock \subseteq Sockets
  /\ link \in [Sockets -> Links]
  /\ readable \subseteq Sockets
  /\ writable \subseteq Sockets
  /\ call \in [Routines -> Calls]
  /\ at \in [Routines -> Ats]
  /\ left \in [Routines -> Nat]
  /\ timedOut \subseteq Routines
  /\ raced \subseteq Routines
  /\ accepted \subseteq Sockets
  /\ ret \in {"none", "ok", "short", "again", "timeout", "error"}

TypeOK == PollTypeOK /\ HookTypeOK

Init ==
  /\ PollInit
  /\ open = Fds \ Sockets
  /\ hooksFdSet = [s \in Sockets |-> "none"]
  /\ noWait = {}
  /\ nonblock = {}
  /\ link = [s \in Sockets |-> "idle"]
  /\ readable = {}
  /\ writable = {}
  /\ call = [r \in Routines |-> NoCall]
  /\ at = [r \in Routines |-> "user"]
  /\ left = [r \in Routines |-> 0]
  /\ timedOut = {}
  /\ raced = {}
  /\ accepted = {}
  /\ ret = "none"
-----------------------------------------------------------------------------
(* What the kernel would do now: a socket that is not connected answers at *)
(* once, with an error; one that is connecting does not; one that the peer *)
(* has closed answers a read, with the end of the data.                    *)
Fails(s) == s \notin open \/ link[s] \in {"idle", "down"}
CanRead(s) == Fails(s) \/ link[s] = "closed" \/ s \in readable
CanWrite(s) == Fails(s) \/ s \in writable

(* An error is pending until a call has reported it. *)
Reported(s) == IF link[s] = "down" THEN [link EXCEPT ![s] = "idle"] ELSE link

User(r) == InApplication(r) /\ call[r] = NoCall

(* What a call asks poll for: POLLIN or POLLOUT, with errors in any case. *)
AsksForInput(kind) == "R"
AsksFor(kind) == IF kind \in Reads THEN "R" ELSE "W"

Ready(s, way) == IF way = "R" THEN CanRead(s) ELSE CanWrite(s)

In_(r, kinds, where) ==
  InApplication(r) /\ call[r].of \in kinds /\ at[r] = where

(* A call goes through the library when s has a fileDesc and its user has  *)
(* not set O_NONBLOCK; else it is the kernel's.                            *)
Hooked(s) == hooksFdSet[s] = "block"
Via(s, where) == IF Hooked(s) THEN where ELSE "straight"

(* r starts a call.  The timeout of its polls is read now; connect has one *)
(* of its own.                                                             *)
Begins(r, kind, s, where, n) ==
  /\ User(r)
  /\ call' = [call EXCEPT ![r] =
       [of |-> kind, fd |-> s,
        glances |-> /\ Hooked(s) /\ kind # "connect"
                    /\ <<s, AsksFor(kind)>> \in noWait]]
  /\ at' = [at EXCEPT ![r] = where]
  /\ left' = [left EXCEPT ![r] = n]
  /\ ret' = "none"
  /\ UNCHANGED <<pollVars, tableVars, timedOut>>

GoesTo(r, where) ==
  /\ at' = [at EXCEPT ![r] = where]
  /\ ret' = "none"
  /\ UNCHANGED <<call, timedOut>>

Returns(r, result) ==
  /\ call' = [call EXCEPT ![r] = NoCall]
  /\ at' = [at EXCEPT ![r] = "user"]
  /\ left' = [left EXCEPT ![r] = 0]
  /\ timedOut' = timedOut \ {r}
  /\ ret' = result

(* The others that are in a call on s. *)
Others(r, s) == {q \in Routines \ {r} : call[q].fd = s}

(* r uses s: a call of another on s has company, and so has that of r. *)
Uses(r, s) ==
  raced' = (raced \ {r}) \cup Others(r, s)
             \cup (IF call'[r] # NoCall /\ (r \in raced \/ Others(r, s) # {}) THEN {r} ELSE {})
-----------------------------------------------------------------------------
(* The descriptor table. *)

(* fcntl(F_SETFL) sets the kernel's flag as the user asks, but in any case *)
(* when s has a fileDesc; then what was asked for goes to _userFlags.      *)
FlagAsAsked(s, nb) == IF nb THEN nonblock \cup {s} ELSE nonblock \ {s}
FlagForced(s, nb) == nonblock \cup {s}

UserFlags(nb) == IF nb THEN "nonblock" ELSE "block"

Fresh(r, s) == Open(r, s) /\ readable' = readable \ {s}

(* socket: a fileDesc, and fcntl(F_SETFL) with the flags it was made with. *)
socket(r, s, nb) ==
  /\ User(r)
  /\ Fresh(r, s)
  /\ hooksFdSet' = [hooksFdSet EXCEPT ![s] = UserFlags(nb)]
  /\ nonblock' = FlagForced(s, nb)
  /\ link' = [link EXCEPT ![s] = "idle"]
  /\ ret' = "none"
  /\ UNCHANGED <<noWait, accepted, writable, callVars>>

(* accept calls the kernel without waiting: with nobody there a listener   *)
(* that the library made non-blocking answers EAGAIN.  The descriptor it   *)
(* returns gets a fileDesc, and nothing sets its O_NONBLOCK.               *)
acceptFails(r) ==
  /\ User(r)
  /\ ret' \in {"again", "error"}
  /\ UNCHANGED <<pollVars, tableVars, kernelVars, callVars>>

accept(r, s) ==
  /\ User(r)
  /\ Fresh(r, s)
  /\ hooksFdSet' = [hooksFdSet EXCEPT ![s] = "block"]
  /\ link' = [link EXCEPT ![s] = "up"]
  /\ writable' = writable \cup {s}
  /\ accepted' = accepted \cup {s}
  /\ ret' = "none"
  /\ UNCHANGED <<noWait, nonblock, callVars>>

(* A descriptor from a call that is not hooked (socketpair, accept4, dup)  *)
(* has no fileDesc.                                                        *)
OpenElsewhere(r, s, nb, l) ==
  /\ User(r)
  /\ Fresh(r, s)
  /\ nonblock' = FlagAsAsked(s, nb)
  /\ link' = [link EXCEPT ![s] = l]
  /\ writable' = IF l = "up" THEN writable \cup {s} ELSE writable
  /\ ret' = "none"
  /\ UNCHANGED <<tableVars, callVars>>

F_SETFL(r, s, nb) ==
  /\ User(r)
  /\ s \in open
  /\ \/ /\ hooksFdSet[s] # "none"
        /\ hooksFdSet' = [hooksFdSet EXCEPT ![s] = UserFlags(nb)]
        /\ nonblock' = FlagForced(s, nb)
        /\ accepted' = accepted \ {s}
     \/ /\ hooksFdSet[s] = "none"
        /\ nonblock' = FlagAsAsked(s, nb)
        /\ UNCHANGED <<hooksFdSet, accepted>>
  /\ ret' = "none"
  /\ UNCHANGED <<pollVars, noWait, link, readable, writable, callVars>>

(* setsockopt: SO_RCVTIMEO or SO_SNDTIMEO of less than a millisecond, as   *)
(* zero is, makes the timeout of later polls 0; the fileDesc keeps it.     *)
setsockopt(r, s, way, short) ==
  /\ User(r)
  /\ hooksFdSet[s] # "none"
  /\ noWait' = IF short THEN noWait \cup {<<s, way>>} ELSE noWait \ {<<s, way>>}
  /\ ret' = "none"
  /\ UNCHANGED <<pollVars, hooksFdSet, accepted, kernelVars, callVars>>

(* close frees the fileDesc; coroutines that wait for s are not woken. *)
close(r, s) ==
  /\ User(r)
  /\ Close(r, s)
  /\ hooksFdSet' = [hooksFdSet EXCEPT ![s] = "none"]
  /\ noWait' = noWait \ {<<s, "R">>, <<s, "W">>}
  /\ accepted' = accepted \ {s}
  /\ nonblock' = nonblock \ {s}
  /\ link' = [link EXCEPT ![s] = "idle"]
  /\ readable' = readable \ {s}
  /\ writable' = writable \ {s}
  /\ raced' = raced \cup Others(r, s)
  /\ ret' = "none"
  /\ UNCHANGED <<call, at, left, timedOut>>
-----------------------------------------------------------------------------
(* poll from inside a call.                                                *)
Waits(r) ==
  /\ In_(r, Reads \cup Writes \cup {"connect"}, "wait")
  /\ ~call[r].glances
  /\ poll(r, {call[r].fd})
  /\ ret' = "none"
  /\ UNCHANGED <<tableVars, kernelVars, callVars>>

(* How each call goes on when poll has returned n: read and recv ask again *)
(* after a timeout; connect does so twice; the others try in any case.     *)
ReadGoesOn(n) == "try"
ReadAgain(n) == IF n = 0 THEN "wait" ELSE "try"

AfterPoll(r, n) ==
  /\ timedOut' = IF n = 0 THEN timedOut \cup {r} ELSE timedOut \ {r}
  /\ \/ /\ call[r].of = "read"
        /\ at' = [at EXCEPT ![r] = ReadAgain(n)]
        /\ UNCHANGED left
     \/ /\ call[r].of \in {"recvfrom"} \cup Writes
        /\ at' = [at EXCEPT ![r] = "try"]
        /\ UNCHANGED left
     \/ /\ call[r].of = "connect"
        /\ left' = [left EXCEPT ![r] = @ - 1]
        /\ at' = [at EXCEPT ![r] = IF n = 0 /\ left[r] > 1 THEN "wait" ELSE "try"]
  /\ ret' = "none"
  /\ UNCHANGED <<tableVars, kernelVars, call, raced>>

Woken(r) ==
  /\ call[r] # NoCall
  /\ pollReturns(r)
  /\ AfterPoll(r, activeFdsNums[r])

(* poll with timeout 0 goes to the kernel, which answers at once. *)
KernelSays(r) ==
  IF Ready(call[r].fd, AsksFor(call[r].of)) THEN 1 ELSE 0

Glances(r) ==
  /\ In_(r, Reads \cup Writes, "wait")
  /\ call[r].glances
  /\ AfterPoll(r, KernelSays(r))
  /\ UNCHANGED pollVars
-----------------------------------------------------------------------------
(* read, recv and recvfrom wait first and read then. *)
BeginRead(r, kind, s) ==
  /\ Begins(r, kind, s, Via(s, "wait"), 0)
  /\ Uses(r, s)
  /\ UNCHANGED kernelVars

Read(r) ==
  /\ In_(r, Reads, "try") \/ In_(r, Reads, "straight")
  /\ LET s == call[r].fd
     IN  /\ \/ /\ Fails(s)
               /\ Returns(r, "error")
               /\ link' = Reported(s)
               /\ UNCHANGED readable
            \/ /\ ~Fails(s) /\ CanRead(s)
               /\ Returns(r, "ok")
               /\ readable' \in {readable, readable \ {s}}
               /\ UNCHANGED link
            \/ /\ ~CanRead(s) /\ s \in nonblock
               /\ Returns(r, "again")
               /\ UNCHANGED <<readable, link>>
         /\ Uses(r, s)
  /\ UNCHANGED <<pollVars, tableVars, nonblock, writable>>

(***************************************************************************)
(* write, send and sendto try first.  A write that took only a part found  *)
(* the kernel's buffer full; to a blocking socket it takes all.  write and *)
(* send go on until all is written or a later try fails; the error of the  *)
(* first try is not looked at.  sendto waits for EAGAIN only, once.        *)
(***************************************************************************)
BeginWrite(r, kind, s) ==
  /\ Begins(r, kind, s, Via(s, "first"), Length)
  /\ Uses(r, s)
  /\ UNCHANGED kernelVars

WriteEnds(r, error) == IF left[r] = Length THEN error ELSE "short"

Takes(r, s, k) ==
  /\ ~Fails(s) /\ CanWrite(s)
  /\ k \in 1 .. left[r]
  /\ \/ k = left[r] /\ writable' \in {writable, writable \ {s}}
     \/ k < left[r] /\ s \in nonblock /\ writable' = writable \ {s}

Write(r, where) ==
  /\ In_(r, {"write"}, where)
  /\ LET s == call[r].fd
     IN  /\ \/ \E k \in 1 .. Length :
                 /\ Takes(r, s, k)
                 /\ \/ k = left[r] /\ Returns(r, "ok")
                    \/ /\ k < left[r] /\ where # "straight"
                       /\ left' = [left EXCEPT ![r] = @ - k]
                       /\ GoesTo(r, "wait")
                    \/ k < left[r] /\ where = "straight" /\ Returns(r, "short")
                 /\ UNCHANGED link
            \/ /\ Fails(s)
               /\ \/ where = "first" /\ GoesTo(r, "wait") /\ UNCHANGED left
                  \/ where # "first" /\ Returns(r, WriteEnds(r, "error"))
               /\ link' = Reported(s)
               /\ UNCHANGED writable
            \/ /\ ~CanWrite(s) /\ s \in nonblock
               /\ \/ where = "first" /\ GoesTo(r, "wait") /\ UNCHANGED left
                  \/ where # "first" /\ Returns(r, WriteEnds(r, "again"))
               /\ UNCHANGED <<writable, link>>
         /\ Uses(r, s)
  /\ UNCHANGED <<pollVars, tableVars, nonblock, readable>>

Sendto(r, where) ==
  /\ In_(r, {"sendto"}, where)
  /\ LET s == call[r].fd
     IN  /\ \/ /\ \E k \in 1 .. Length : Takes(r, s, k)
               /\ Returns(r, "ok")
               /\ UNCHANGED link
            \/ /\ Fails(s)
               /\ Returns(r, "error")
               /\ link' = Reported(s)
               /\ UNCHANGED writable
            \/ /\ ~CanWrite(s) /\ s \in nonblock
               /\ \/ where = "first" /\ GoesTo(r, "wait") /\ UNCHANGED left
                  \/ where # "first" /\ Returns(r, "again")
               /\ UNCHANGED <<writable, link>>
         /\ Uses(r, s)
  /\ UNCHANGED <<pollVars, tableVars, nonblock, readable>>

(***************************************************************************)
(* connect begins with the kernel's: it answers at once that the socket is *)
(* connected, or with an error, and EINPROGRESS is the answer for whoever  *)
(* has set O_NONBLOCK.                                                     *)
(***************************************************************************)
Attempts == 3

Dials(s) ==
  /\ s \in open /\ link[s] = "idle"
  /\ link' = [link EXCEPT ![s] = "connecting"]
  /\ writable' = writable \ {s}

ConnectAtOnce(r, s) ==
  /\ User(r)
  /\ \/ /\ s \in open /\ link[s] = "idle"
        /\ link' = [link EXCEPT ![s] = "up"]
        /\ writable' = writable \cup {s}
        /\ ret' = "ok"
     \/ /\ link' = Reported(s)
        /\ ret' = "error"
        /\ UNCHANGED writable
     \/ /\ ~Hooked(s) /\ s \in nonblock
        /\ Dials(s)
        /\ ret' = "again"
  /\ raced' = raced \cup Others(r, s)
  /\ UNCHANGED <<pollVars, tableVars, nonblock, readable, call, at, left, timedOut>>

(* On EINPROGRESS the library goes on with up to three polls of 25 s; for  *)
(* a socket without O_NONBLOCK the kernel waits.                           *)
BeginConnect(r, s) ==
  /\ \/ Hooked(s) /\ s \in nonblock /\ Begins(r, "connect", s, "wait", Attempts)
     \/ s \notin nonblock /\ Begins(r, "connect", s, "straight", Attempts)
  /\ Dials(s)
  /\ Uses(r, s)
  /\ UNCHANGED <<nonblock, readable>>

(* Writable within that time: getsockopt(SO_ERROR) says how it went.       *)
NeverAsked(s) == FALSE
SO_ERROR(s) == s \notin open \/ link[s] = "down"

ConnectEnds(r) ==
  /\ LET s == call[r].fd
     IN  /\ \/ In_(r, {"connect"}, "try")
            \/ In_(r, {"connect"}, "straight") /\ link[s] # "connecting"
         /\ Returns(r, IF r \in timedOut THEN "timeout" ELSE IF SO_ERROR(s) THEN "error" ELSE "ok")
         /\ link' = IF r \in timedOut THEN link ELSE Reported(s)
         /\ Uses(r, s)
  /\ UNCHANGED <<pollVars, tableVars, nonblock, readable, writable>>
-----------------------------------------------------------------------------
(* The peer: answers a connection, sends, makes room, closes, goes away.   *)
(* With the connection goes what was readable or writable; it makes no     *)
(* difference any more.                                                    *)
Peer(s) ==
  /\ s \in open
  /\ \/ /\ link[s] = "connecting"
        /\ link' = [link EXCEPT ![s] = "up"]
        /\ writable' = writable \cup {s}
        /\ UNCHANGED readable
     \/ /\ link[s] = "up"
        /\ readable' = readable \cup {s}
        /\ UNCHANGED <<link, writable>>
     \/ /\ link[s] \in {"up", "closed"}
        /\ writable' = writable \cup {s}
        /\ UNCHANGED <<link, readable>>
     \/ /\ link[s] = "up"
        /\ link' = [link EXCEPT ![s] = "closed"]
        /\ readable' = readable \ {s}
        /\ UNCHANGED writable
     \/ /\ link[s] \in {"connecting", "up", "closed"}
        /\ link' = [link EXCEPT ![s] = "down"]
        /\ readable' = readable \ {s}
        /\ writable' = writable \ {s}
  /\ ret' = "none"
  /\ UNCHANGED <<pollVars, tableVars, nonblock, callVars>>

(* epoll reports what is ready for the call that registered it; on polls   *)
(* of the application itself it may report anything.                       *)
ReadyFor(f) ==
  LET c == call[registered[f]]
  IN  c = NoCall \/ Ready(f, AsksFor(c.of))

(* What leaves the calls and the sockets alone. *)
Rest == ret' = "none" /\ UNCHANGED <<tableVars, kernelVars, callVars>>

Worker ==
  /\ \/ \E F \in SUBSET {f \in Watched : ReadyFor(f)} : DealBegins(F)
     \/ DealContinues
     \/ LoopDispatch
     \/ LoopIdles
  /\ Rest

Application(r) ==
  \/ /\ User(r)
     /\ \/ Yield(r)
        \/ \E F \in SUBSET Fds : poll(r, F)
     /\ Rest
  \/ call[r] = NoCall /\ pollReturns(r) /\ Rest
  \/ acceptFails(r)
  \/ \E s \in Sockets :
       \/ \E nb \in BOOLEAN : socket(r, s, nb) \/ F_SETFL(r, s, nb)
       \/ \E way \in {"R", "W"}, short \in BOOLEAN : setsockopt(r, s, way, short)
       \/ \E nb \in BOOLEAN, l \in {"idle", "up"} : OpenElsewhere(r, s, nb, l)
       \/ accept(r, s)
       \/ close(r, s)
       \/ \E kind \in Reads : BeginRead(r, kind, s)
       \/ \E kind \in Writes : BeginWrite(r, kind, s)
       \/ ConnectAtOnce(r, s)
       \/ BeginConnect(r, s)

InCall(r) ==
  \/ Waits(r)
  \/ Woken(r)
  \/ Glances(r)
  \/ Read(r)
  \/ \E where \in {"first", "try", "straight"} : Write(r, where) \/ Sendto(r, where)
  \/ ConnectEnds(r)

Next ==
  \/ Worker
  \/ \E r \in Routines : Application(r) \/ InCall(r)
  \/ \E s \in Sockets : Peer(s)

Spec == Init /\ [][Next]_vars
-----------------------------------------------------------------------------
(* r occupies the worker in a kernel call that blocks the thread.          *)
Blocks(r) ==
  /\ InApplication(r)
  /\ call[r].fd \notin nonblock
  /\ \/ /\ at[r] \in {"first", "try", "straight"} /\ call[r].of # "connect"
        /\ ~Ready(call[r].fd, AsksFor(call[r].of))
     \/ /\ at[r] = "straight" /\ call[r].of = "connect"
        /\ link[call[r].fd] = "connecting"

(***************************************************************************)
(* A kernel call blocks the worker, and with it every coroutine, only on a *)
(* descriptor without fileDesc, which the library leaves alone, or on one  *)
(* from accept, which it never made non-blocking; also where a descriptor  *)
(* was closed and its number given away under a call.                      *)
(***************************************************************************)
HeldOnlyAsKnown ==
  \A r \in Routines :
    Blocks(r) => call[r].fd \in accepted \/ hooksFdSet[call[r].fd] = "none"

Over(r, kinds) == call[r].of \in kinds /\ call'[r] = NoCall

(***************************************************************************)
(* EAGAIN reaches the caller of a blocking read only if another coroutine  *)
(* used the socket meanwhile, and that of recvfrom also after a timeout:   *)
(* what the event promised is still there when the coroutine runs.         *)
(***************************************************************************)
ReadHasData ==
  [][\A r \in Routines :
       Over(r, Reads) /\ at[r] = "try" =>
         /\ ret' = "again" => r \in raced \cup timedOut
         /\ call[r].of = "read" => r \notin timedOut]_vars

(***************************************************************************)
(* A blocking write or send is cut short only when the connection failed,  *)
(* poll timed out, or another coroutine used the socket meanwhile.         *)
(***************************************************************************)
ShortOnlyAfterTimeout ==
  [][\A r \in Routines :
       Over(r, {"write"}) /\ at[r] # "straight" /\ ret' \in {"short", "again"} =>
         r \in timedOut \cup raced \/ Fails(call[r].fd)]_vars

(***************************************************************************)
(* After up to three polls connect reports success only for a connection   *)
(* that was made, whether or not the peer has closed it since, and an      *)
(* error only for one that failed, unless another coroutine closed the     *)
(* socket and used its number meanwhile (the check of SO_ERROR,            *)
(* b_hook.cc:503-513).                                                     *)
(***************************************************************************)
ConnectTruthful ==
  [][\A r \in Routines :
       Over(r, {"connect"}) /\ r \notin raced =>
         /\ ret' = "ok" => link[call[r].fd] \in {"up", "closed"}
         /\ ret' = "error" => link[call[r].fd] = "down"]_vars
=============================================================================
