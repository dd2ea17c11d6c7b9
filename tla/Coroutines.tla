------------------------------ MODULE Coroutines ------------------------------
(***************************************************************************)
(* What bRoutine promises an application about its coroutines, without     *)
(* queues or waiting lists: each coroutine is in one state, at most one of *)
(* them runs, a coroutine is woken only while it is blocked, and one that  *)
(* has finished does not run again unless New() starts it anew ("unborn":  *)
(* its object is in the pool; "done": it is gone).  The modules that model *)
(* the code implement this specification.                                  *)
(***************************************************************************)
CONSTANTS Routines, Main

VARIABLE st

States == {"unborn", "ready", "running", "blocked", "done"}

Init == st = [r \in Routines |-> IF r = Main THEN "running" ELSE "unborn"]

NobodyRuns == \A r \in Routines : st[r] # "running"

(* The worker switches to a ready coroutine. *)
Run(r) ==
  /\ NobodyRuns
  /\ st[r] = "ready"
  /\ st' = [st EXCEPT ![r] = "running"]

(* The running coroutine r makes the members of W ready, each of them      *)
(* blocked or not yet started, and goes on, gives way, blocks or finishes  *)
(* (its object is pooled or deleted).                                      *)
Act(r, W, next) ==
  /\ st[r] = "running"
  /\ \A w \in W : st[w] \in {"blocked", "unborn"}
  /\ next \in States
  /\ st' = [q \in Routines |-> IF q \in W THEN "ready"
                               ELSE IF q = r THEN next ELSE st[q]]

Next ==
  \/ \E r \in Routines : Run(r)
  \/ \E r \in Routines, W \in SUBSET Routines, next \in States : Act(r, W, next)

Spec == Init /\ [][Next]_st
=============================================================================
