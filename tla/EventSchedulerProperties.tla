---------------------- MODULE EventSchedulerProperties ----------------------
(***************************************************************************)
(* What makes the event scheduler of module EventScheduler correct.        *)
(***************************************************************************)
EXTENDS EventScheduler

Alive == {i \in Threads : thread[i] \notin {"none", "gone"}}

(* However start() and stop() of several sessions interleave, there is at    *)
(* most one scheduler thread, and scheduler_thd, which stop() dereferences,  *)
(* is its THD exactly while the state is not INITIALIZED.                    *)
OneScheduler ==
  /\ Alive = IF scheduler_thd = 0 THEN {} ELSE {scheduler_thd}
  /\ state = "INITIALIZED" <=> scheduler_thd = 0

(* stop() cannot miss the thread: if it sleeps on the queue though it has    *)
(* been killed, it has been signalled or THD::awake() is yet to signal it    *)
(* ("where possible, we test for killed once again after enter_cond()").     *)
NoLostKill ==
  \A i \in Threads :
    thread[i] = "wait" /\ i \in killed =>
      i \in signalled \/ \E c \in Sessions : session[c] = "awake"

(* The state under LOCK_scheduler_state and LOCK_event_queue, whatever start *)
(* and stop have been interleaved: one scheduler and no kill it can miss.    *)
Consistent == TypeOK /\ OneScheduler /\ NoLostKill

(* stop() is synchronous: when it returns after a wait, every thread that    *)
(* was told to stop has ended and its THD is deleted, even if the session    *)
(* was killed meanwhile or the scheduler has been started again.             *)
StoppedMeansGone ==
  [][\A c \in Sessions :
       session[c] \in {"woken", "woken_other"} /\ session'[c] = "idle"
         => \A i \in killed : thread[i] = "gone"]_vars

(* The session that stops the scheduler gets its answer, whoever starts it   *)
(* again in between.                                                         *)
StopReturns ==
  \A c \in Sessions :
    session[c] \in {"awake", "waiting", "woken"} ~> session[c] = "idle"

(* A session that finds the scheduler being stopped gets its answer too,     *)
(* unless the scheduler is started again before it looks.                    *)
OtherStopReturns ==
  \A c \in Sessions :
    session[c] = "waiting_other" ~> session[c] = "idle" \/ state = "RUNNING"

(* An event whose time has come is taken by a running scheduler, wherever    *)
(* the thread was when the event was put into the queue or became due.       *)
EventTaken ==
  \A e \in Events :
    state = "RUNNING" /\ queue[e] <= now ~> state # "RUNNING" \/ queue[e] > now
=============================================================================
