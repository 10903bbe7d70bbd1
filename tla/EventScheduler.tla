--------------------------- MODULE EventScheduler ---------------------------
(***************************************************************************)
(* The event scheduler: sql/event_scheduler.cc, sql/event_queue.cc and the *)
(* update function of the variable event_scheduler in sql/sys_vars.cc.     *)
(*                                                                         *)
(* SET GLOBAL event_scheduler starts or stops the scheduler thread after   *)
(* it has released the mutex of the system variables, so several sessions  *)
(* may start and stop it at the same time.  stop() kills the thread with   *)
(* THD::awake() and waits until it has cleaned up; the thread sleeps on    *)
(* the queue's condition until the first event is due, the queue changes   *)
(* or it is killed.                                                        *)
(*                                                                         *)
(* An action is one critical section of LOCK_scheduler_state or of         *)
(* LOCK_event_queue, split where another thread looks in without the lock: *)
(* THD::awake() sets thd->killed first and reads current_cond later.       *)
(***************************************************************************)
EXTENDS Naturals, FiniteSets

CONSTANTS
  Sessions,     \* sessions that set the variable
  Events,       \* names of events
  OneTime,      \* the events without a schedule (ON SCHEDULE AT)
  MaxStarts,    \* bound on the scheduler threads that are started
  MaxTime,      \* bound on the clock
  MaxChanges,   \* bound on CREATE, ALTER and DROP EVENT
  MaxKills      \* bound on KILL of a session that waits in stop()

ASSUME BoundsAssumption ==
  /\ OneTime \subseteq Events
  /\ MaxStarts \in Nat /\ MaxTime \in Nat /\ MaxChanges \in Nat /\ MaxKills \in Nat
ASSUME SessionsAssumption == "nobody" \notin Sessions

VARIABLES
  opt_event_scheduler,    \* the system variable
  state, scheduler_thd,   \* of the Event_scheduler; a thread, or 0 for NULL
  LOCK_scheduler_state,   \* a session that holds it between two actions
  session,                \* Sessions -> where it is
  thread,                 \* threads -> where it is
  killed,                 \* threads whose thd->killed is set
  current_cond,           \* threads between enter_cond() and exit_cond()
  signalled,              \* threads in cond_wait() that a broadcast reached
  deadline,               \* threads -> when its timed wait ends
  LOCK_event_queue,       \* the thread that holds it between two actions, or 0
  queue,                  \* Events -> execute_at, or Absent
  now,
  changes, kills          \* counters for the bounds

sched == <<state, scheduler_thd, LOCK_scheduler_state>>
thr == <<thread, killed, current_cond, signalled, deadline>>
que == <<LOCK_event_queue, queue>>
vars == <<opt_event_scheduler, sched, session, thr, que, now, changes, kills>>

Threads == 1 .. MaxStarts
Never == MaxTime + 1
Times == 0 .. Never
Absent == MaxTime + 2
Nobody == "nobody"

TypeOK ==
  /\ opt_event_scheduler \in {"ON", "OFF"}
  /\ state \in {"INITIALIZED", "RUNNING", "STOPPING"}
  /\ scheduler_thd \in 0 .. MaxStarts
  /\ LOCK_scheduler_state \in Sessions \union {Nobody}
  /\ session \in [Sessions -> {"idle", "start", "failed", "stop", "awake",
                               "waiting", "woken", "waiting_other", "woken_other"}]
  /\ thread \in [Threads -> {"none", "new", "check", "get", "enter", "entered",
                             "wait", "execute", "end", "gone"}]
  /\ killed \in SUBSET Threads /\ current_cond \in SUBSET Threads
  /\ signalled \in SUBSET {i \in Threads : thread[i] = "wait"}
  /\ deadline \in [Threads -> Times]
  /\ LOCK_event_queue \in 0 .. MaxStarts
  /\ queue \in [Events -> Times \union {Absent}]
  /\ now \in 0 .. MaxTime
  /\ changes \in 0 .. MaxChanges /\ kills \in 0 .. MaxKills

Init ==
  /\ opt_event_scheduler = "OFF"
  /\ state = "INITIALIZED" /\ scheduler_thd = 0
  /\ LOCK_scheduler_state = Nobody
  /\ session = [c \in Sessions |-> "idle"]
  /\ thread = [i \in Threads |-> "none"]
  /\ killed = {} /\ current_cond = {} /\ signalled = {}
  /\ deadline = [i \in Threads |-> Never]
  /\ LOCK_event_queue = 0
  /\ queue = [e \in Events |-> Absent]
  /\ now = 0
  /\ changes = 0 /\ kills = 0

Goto(c, at) == session' = [session EXCEPT ![c] = at]
Run(i, at) == thread' = [thread EXCEPT ![i] = at]
LOCK_DATA == LOCK_scheduler_state = Nobody
LOCK_QUEUE_DATA == LOCK_event_queue = 0

-----------------------------------------------------------------------------
(* SET GLOBAL event_scheduler                                                *)

(* event_scheduler_update(), up to the release of the variables' mutex.      *)
Set(c) ==
  /\ session[c] = "idle"
  /\ \E v \in {"ON", "OFF"} :
       /\ opt_event_scheduler' = v
       /\ Goto(c, IF v = "ON" THEN "start" ELSE "stop")
  /\ UNCHANGED <<sched, thr, que, now, changes, kills>>

(* start(): nothing to do unless INITIALIZED, else a new thread.             *)
Start(c) ==
  /\ session[c] = "start" /\ LOCK_DATA
  /\ Goto(c, "idle")
  /\ \/ /\ state # "INITIALIZED"
        /\ UNCHANGED <<state, scheduler_thd, thread>>
     \/ /\ state = "INITIALIZED"
        /\ \E i \in Threads : /\ thread[i] = "none"
                              /\ \A j \in 1 .. i - 1 : thread[j] # "none"
                              /\ scheduler_thd' = i
                              /\ Run(i, "new")
        /\ state' = "RUNNING"
  /\ UNCHANGED <<opt_event_scheduler, LOCK_scheduler_state, killed, current_cond,
                 signalled, deadline, que, now, changes, kills>>

(* start() cannot create the thread; the variable is set back later.         *)
StartFails(c) ==
  /\ session[c] = "start" /\ LOCK_DATA /\ state = "INITIALIZED"
  /\ Goto(c, "failed")
  /\ UNCHANGED <<opt_event_scheduler, sched, thr, que, now, changes, kills>>

SetBack(c) ==
  /\ session[c] = "failed"
  /\ opt_event_scheduler' = "OFF"
  /\ Goto(c, "idle")
  /\ UNCHANGED <<sched, thr, que, now, changes, kills>>

(* The loop of stop(): STOPPING, and thd->killed is set; LOCK_scheduler_state*)
(* stays locked until the wait.                                              *)
Kill(c) ==
  /\ state' = "STOPPING"
  /\ killed' = killed \union {scheduler_thd}
  /\ LOCK_scheduler_state' = c
  /\ Goto(c, "awake")

Stop(c) ==
  /\ session[c] = "stop" /\ LOCK_DATA
  /\ \/ /\ state = "RUNNING" /\ Kill(c)
     \/ /\ state = "STOPPING" /\ Goto(c, "waiting_other")
        /\ UNCHANGED <<state, killed, LOCK_scheduler_state>>
     \/ /\ state = "INITIALIZED" /\ Goto(c, "idle")
        /\ UNCHANGED <<state, killed, LOCK_scheduler_state>>
  /\ UNCHANGED <<opt_event_scheduler, scheduler_thd, thread, current_cond, signalled,
                 deadline, que, now, changes, kills>>

(* The threads a broadcast on COND_queue_state wakes.                        *)
Sleeping == {i \in Threads : thread[i] = "wait"}

(* The rest of THD::awake(), which locks the mutex of the condition the      *)
(* thread has entered, and COND_STATE_WAIT.                                  *)
Awake(c) ==
  /\ session[c] = "awake"
  /\ \/ /\ scheduler_thd \in current_cond /\ LOCK_QUEUE_DATA
        /\ signalled' = signalled \union Sleeping
     \/ /\ scheduler_thd \notin current_cond
        /\ UNCHANGED signalled
  /\ LOCK_scheduler_state' = Nobody
  /\ Goto(c, "waiting")
  /\ UNCHANGED <<opt_event_scheduler, state, scheduler_thd, thread, killed, current_cond,
                 deadline, que, now, changes, kills>>

(* Mutant: stop() waits until it sees INITIALIZED.                           *)
StopWoken_UntilInitialized(c) ==
  /\ session[c] = "woken" /\ LOCK_DATA
  /\ \/ state = "STOPPING" /\ Kill(c)
     \/ /\ state # "STOPPING"
        /\ Goto(c, IF state = "INITIALIZED" THEN "idle" ELSE "waiting")
        /\ UNCHANGED <<state, killed, LOCK_scheduler_state>>
  /\ UNCHANGED <<opt_event_scheduler, scheduler_thd, thread, current_cond, signalled,
                 deadline, que, now, changes, kills>>

(* Mutant: stop() takes any wakeup for the answer of the thread.             *)
StopWoken_NoLoop(c) ==
  /\ session[c] = "woken" /\ LOCK_DATA
  /\ Goto(c, "idle")
  /\ UNCHANGED <<opt_event_scheduler, sched, thr, que, now, changes, kills>>

(* stop() after its wait: kills again while the state is STOPPING.           *)
StopWoken(c) ==
  /\ session[c] = "woken" /\ LOCK_DATA
  /\ \/ state = "STOPPING" /\ Kill(c)
     \/ /\ state # "STOPPING" /\ Goto(c, "idle")
        /\ UNCHANGED <<state, killed, LOCK_scheduler_state>>
  /\ UNCHANGED <<opt_event_scheduler, scheduler_thd, thread, current_cond, signalled,
                 deadline, que, now, changes, kills>>

(* stop() of a session that found the scheduler being stopped.               *)
StopOtherWoken(c) ==
  /\ session[c] = "woken_other" /\ LOCK_DATA
  /\ Goto(c, IF state = "INITIALIZED" THEN "idle" ELSE "waiting_other")
  /\ UNCHANGED <<opt_event_scheduler, sched, thr, que, now, changes, kills>>

Wakened(s) == CASE s = "waiting" -> "woken"
                [] s = "waiting_other" -> "woken_other"
                [] OTHER -> s

(* KILL of a session that waits in stop(): THD::awake() broadcasts its       *)
(* condition, COND_state, so every session that waits there looks again.     *)
KillSession(c) ==
  /\ session[c] \in {"waiting", "waiting_other"} /\ LOCK_DATA
  /\ kills < MaxKills /\ kills' = kills + 1
  /\ session' = [d \in Sessions |-> Wakened(session[d])]
  /\ UNCHANGED <<opt_event_scheduler, sched, thr, que, now, changes>>

-----------------------------------------------------------------------------
(* The scheduler thread: Event_scheduler::run()                              *)

(* compute_next_execution_time(): a one-time event keeps its time until it   *)
(* has run; a repeated one gets a time of its schedule, or has come to its   *)
(* end.  The arithmetic of schedules is not modelled.                        *)
NextTimes(e, first) ==
  IF e \in OneTime THEN {Absent} ELSE {t \in Times : t >= first} \union {Absent}

(* recalculate_activation_times()                                            *)
Recalculate(i) ==
  /\ thread[i] = "new" /\ LOCK_QUEUE_DATA
  /\ queue' \in [Events -> Times \union {Absent}]
  /\ \A e \in Events :
       IF queue[e] = Absent \/ e \in OneTime THEN queue'[e] = queue[e]
       ELSE queue'[e] \in NextTimes(e, now)
  /\ Run(i, "check")
  /\ UNCHANGED <<opt_event_scheduler, sched, session, killed, current_cond, signalled,
                 deadline, LOCK_event_queue, now, changes, kills>>

(* while (is_running())                                                      *)
Check(i) ==
  /\ thread[i] = "check" /\ LOCK_DATA
  /\ Run(i, IF state = "RUNNING" THEN "get" ELSE "end")
  /\ UNCHANGED <<opt_event_scheduler, sched, session, killed, current_cond, signalled,
                 deadline, que, now, changes, kills>>

Queued == {e \in Events : queue[e] # Absent}
Top(e) == e \in Queued /\ \A f \in Queued : queue[e] <= queue[f]

(* get_top_for_execution_if_time(): the thread is killed, the queue is empty *)
(* or not due, or there is an event to execute, and then its next time.      *)
GetTopKilled(i) ==
  /\ thread[i] = "get" /\ LOCK_QUEUE_DATA
  /\ i \in killed
  /\ Run(i, "check")
  /\ UNCHANGED <<opt_event_scheduler, sched, session, killed, current_cond, signalled,
                 deadline, que, now, changes, kills>>

GetTopLater(i) ==
  /\ thread[i] = "get" /\ LOCK_QUEUE_DATA
  /\ i \notin killed
  /\ \/ Queued = {} /\ deadline' = [deadline EXCEPT ![i] = Never]
     \/ \E e \in Events : /\ Top(e) /\ queue[e] > now
                          /\ deadline' = [deadline EXCEPT ![i] = queue[e]]
  /\ LOCK_event_queue' = i
  /\ Run(i, "enter")
  /\ UNCHANGED <<opt_event_scheduler, sched, session, killed, current_cond, signalled,
                 queue, now, changes, kills>>

GetTop(i, e) ==
  /\ thread[i] = "get" /\ LOCK_QUEUE_DATA
  /\ i \notin killed
  /\ Top(e) /\ queue[e] <= now
  /\ \E t \in NextTimes(e, now + 1) : queue' = [queue EXCEPT ![e] = t]
  /\ Run(i, "execute")
  /\ UNCHANGED <<opt_event_scheduler, sched, session, killed, current_cond, signalled,
                 deadline, LOCK_event_queue, now, changes, kills>>

(* ... or there is no memory for it, and the scheduler gives up.             *)
GetTopFails(i) ==
  /\ thread[i] = "get" /\ LOCK_QUEUE_DATA
  /\ i \notin killed
  /\ \E e \in Events : Top(e) /\ queue[e] <= now
  /\ Run(i, "end")
  /\ UNCHANGED <<opt_event_scheduler, sched, session, killed, current_cond, signalled,
                 deadline, que, now, changes, kills>>

(* cond_wait() of the queue: enter_cond(); then thd->killed is tested again  *)
(* before the wait.                                                          *)
EnterCond(i) ==
  /\ thread[i] = "enter"
  /\ current_cond' = current_cond \union {i}
  /\ Run(i, "entered")
  /\ UNCHANGED <<opt_event_scheduler, sched, session, killed, signalled, deadline,
                 que, now, changes, kills>>

(* Mutant: thd->killed is not tested again after enter_cond().               *)
CondWait_NoTest(i) ==
  /\ thread[i] = "entered"
  /\ LOCK_event_queue' = 0
  /\ Run(i, "wait")
  /\ UNCHANGED <<opt_event_scheduler, sched, session, killed, current_cond, signalled,
                 deadline, queue, now, changes, kills>>

CondWait(i) ==
  /\ thread[i] = "entered"
  /\ LOCK_event_queue' = 0
  /\ \/ i \in killed /\ Run(i, "get") /\ current_cond' = current_cond \ {i}
     \/ i \notin killed /\ Run(i, "wait") /\ UNCHANGED current_cond
  /\ UNCHANGED <<opt_event_scheduler, sched, session, killed, signalled, deadline,
                 queue, now, changes, kills>>

(* The wait ends by a signal or its time; exit_cond().                       *)
Wake(i) ==
  /\ thread[i] = "wait" /\ LOCK_QUEUE_DATA
  /\ i \in signalled \/ deadline[i] <= now
  /\ signalled' = signalled \ {i}
  /\ current_cond' = current_cond \ {i}
  /\ Run(i, "get")
  /\ UNCHANGED <<opt_event_scheduler, sched, session, killed, deadline, que, now, changes, kills>>

(* execute_top(): a worker thread, or, if it cannot be created, the end; the *)
(* variable is set only if there was memory for the THD.                     *)
Execute(i) ==
  /\ thread[i] = "execute"
  /\ \/ Run(i, "check") /\ UNCHANGED opt_event_scheduler
     \/ Run(i, "end") /\ opt_event_scheduler' \in {opt_event_scheduler, "OFF"}
  /\ UNCHANGED <<sched, session, killed, current_cond, signalled, deadline, que, now, changes, kills>>

(* Mutant: only one of the stoppers is signalled.                            *)
End_Signal(i) ==
  /\ thread[i] = "end" /\ LOCK_DATA
  /\ Run(i, "gone")
  /\ scheduler_thd' = 0
  /\ state' = "INITIALIZED"
  /\ \E c \in Sessions :
       /\ session[c] \in {"waiting", "waiting_other"}
            \/ \A d \in Sessions : session[d] \notin {"waiting", "waiting_other"}
       /\ Goto(c, Wakened(session[c]))
  /\ UNCHANGED <<opt_event_scheduler, LOCK_scheduler_state, killed, current_cond, signalled,
                 deadline, que, now, changes, kills>>

(* The end of run(): the THD is deleted and the stoppers are woken.          *)
End(i) ==
  /\ thread[i] = "end" /\ LOCK_DATA
  /\ Run(i, "gone")
  /\ scheduler_thd' = 0
  /\ state' = "INITIALIZED"
  /\ session' = [c \in Sessions |-> Wakened(session[c])]
  /\ UNCHANGED <<opt_event_scheduler, LOCK_scheduler_state, killed, current_cond, signalled,
                 deadline, que, now, changes, kills>>

-----------------------------------------------------------------------------
(* Mutant: the scheduler is not told of a new event.                         *)
PutEvent_NoBroadcast(e) ==
  /\ LOCK_QUEUE_DATA
  /\ changes < MaxChanges /\ changes' = changes + 1
  /\ \E t \in {u \in Times : u >= now} : queue' = [queue EXCEPT ![e] = t]
  /\ UNCHANGED <<opt_event_scheduler, sched, session, thr, LOCK_event_queue, now, kills>>

(* The queue: create_event() and update_event() broadcast, drop_event() does *)
(* not.  queue_insert_safe() may find no memory: then the event is in the    *)
(* queue no more, the old entry being removed before.  The clock goes on by  *)
(* itself.                                                                   *)
PutEvent(e) ==
  /\ LOCK_QUEUE_DATA
  /\ changes < MaxChanges /\ changes' = changes + 1
  /\ \E t \in {u \in Times : u >= now} \union {Absent} : queue' = [queue EXCEPT ![e] = t]
  /\ signalled' = signalled \union Sleeping
  /\ UNCHANGED <<opt_event_scheduler, sched, session, thread, killed, current_cond,
                 deadline, LOCK_event_queue, now, kills>>

DropEvent(e) ==
  /\ LOCK_QUEUE_DATA /\ queue[e] # Absent
  /\ changes < MaxChanges /\ changes' = changes + 1
  /\ queue' = [queue EXCEPT ![e] = Absent]
  /\ UNCHANGED <<opt_event_scheduler, sched, session, thr, LOCK_event_queue, now, kills>>

Tick ==
  /\ now < MaxTime /\ now' = now + 1
  /\ UNCHANGED <<opt_event_scheduler, sched, session, thr, que, changes, kills>>

-----------------------------------------------------------------------------
Call(c) == Start(c) \/ SetBack(c) \/ Stop(c) \/ Awake(c) \/ StopWoken(c) \/ StopOtherWoken(c)
Scheduler(i) ==
  \/ Recalculate(i) \/ Check(i) \/ GetTopKilled(i) \/ GetTopLater(i)
  \/ \E e \in Events : GetTop(i, e)
  \/ EnterCond(i) \/ CondWait(i) \/ Wake(i) \/ Execute(i) \/ End(i)

Next ==
  \/ \E c \in Sessions : Set(c) \/ StartFails(c) \/ Call(c) \/ KillSession(c)
  \/ \E i \in Threads : Scheduler(i) \/ GetTopFails(i)
  \/ \E e \in Events : PutEvent(e) \/ DropEvent(e)
  \/ Tick

Spec == Init /\ [][Next]_vars

(* A call goes on and the scheduler thread is scheduled; nobody has to set   *)
(* the variable, change the queue or kill a session.                         *)
Fairness ==
  /\ \A c \in Sessions : WF_vars(Call(c))
  /\ \A i \in Threads : WF_vars(Scheduler(i))

FairSpec == Spec /\ Fairness
=============================================================================
