------------------------ MODULE EventSchedulerProofs ------------------------
(***************************************************************************)
(* Proofs, for any number of sessions, events and scheduler threads, that  *)
(* there is one scheduler at a time, that stop() cannot miss it, and that  *)
(* stop() returns only when it is gone.                                    *)
(***************************************************************************)
EXTENDS EventSchedulerProperties, TLAPS

(* Who holds the two mutexes, and which threads have entered the queue's   *)
(* condition.                                                              *)
LockInv ==
  /\ \A c \in Sessions : session[c] = "awake" <=> LOCK_scheduler_state = c
  /\ \A i \in Threads : thread[i] \in {"enter", "entered"} <=> LOCK_event_queue = i
  /\ \A i \in Threads : i \in current_cond <=> thread[i] \in {"entered", "wait"}

(* A thread has been killed exactly if it is being stopped or is gone.     *)
StopInv ==
  /\ state = "STOPPING" <=> scheduler_thd \in killed
  /\ \A i \in killed : thread[i] # "none"
  /\ LOCK_scheduler_state # Nobody => state = "STOPPING"

EventInv == Consistent /\ LockInv /\ StopInv

-----------------------------------------------------------------------------
(* SET GLOBAL event_scheduler.                                             *)
LEMMA SetStep ==
  ASSUME EventInv, NEW c \in Sessions, Set(c)
  PROVE  EventInv'
<1>. USE BoundsAssumption, SessionsAssumption DEF EventInv, Consistent, TypeOK, LockInv,
        StopInv, Threads, Nobody, LOCK_DATA, LOCK_QUEUE_DATA, sched, thr, que,
        Set, Goto
<1>1. TypeOK'
  BY SMTT(30) DEF Times, Never, Absent
<1>2. OneScheduler'
  BY DEF OneScheduler, Alive
<1>3. NoLostKill'
  BY DEF OneScheduler, Alive, NoLostKill
<1>4. LockInv' /\ StopInv'
  BY DEF OneScheduler, Alive
<1>. QED BY <1>1, <1>2, <1>3, <1>4

(* start()                                                                 *)
LEMMA StartStep ==
  ASSUME EventInv, NEW c \in Sessions, Start(c)
  PROVE  EventInv'
<1>. USE BoundsAssumption, SessionsAssumption DEF EventInv, Consistent, TypeOK, LockInv,
        StopInv, Threads, Nobody, LOCK_DATA, LOCK_QUEUE_DATA, sched, thr, que,
        Start, Goto, Run
<1>1. TypeOK'
  <2>1. signalled' \in SUBSET {j \in Threads : thread'[j] = "wait"}
    OBVIOUS
  <2>2. thread' \in [Threads -> {"none", "new", "check", "get", "enter", "entered",
                                  "wait", "execute", "end", "gone"}]
    OBVIOUS
  <2>3. scheduler_thd' \in 0 .. MaxStarts /\ state' \in {"INITIALIZED", "RUNNING", "STOPPING"}
    OBVIOUS
  <2>4. session' \in [Sessions -> {"idle", "start", "failed", "stop", "awake",
                                   "waiting", "woken", "waiting_other", "woken_other"}]
    OBVIOUS
  <2>. QED BY <2>1, <2>2, <2>3, <2>4 DEF Times, Never, Absent
<1>2. OneScheduler'
  BY DEF OneScheduler, Alive
<1>3. NoLostKill'
  BY DEF OneScheduler, Alive, NoLostKill
<1>4. LockInv' /\ StopInv'
  <2>1. LockInv'
    BY DEF OneScheduler, Alive
  <2>2. StopInv'
    BY DEF OneScheduler, Alive
  <2>. QED BY <2>1, <2>2
<1>. QED BY <1>1, <1>2, <1>3, <1>4

(* start() fails ...                                                       *)
LEMMA StartFailsStep ==
  ASSUME EventInv, NEW c \in Sessions, StartFails(c)
  PROVE  EventInv'
<1>. USE BoundsAssumption, SessionsAssumption DEF EventInv, Consistent, TypeOK, LockInv,
        StopInv, Threads, Nobody, LOCK_DATA, LOCK_QUEUE_DATA, sched, thr, que,
        StartFails, Goto
<1>1. TypeOK'
  BY SMTT(30) DEF Times, Never, Absent
<1>2. OneScheduler'
  BY DEF OneScheduler, Alive
<1>3. NoLostKill'
  BY DEF OneScheduler, Alive, NoLostKill
<1>4. LockInv' /\ StopInv'
  BY DEF OneScheduler, Alive
<1>. QED BY <1>1, <1>2, <1>3, <1>4

(* ... and the variable is set back.                                       *)
LEMMA SetBackStep ==
  ASSUME EventInv, NEW c \in Sessions, SetBack(c)
  PROVE  EventInv'
<1>. USE BoundsAssumption, SessionsAssumption DEF EventInv, Consistent, TypeOK, LockInv,
        StopInv, Threads, Nobody, LOCK_DATA, LOCK_QUEUE_DATA, sched, thr, que,
        SetBack, Goto
<1>1. TypeOK'
  BY SMTT(30) DEF Times, Never, Absent
<1>2. OneScheduler'
  BY DEF OneScheduler, Alive
<1>3. NoLostKill'
  BY DEF OneScheduler, Alive, NoLostKill
<1>4. LockInv' /\ StopInv'
  BY DEF OneScheduler, Alive
<1>. QED BY <1>1, <1>2, <1>3, <1>4

(* stop(), with LOCK_scheduler_state kept for THD::awake().                *)
LEMMA StopStep ==
  ASSUME EventInv, NEW c \in Sessions, Stop(c)
  PROVE  EventInv'
<1>. USE BoundsAssumption, SessionsAssumption DEF EventInv, Consistent, TypeOK, LockInv,
        StopInv, Threads, Nobody, LOCK_DATA, LOCK_QUEUE_DATA, sched, thr, que,
        Stop, Kill, Goto
<1>1. TypeOK'
  <2>1. state = "RUNNING" => scheduler_thd \in Threads
    BY DEF OneScheduler
  <2>. QED BY <2>1
<1>2. OneScheduler'
  BY DEF OneScheduler, Alive
<1>3. NoLostKill'
  BY DEF OneScheduler, Alive, NoLostKill
<1>4. LockInv' /\ StopInv'
  <2>1. LockInv'
    OBVIOUS
  <2>2. state # "INITIALIZED" => scheduler_thd \in Threads /\ thread[scheduler_thd] # "none"
    BY DEF OneScheduler, Alive
  <2>3. StopInv'
    BY <2>2
  <2>. QED BY <2>1, <2>3
<1>. QED BY <1>1, <1>2, <1>3, <1>4

(* THD::awake(): a thread that sleeps is signalled.                        *)
LEMMA AwakeStep ==
  ASSUME EventInv, NEW c \in Sessions, Awake(c)
  PROVE  EventInv'
<1>. USE BoundsAssumption, SessionsAssumption DEF EventInv, Consistent, TypeOK, LockInv,
        StopInv, Threads, Nobody, LOCK_DATA, LOCK_QUEUE_DATA, sched, thr, que,
        Awake, Sleeping, Goto
<1>1. TypeOK'
  BY DEF Times, Never, Absent
<1>2. OneScheduler'
  BY DEF OneScheduler, Alive
<1>3. NoLostKill'
  BY DEF OneScheduler, Alive, NoLostKill
<1>4. LockInv' /\ StopInv'
  BY DEF OneScheduler, Alive
<1>. QED BY <1>1, <1>2, <1>3, <1>4

(* stop() looks again.                                                     *)
LEMMA StopWokenStep ==
  ASSUME EventInv, NEW c \in Sessions, StopWoken(c)
  PROVE  EventInv'
<1>. USE BoundsAssumption, SessionsAssumption DEF EventInv, Consistent, TypeOK, LockInv,
        StopInv, Threads, Nobody, LOCK_DATA, LOCK_QUEUE_DATA, sched, thr, que,
        StopWoken, Kill, Goto
<1>1. TypeOK'
  BY DEF Times, Never, Absent
<1>2. OneScheduler'
  BY DEF OneScheduler, Alive
<1>3. NoLostKill'
  BY DEF OneScheduler, Alive, NoLostKill
<1>4. LockInv' /\ StopInv'
  <2>1. LockInv'
    OBVIOUS
  <2>2. state # "INITIALIZED" => scheduler_thd \in Threads /\ thread[scheduler_thd] # "none"
    BY DEF OneScheduler, Alive
  <2>3. StopInv'
    BY <2>2
  <2>. QED BY <2>1, <2>3
<1>. QED BY <1>1, <1>2, <1>3, <1>4

(* The second stop() looks again.                                          *)
LEMMA StopOtherWokenStep ==
  ASSUME EventInv, NEW c \in Sessions, StopOtherWoken(c)
  PROVE  EventInv'
<1>. USE BoundsAssumption, SessionsAssumption DEF EventInv, Consistent, TypeOK, LockInv,
        StopInv, Threads, Nobody, LOCK_DATA, LOCK_QUEUE_DATA, sched, thr, que,
        StopOtherWoken, Goto
<1>1. TypeOK'
  BY SMTT(30) DEF Times, Never, Absent
<1>2. OneScheduler'
  BY DEF OneScheduler, Alive
<1>3. NoLostKill'
  BY DEF OneScheduler, Alive, NoLostKill
<1>4. LockInv' /\ StopInv'
  BY DEF OneScheduler, Alive
<1>. QED BY <1>1, <1>2, <1>3, <1>4

(* KILL of a session in stop().                                            *)
LEMMA KillSessionStep ==
  ASSUME EventInv, NEW c \in Sessions, KillSession(c)
  PROVE  EventInv'
<1>. USE BoundsAssumption, SessionsAssumption DEF EventInv, Consistent, TypeOK, LockInv,
        StopInv, Threads, Nobody, LOCK_DATA, LOCK_QUEUE_DATA, sched, thr, que,
        KillSession, Wakened, Goto
<1>1. TypeOK'
  <2>1. session' \in [Sessions -> {"idle", "start", "failed", "stop", "awake",
                                   "waiting", "woken", "waiting_other", "woken_other"}]
    OBVIOUS
  <2>2. kills' \in 0 .. MaxKills
    OBVIOUS
  <2>3. UNCHANGED <<opt_event_scheduler, sched, thr, que, now, changes>>
    BY DEF KillSession
  <2>. QED BY <2>1, <2>2, <2>3, SMTT(30)
<1>2. OneScheduler'
  BY DEF OneScheduler, Alive
<1>3. NoLostKill'
  BY DEF OneScheduler, Alive, NoLostKill
<1>4. LockInv' /\ StopInv'
  BY DEF OneScheduler, Alive
<1>. QED BY <1>1, <1>2, <1>3, <1>4

(* recalculate_activation_times()                                          *)
LEMMA RecalculateStep ==
  ASSUME EventInv, NEW i \in Threads, Recalculate(i)
  PROVE  EventInv'
<1>. USE BoundsAssumption, SessionsAssumption DEF EventInv, Consistent, TypeOK, LockInv,
        StopInv, Threads, Nobody, LOCK_DATA, LOCK_QUEUE_DATA, sched, thr, que,
        Recalculate, NextTimes, Run
<1>1. TypeOK'
  BY SMTT(30) DEF Times, Never, Absent
<1>2. OneScheduler'
  BY DEF OneScheduler, Alive
<1>3. NoLostKill'
  BY DEF OneScheduler, Alive, NoLostKill
<1>4. LockInv' /\ StopInv'
  BY DEF OneScheduler, Alive
<1>. QED BY <1>1, <1>2, <1>3, <1>4

(* is_running()                                                            *)
LEMMA CheckStep ==
  ASSUME EventInv, NEW i \in Threads, Check(i)
  PROVE  EventInv'
<1>. USE BoundsAssumption, SessionsAssumption DEF EventInv, Consistent, TypeOK, LockInv,
        StopInv, Threads, Nobody, LOCK_DATA, LOCK_QUEUE_DATA, sched, thr, que,
        Check, Run
<1>1. TypeOK'
  BY SMTT(30) DEF Times, Never, Absent
<1>2. OneScheduler'
  BY DEF OneScheduler, Alive
<1>3. NoLostKill'
  BY DEF OneScheduler, Alive, NoLostKill
<1>4. LockInv' /\ StopInv'
  BY DEF OneScheduler, Alive
<1>. QED BY <1>1, <1>2, <1>3, <1>4

(* get_top_for_execution_if_time() of a thread that is killed,             *)
LEMMA GetTopKilledStep ==
  ASSUME EventInv, NEW i \in Threads, GetTopKilled(i)
  PROVE  EventInv'
<1>. USE BoundsAssumption, SessionsAssumption DEF EventInv, Consistent, TypeOK, LockInv,
        StopInv, Threads, Nobody, LOCK_DATA, LOCK_QUEUE_DATA, sched, thr, que,
        GetTopKilled, Run
<1>1. TypeOK'
  BY SMTT(30) DEF Times, Never, Absent
<1>2. OneScheduler'
  BY DEF OneScheduler, Alive
<1>3. NoLostKill'
  BY DEF OneScheduler, Alive, NoLostKill
<1>4. LockInv' /\ StopInv'
  BY DEF OneScheduler, Alive
<1>. QED BY <1>1, <1>2, <1>3, <1>4

(* before the first event is due,                                          *)
LEMMA GetTopLaterStep ==
  ASSUME EventInv, NEW i \in Threads, GetTopLater(i)
  PROVE  EventInv'
<1>. USE BoundsAssumption, SessionsAssumption DEF EventInv, Consistent, TypeOK, LockInv,
        StopInv, Threads, Nobody, LOCK_DATA, LOCK_QUEUE_DATA, sched, thr, que,
        GetTopLater, Top, Queued, Run
<1>1. TypeOK'
  BY SMTT(30) DEF Times, Never, Absent
<1>2. OneScheduler'
  BY DEF OneScheduler, Alive
<1>3. NoLostKill'
  BY DEF OneScheduler, Alive, NoLostKill
<1>4. LockInv' /\ StopInv'
  BY DEF OneScheduler, Alive
<1>. QED BY <1>1, <1>2, <1>3, <1>4

(* when it is due,                                                         *)
LEMMA GetTopStep ==
  ASSUME EventInv, NEW i \in Threads, NEW e \in Events, GetTop(i, e)
  PROVE  EventInv'
<1>. USE BoundsAssumption, SessionsAssumption DEF EventInv, Consistent, TypeOK, LockInv,
        StopInv, Threads, Nobody, LOCK_DATA, LOCK_QUEUE_DATA, sched, thr, que,
        GetTop, NextTimes, Run
<1>1. TypeOK'
  BY SMTT(30) DEF Times, Never, Absent
<1>2. OneScheduler'
  BY DEF OneScheduler, Alive
<1>3. NoLostKill'
  BY DEF OneScheduler, Alive, NoLostKill
<1>4. LockInv' /\ StopInv'
  BY DEF OneScheduler, Alive
<1>. QED BY <1>1, <1>2, <1>3, <1>4

(* and without memory.                                                     *)
LEMMA GetTopFailsStep ==
  ASSUME EventInv, NEW i \in Threads, GetTopFails(i)
  PROVE  EventInv'
<1>. USE BoundsAssumption, SessionsAssumption DEF EventInv, Consistent, TypeOK, LockInv,
        StopInv, Threads, Nobody, LOCK_DATA, LOCK_QUEUE_DATA, sched, thr, que,
        GetTopFails, Run
<1>1. TypeOK'
  BY SMTT(30) DEF Times, Never, Absent
<1>2. OneScheduler'
  BY DEF OneScheduler, Alive
<1>3. NoLostKill'
  BY DEF OneScheduler, Alive, NoLostKill
<1>4. LockInv' /\ StopInv'
  BY DEF OneScheduler, Alive
<1>. QED BY <1>1, <1>2, <1>3, <1>4

(* THD::enter_cond()                                                       *)
LEMMA EnterCondStep ==
  ASSUME EventInv, NEW i \in Threads, EnterCond(i)
  PROVE  EventInv'
<1>. USE BoundsAssumption, SessionsAssumption DEF EventInv, Consistent, TypeOK, LockInv,
        StopInv, Threads, Nobody, LOCK_DATA, LOCK_QUEUE_DATA, sched, thr, que,
        EnterCond, Run
<1>1. TypeOK'
  BY SMTT(30) DEF Times, Never, Absent
<1>2. OneScheduler'
  BY DEF OneScheduler, Alive
<1>3. NoLostKill'
  BY DEF OneScheduler, Alive, NoLostKill
<1>4. LockInv' /\ StopInv'
  BY DEF OneScheduler, Alive
<1>. QED BY <1>1, <1>2, <1>3, <1>4

(* thd->killed is tested again, then the wait.                             *)
LEMMA CondWaitStep ==
  ASSUME EventInv, NEW i \in Threads, CondWait(i)
  PROVE  EventInv'
<1>. USE BoundsAssumption, SessionsAssumption DEF EventInv, Consistent, TypeOK, LockInv,
        StopInv, Threads, Nobody, LOCK_DATA, LOCK_QUEUE_DATA, sched, thr, que,
        CondWait, Run
<1>1. TypeOK'
  <2>1. signalled' \in SUBSET {j \in Threads : thread'[j] = "wait"}
    OBVIOUS
  <2>2. thread' \in [Threads -> {"none", "new", "check", "get", "enter", "entered",
                                  "wait", "execute", "end", "gone"}]
    OBVIOUS
  <2>3. current_cond' \in SUBSET Threads
    <3>1. current_cond' = current_cond \ {i} \/ current_cond' = current_cond
      OBVIOUS
    <3>2. current_cond \in SUBSET Threads
      OBVIOUS
    <3>. QED BY ONLY <3>1, <3>2
  <2>4. LOCK_event_queue' \in 0 .. MaxStarts
    OBVIOUS
  <2>. QED BY <2>1, <2>2, <2>3, <2>4 DEF Times, Never, Absent
<1>2. OneScheduler'
  BY DEF OneScheduler, Alive
<1>3. NoLostKill'
  BY DEF OneScheduler, Alive, NoLostKill
<1>4. LockInv' /\ StopInv'
  BY SMTT(30) DEF OneScheduler, Alive
<1>. QED BY <1>1, <1>2, <1>3, <1>4

(* The wait ends.                                                          *)
LEMMA WakeStep ==
  ASSUME EventInv, NEW i \in Threads, Wake(i)
  PROVE  EventInv'
<1>. USE BoundsAssumption, SessionsAssumption DEF EventInv, Consistent, TypeOK, LockInv,
        StopInv, Threads, Nobody, LOCK_DATA, LOCK_QUEUE_DATA, sched, thr, que,
        Wake, Run
<1>1. TypeOK'
  BY SMTT(30) DEF Times, Never, Absent
<1>2. OneScheduler'
  BY DEF OneScheduler, Alive
<1>3. NoLostKill'
  BY DEF OneScheduler, Alive, NoLostKill
<1>4. LockInv' /\ StopInv'
  BY DEF OneScheduler, Alive
<1>. QED BY <1>1, <1>2, <1>3, <1>4

(* execute_top()                                                           *)
LEMMA ExecuteStep ==
  ASSUME EventInv, NEW i \in Threads, Execute(i)
  PROVE  EventInv'
<1>. USE BoundsAssumption, SessionsAssumption DEF EventInv, Consistent, TypeOK, LockInv,
        StopInv, Threads, Nobody, LOCK_DATA, LOCK_QUEUE_DATA, sched, thr, que,
        Execute, Run
<1>1. TypeOK'
  BY SMTT(30) DEF Times, Never, Absent
<1>2. OneScheduler'
  BY DEF OneScheduler, Alive
<1>3. NoLostKill'
  BY DEF OneScheduler, Alive, NoLostKill
<1>4. LockInv' /\ StopInv'
  BY DEF OneScheduler, Alive
<1>. QED BY <1>1, <1>2, <1>3, <1>4

(* The end of run(): nobody is left.                                       *)
LEMMA EndStep ==
  ASSUME EventInv, NEW i \in Threads, End(i)
  PROVE  EventInv'
<1>. USE BoundsAssumption, SessionsAssumption DEF EventInv, Consistent, TypeOK, LockInv,
        StopInv, Threads, Nobody, LOCK_DATA, LOCK_QUEUE_DATA, sched, thr, que,
        End, Wakened, Run
<1>1. TypeOK'
  BY SMTT(30) DEF Times, Never, Absent
<1>2. OneScheduler'
  BY SMTT(30) DEF OneScheduler, Alive
<1>3. NoLostKill'
  BY DEF OneScheduler, Alive, NoLostKill
<1>4. LockInv' /\ StopInv'
  BY DEF OneScheduler, Alive
<1>. QED BY <1>1, <1>2, <1>3, <1>4

(* CREATE and ALTER EVENT.                                                 *)
LEMMA PutEventStep ==
  ASSUME EventInv, NEW e \in Events, PutEvent(e)
  PROVE  EventInv'
<1>. USE BoundsAssumption, SessionsAssumption DEF EventInv, Consistent, TypeOK, LockInv,
        StopInv, Threads, Nobody, LOCK_DATA, LOCK_QUEUE_DATA, sched, thr, que,
        PutEvent, Sleeping
<1>1. TypeOK'
  <2>1. queue' \in [Events -> Times \union {Absent}]
    OBVIOUS
  <2>2. signalled' \in SUBSET {j \in Threads : thread'[j] = "wait"}
    OBVIOUS
  <2>3. changes' \in 0 .. MaxChanges
    OBVIOUS
  <2>. QED BY <2>1, <2>2, <2>3
<1>2. OneScheduler'
  BY DEF OneScheduler, Alive
<1>3. NoLostKill'
  BY DEF OneScheduler, Alive, NoLostKill
<1>4. LockInv' /\ StopInv'
  BY DEF OneScheduler, Alive
<1>. QED BY <1>1, <1>2, <1>3, <1>4

(* DROP EVENT.                                                             *)
LEMMA DropEventStep ==
  ASSUME EventInv, NEW e \in Events, DropEvent(e)
  PROVE  EventInv'
<1>. USE BoundsAssumption, SessionsAssumption DEF EventInv, Consistent, TypeOK, LockInv,
        StopInv, Threads, Nobody, LOCK_DATA, LOCK_QUEUE_DATA, sched, thr, que,
        DropEvent
<1>1. TypeOK'
  BY SMTT(30) DEF Times, Never, Absent
<1>2. OneScheduler'
  BY DEF OneScheduler, Alive
<1>3. NoLostKill'
  BY DEF OneScheduler, Alive, NoLostKill
<1>4. LockInv' /\ StopInv'
  BY DEF OneScheduler, Alive
<1>. QED BY <1>1, <1>2, <1>3, <1>4

(* The clock.                                                              *)
LEMMA TickStep ==
  ASSUME EventInv, Tick
  PROVE  EventInv'
<1>. USE BoundsAssumption, SessionsAssumption DEF EventInv, Consistent, TypeOK, LockInv,
        StopInv, Threads, Nobody, LOCK_DATA, LOCK_QUEUE_DATA, sched, thr, que,
        Tick
<1>1. TypeOK'
  BY SMTT(30) DEF Times, Never, Absent
<1>2. OneScheduler'
  BY DEF OneScheduler, Alive
<1>3. NoLostKill'
  BY DEF OneScheduler, Alive, NoLostKill
<1>4. LockInv' /\ StopInv'
  BY DEF OneScheduler, Alive
<1>. QED BY <1>1, <1>2, <1>3, <1>4

-----------------------------------------------------------------------------
LEMMA InitEventInv == Init => EventInv
<1>. USE BoundsAssumption, SessionsAssumption DEF Init, Threads, Nobody
<1>1. Init => TypeOK
  BY DEF TypeOK, Times, Never, Absent
<1>2. Init => OneScheduler /\ NoLostKill /\ LockInv /\ StopInv
  BY DEF OneScheduler, Alive, NoLostKill, LockInv, StopInv
<1>. QED BY <1>1, <1>2 DEF EventInv, Consistent

LEMMA NextEventInv == EventInv /\ [Next]_vars => EventInv'
<1>. SUFFICES ASSUME EventInv, [Next]_vars PROVE EventInv'
  OBVIOUS
<1>1. CASE UNCHANGED vars
  BY <1>1 DEF vars, sched, thr, que, EventInv, Consistent, TypeOK, OneScheduler, Alive,
              NoLostKill, LockInv, StopInv
<1>2. ASSUME NEW c \in Sessions, Set(c) \/ StartFails(c) \/ Call(c) \/ KillSession(c)
      PROVE  EventInv'
  BY <1>2, SetStep, StartFailsStep, KillSessionStep, StartStep, SetBackStep, StopStep,
     AwakeStep, StopWokenStep, StopOtherWokenStep DEF Call
<1>3. ASSUME NEW i \in Threads, Scheduler(i) \/ GetTopFails(i)
      PROVE  EventInv'
  BY <1>3, GetTopFailsStep, RecalculateStep, CheckStep, GetTopKilledStep, GetTopLaterStep,
     GetTopStep, EnterCondStep, CondWaitStep, WakeStep, ExecuteStep, EndStep DEF Scheduler
<1>4. ASSUME NEW e \in Events, PutEvent(e) \/ DropEvent(e)
      PROVE  EventInv'
  BY <1>4, PutEventStep, DropEventStep
<1>. QED BY <1>1, <1>2, <1>3, <1>4, TickStep DEF Next

(* The inductive invariant of the scheduler: who holds which mutex, which  *)
(* threads are in the condition, and which have been killed.               *)
THEOREM EventInvariant == Spec => []EventInv
BY InitEventInv, NextEventInv, PTL DEF Spec

(* However many sessions start and stop the scheduler, there is at most    *)
(* one thread, scheduler_thd is its THD, and no kill is missed by a thread *)
(* that goes to sleep on the queue.                                        *)
THEOREM OneSchedulerAtATime == Spec => []Consistent
<1>1. EventInv => Consistent
  BY DEF EventInv
<1>. QED BY <1>1, EventInvariant, PTL

(* stop() returns from its wait only when every thread that was told to    *)
(* stop has ended.                                                         *)
THEOREM StopIsSynchronous == Spec => StoppedMeansGone
<1>1. ASSUME EventInv, [Next]_vars, NEW c \in Sessions,
             session[c] \in {"woken", "woken_other"}, session'[c] = "idle"
      PROVE  \A i \in killed : thread[i] = "gone"
  <2>1. state # "STOPPING" => \A i \in killed : thread[i] = "gone"
    BY <1>1 DEF EventInv, Consistent, TypeOK, OneScheduler, Alive, StopInv, Threads
  <2>2. CASE UNCHANGED vars
    BY <1>1, <2>2 DEF vars
  <2>3. ASSUME NEW d \in Sessions, Set(d) \/ StartFails(d) \/ Call(d) \/ KillSession(d)
        PROVE  state # "STOPPING"
    BY <1>1, <2>3 DEF EventInv, Consistent, TypeOK, Goto, Kill, Wakened, Set, StartFails,
       KillSession, Call, Start, SetBack, Stop, Awake, StopWoken, StopOtherWoken
  <2>4. CASE \E i \in Threads : Scheduler(i) \/ GetTopFails(i)
    <3>. PICK i \in Threads : Scheduler(i) \/ GetTopFails(i)
      BY <2>4
    <3>1. CASE End(i)
      BY <1>1, <3>1 DEF End, Wakened
    <3>2. CASE ~End(i)
      BY <1>1, <3>2 DEF Scheduler, GetTopFails, Recalculate, Check, GetTopKilled,
         GetTopLater, GetTop, EnterCond, CondWait, Wake, Execute
    <3>. QED BY <3>1, <3>2
  <2>5. CASE Tick \/ \E e \in Events : PutEvent(e) \/ DropEvent(e)
    BY <1>1, <2>5 DEF Tick, PutEvent, DropEvent
  <2>. QED BY <1>1, <2>1, <2>2, <2>3, <2>4, <2>5 DEF Next
<1>2. EventInv /\ [Next]_vars =>
        [\A c \in Sessions :
           session[c] \in {"woken", "woken_other"} /\ session'[c] = "idle"
             => \A i \in killed : thread[i] = "gone"]_vars
  BY <1>1
<1>. QED BY <1>2, EventInvariant, PTL DEF Spec, StoppedMeansGone
=============================================================================
