--------------------------- MODULE StatementTimer ---------------------------
(***************************************************************************)
(* The statement timeout: sql/sql_timer.cc over mysys/posix_timers.c, with *)
(* the parts of a connection that use it (mysql_execute_command(),         *)
(* THD::awake(), KILL and the end of the connection).                      *)
(*                                                                         *)
(* A connection arms a POSIX timer when a statement starts and disarms it  *)
(* when the statement ends.  When the timer expires the kernel queues a    *)
(* signal for the one notification thread, which kills the statement.  The *)
(* statement may end while that signal is on its way: then the timer       *)
(* object is orphaned and the notification thread deletes it.              *)
(*                                                                         *)
(* One action is one critical section of thd_timer_t::mutex or             *)
(* THD::LOCK_thd_data, one system call, or the work of one thread on data  *)
(* that only it can reach.                                                 *)
(***************************************************************************)
EXTENDS Naturals

CONSTANTS
  Sessions,   \* addresses of THD objects
  Timers,     \* addresses of thd_timer_t objects
  None        \* the null pointer

ASSUME NoneAssumption == None \notin Sessions \cup Timers

VARIABLES
  allocated,    \* the thd_timer_t objects that exist
  thd,          \* Timers -> thd_timer_t::thd
  destroy,      \* Timers -> thd_timer_t::destroy
  mutex,        \* the timers whose mutex the notification thread holds
  armed,        \* kernel: the timers that run
  queued,       \* kernel: expired timers whose signal was not taken yet
  timer,        \* Sessions -> THD::timer
  timer_cache,  \* Sessions -> THD::timer_cache
  killed,       \* Sessions -> THD::killed
  vio,          \* the sessions whose socket is open
  pending,      \* Sessions -> argument of reap_timer()
  pc,           \* Sessions -> where its thread is
  note          \* the notification thread: where it is, its timer, its thd

object == <<allocated, thd, destroy, mutex>>
kernel == <<armed, queued>>
session == <<timer, timer_cache, killed, vio, pending, pc>>
vars == <<object, kernel, session, note>>

KilledStates == {"NOT_KILLED", "KILL_QUERY", "KILL_TIMEOUT", "KILL_CONNECTION"}

TypeOK ==
  /\ allocated \in SUBSET Timers
  /\ thd \in [Timers -> Sessions \cup {None}]
  /\ destroy \in [Timers -> BOOLEAN]
  /\ mutex \in SUBSET Timers
  /\ armed \in SUBSET Timers
  /\ queued \in SUBSET Timers
  /\ timer \in [Sessions -> Timers \cup {None}]
  /\ timer_cache \in [Sessions -> Timers \cup {None}]
  /\ killed \in [Sessions -> KilledStates]
  /\ vio \in SUBSET Sessions
  /\ pending \in [Sessions -> BOOLEAN]
  /\ pc \in [Sessions -> {"gone", "idle", "execute", "reap", "report", "clear"}]
  /\ note \in [at : {"wait", "lock", "notify", "unlock", "destroy", "exit"},
               ttp : Timers \cup {None}, thd : Sessions \cup {None}]

Waiting == [at |-> "wait", ttp |-> None, thd |-> None]

Init ==
  /\ allocated = {}
  /\ thd = [t \in Timers |-> None]
  /\ destroy = [t \in Timers |-> FALSE]
  /\ mutex = {}
  /\ armed = {}
  /\ queued = {}
  /\ timer = [s \in Sessions |-> None]
  /\ timer_cache = [s \in Sessions |-> None]
  /\ killed = [s \in Sessions |-> "NOT_KILLED"]
  /\ vio = {}
  /\ pending = [s \in Sessions |-> FALSE]
  /\ pc = [s \in Sessions |-> "gone"]
  /\ note = Waiting

At(s, label) == pc[s] = label
Goto(s, label) == pc' = [pc EXCEPT ![s] = label]

-----------------------------------------------------------------------------
(* The connection *)

\* A new THD, with killed = NOT_KILLED and both timer pointers NULL.
Connect(s) ==
  /\ At(s, "gone")
  /\ note.at # "exit"
  /\ killed' = [killed EXCEPT ![s] = "NOT_KILLED"]
  /\ vio' = vio \cup {s}
  /\ Goto(s, "idle")
  /\ UNCHANGED <<object, kernel, timer, timer_cache, pending, note>>

\* thd_is_connection_alive(), and do_command() reads a statement.
CanExecute(s) == At(s, "idle") /\ killed[s] # "KILL_CONNECTION" /\ s \in vio

\* A statement without a time limit, or one inside a stored program.
ExecuteUnlimited(s) ==
  /\ CanExecute(s)
  /\ Goto(s, "execute")
  /\ UNCHANGED <<object, kernel, timer, timer_cache, killed, vio, pending, note>>

\* thd_timer_create() is called only when there is no cached object.
Obtainable(s) ==
  IF timer_cache[s] # None THEN {timer_cache[s]} ELSE Timers \ allocated

\* set_statement_timer(): the timer object of the cache or a new one is armed.
SetStatementTimer(s) ==
  /\ CanExecute(s)
  /\ \E t \in Obtainable(s) :
       /\ allocated' = allocated \cup {t}
       /\ destroy' = [destroy EXCEPT ![t] = IF timer_cache[s] = t THEN @ ELSE FALSE]
       /\ thd' = [thd EXCEPT ![t] = s]
       /\ armed' = armed \cup {t}
       /\ timer' = [timer EXCEPT ![s] = t]
  /\ timer_cache' = [timer_cache EXCEPT ![s] = None]
  /\ Goto(s, "execute")
  /\ UNCHANGED <<mutex, queued, killed, vio, pending, note>>

\* set_statement_timer() when no timer can be created or armed: a cached object
\* is deleted, and the statement runs without a limit.
SetTimerFailed(s) ==
  /\ CanExecute(s)
  /\ allocated' = allocated \ {timer_cache[s]}
  /\ timer_cache' = [timer_cache EXCEPT ![s] = None]
  /\ Goto(s, "execute")
  /\ UNCHANGED <<thd, destroy, mutex, kernel, timer, killed, vio, pending, note>>

\* The statement is over: my_timer_reset() stops the timer and tells whether it
\* was still running; when the call fails the timer goes on.
FinishStatement(s) ==
  LET t == timer[s]
  IN /\ At(s, "execute")
     /\ \/ /\ t = None
           /\ Goto(s, "report")
           /\ UNCHANGED <<armed, pending>>
        \/ /\ t # None
           /\ Goto(s, "reap")
           /\ \/ pending' = [pending EXCEPT ![s] = t \notin armed] /\ armed' = armed \ {t}
              \/ pending' = [pending EXCEPT ![s] = TRUE] /\ UNCHANGED armed
     /\ UNCHANGED <<object, queued, timer, timer_cache, killed, vio, note>>

\* reap_timer(): nobody else can reach the object if the timer was stopped
\* before it expired, or its notification has been handled.
Unreachable(s) == pending[s] => thd[timer[s]] = None

\* Mutant: the statement does not wait for a notification in progress.
ReapTimer_NoMutex(s) ==
  LET t == timer[s]
  IN /\ At(s, "reap")
     /\ thd' = [thd EXCEPT ![t] = None]
     /\ destroy' = [destroy EXCEPT ![t] = ~Unreachable(s)]
     /\ timer_cache' = [timer_cache EXCEPT ![s] = IF Unreachable(s) THEN t ELSE None]
     /\ timer' = [timer EXCEPT ![s] = None]
     /\ pending' = [pending EXCEPT ![s] = FALSE]
     /\ Goto(s, "report")
     /\ UNCHANGED <<allocated, mutex, kernel, killed, vio, note>>

\* thd_timer_reset() under the mutex of the object, and reset_statement_timer().
ReapTimer(s) ==
  LET t == timer[s]
  IN /\ At(s, "reap")
     /\ t \notin mutex
     /\ thd' = [thd EXCEPT ![t] = None]
     /\ destroy' = [destroy EXCEPT ![t] = ~Unreachable(s)]
     /\ timer_cache' = [timer_cache EXCEPT ![s] = IF Unreachable(s) THEN t ELSE None]
     /\ timer' = [timer EXCEPT ![s] = None]
     /\ pending' = [pending EXCEPT ![s] = FALSE]
     /\ Goto(s, "report")
     /\ UNCHANGED <<allocated, mutex, kernel, killed, vio, note>>

\* Mutant: the timeout is not among the states that end with the statement.
StatementKills_NoTimeout == {"KILL_QUERY"}

\* The kills that end with the statement.
StatementKills == {"KILL_QUERY", "KILL_TIMEOUT"}

\* The end of mysql_execute_command(): killed is tested ...
ReportKilled(s) ==
  /\ At(s, "report")
  /\ Goto(s, IF killed[s] \in StatementKills THEN "clear" ELSE "idle")
  /\ UNCHANGED <<object, kernel, timer, timer_cache, killed, vio, pending, note>>

\* ... and then cleared, without LOCK_thd_data.
ClearKilled(s) ==
  /\ At(s, "clear")
  /\ killed' = [killed EXCEPT ![s] = "NOT_KILLED"]
  /\ Goto(s, "idle")
  /\ UNCHANGED <<object, kernel, timer, timer_cache, vio, pending, note>>

\* The client leaves, the read fails or the loop of do_handle_one_connection()
\* ends; ~THD() deletes the cached timer object.  killed is left as a new THD
\* will have it.
Disconnect(s) ==
  /\ At(s, "idle")
  /\ allocated' = allocated \ {timer_cache[s]}
  /\ timer_cache' = [timer_cache EXCEPT ![s] = None]
  /\ vio' = vio \ {s}
  /\ killed' = [killed EXCEPT ![s] = "NOT_KILLED"]
  /\ Goto(s, "gone")
  /\ UNCHANGED <<thd, destroy, mutex, kernel, timer, pending, note>>

\* Mutant: a KILL of the connection always leaves the socket open.
Awake_LeavesSocket(s, state, self) ==
  /\ killed' = [killed EXCEPT ![s] = state]
  /\ UNCHANGED vio

\* THD::awake(), with LOCK_thd_data held: the new state replaces the old one.  A
\* KILL of the connection also closes the socket (SIGNAL_WITH_VIO_CLOSE), unless
\* the thread calls it for itself.
Awake(s, state, self) ==
  /\ killed' = [killed EXCEPT ![s] = state]
  /\ vio' = IF state = "KILL_CONNECTION" /\ ~self THEN vio \ {s} ELSE vio

\* kill_one_thread(): KILL and KILL QUERY of a connection, by another one at any
\* time or by itself in a statement.
KillOneThread(s, state, self) ==
  /\ ~At(s, "gone")
  /\ self => At(s, "execute")
  /\ killed[s] # "KILL_CONNECTION"
  /\ Awake(s, state, self)
  /\ UNCHANGED <<object, kernel, timer, timer_cache, pending, pc, note>>

-----------------------------------------------------------------------------
(* The kernel and the notification thread *)

\* The time is up.
Expire(t) ==
  /\ t \in armed
  /\ armed' = armed \ {t}
  /\ queued' = queued \cup {t}
  /\ UNCHANGED <<object, session, note>>

\* sigwaitinfo() returns a signal; timer_callback() is entered.
TakeSignal(t) ==
  /\ note.at = "wait"
  /\ t \in queued
  /\ queued' = queued \ {t}
  /\ note' = [Waiting EXCEPT !.at = "lock", !.ttp = t]
  /\ UNCHANGED <<object, armed, session>>

\* timer_callback() locks the object; timer_notify() reads its session ...
LockTimer ==
  /\ note.at = "lock"
  /\ mutex' = mutex \cup {note.ttp}
  /\ note' = [note EXCEPT !.at = "notify", !.thd = thd[note.ttp]]
  /\ UNCHANGED <<allocated, thd, destroy, kernel, session>>

\* Mutant: the notification only marks the timer.
TimerNotify_NoKill ==
  /\ note.at = "notify"
  /\ note' = [note EXCEPT !.at = "unlock"]
  /\ UNCHANGED <<object, kernel, session>>

\* ... and kills the statement, unless the session has let go of the timer.
TimerNotify ==
  /\ note.at = "notify"
  /\ IF note.thd # None
       THEN Awake(note.thd, "KILL_TIMEOUT", FALSE)
       ELSE UNCHANGED <<killed, vio>>
  /\ note' = [note EXCEPT !.at = "unlock"]
  /\ UNCHANGED <<object, kernel, timer, timer_cache, pending, pc>>

\* The object is marked as unreachable and unlocked; an orphan is deleted next.
UnlockTimer ==
  LET t == note.ttp
  IN /\ note.at = "unlock"
     /\ thd' = [thd EXCEPT ![t] = None]
     /\ mutex' = mutex \ {t}
     /\ note' = IF destroy[t] THEN [note EXCEPT !.at = "destroy"]
                              ELSE Waiting
     /\ UNCHANGED <<allocated, destroy, kernel, session>>

\* thd_timer_destroy() of an orphan.
DestroyOrphan ==
  /\ note.at = "destroy"
  /\ allocated' = allocated \ {note.ttp}
  /\ note' = Waiting
  /\ UNCHANGED <<thd, destroy, mutex, kernel, session>>

\* my_timer_deinit(), after the connections are closed: the signal that stops
\* the thread has the higher number and is taken after all the others.
TimerDeinit ==
  /\ \A s \in Sessions : At(s, "gone")
  /\ note.at = "wait"
  /\ queued = {}
  /\ note' = [note EXCEPT !.at = "exit"]
  /\ UNCHANGED <<object, kernel, session>>

Notifier ==
  \/ \E t \in Timers : TakeSignal(t)
  \/ LockTimer
  \/ TimerNotify
  \/ UnlockTimer
  \/ DestroyOrphan

\* What a connection does by itself.
Proceed(s) ==
  \/ ReapTimer(s)
  \/ ReportKilled(s)
  \/ ClearKilled(s)

Next ==
  \/ \E s \in Sessions :
       \/ Connect(s) \/ ExecuteUnlimited(s) \/ SetStatementTimer(s)
       \/ SetTimerFailed(s) \/ FinishStatement(s) \/ Proceed(s) \/ Disconnect(s)
       \/ \E state \in {"KILL_QUERY", "KILL_CONNECTION"}, self \in BOOLEAN :
            KillOneThread(s, state, self)
  \/ \E t \in Timers : Expire(t)
  \/ Notifier
  \/ TimerDeinit

Spec == Init /\ [][Next]_vars

\* Timers expire, threads run, realtime signals are delivered in the order they
\* were queued, a statement that was killed notices it, and a connection that was
\* killed or whose socket is closed finds out when it wants to read.
Fairness ==
  /\ \A t \in Timers : WF_vars(Expire(t)) /\ SF_vars(TakeSignal(t))
  /\ WF_vars(Notifier)
  /\ \A s \in Sessions :
       /\ WF_vars(Proceed(s))
       /\ WF_vars(killed[s] # "NOT_KILLED" /\ FinishStatement(s))
       /\ WF_vars((s \notin vio \/ killed[s] = "KILL_CONNECTION") /\ Disconnect(s))

FairSpec == Spec /\ Fairness

-----------------------------------------------------------------------------
(* Properties *)

\* A statement is being executed, or is not yet over.
InStatement(s) == pc[s] \in {"execute", "reap", "report", "clear"}

\* The timers a thread or the kernel can still touch.
Handled == queued \cup armed \cup ({note.ttp} \ {None})

\* No use after free: the objects that connections and the notification thread
\* point to, and those whose signal is still to come, exist; and the connection
\* a notification is about to kill exists.
TimerMemorySafe ==
  /\ Handled \subseteq allocated
  /\ \A s \in Sessions : {timer[s], timer_cache[s]} \ {None} \subseteq allocated
  /\ note.at = "notify" /\ note.thd # None => ~At(note.thd, "gone")

\* Every timer object has exactly one owner who will delete or reuse it: one
\* connection, or, once it is orphaned, the notification that is still to come.
OneOwner ==
  \A t \in allocated :
    IF destroy[t]
      THEN t \in Handled /\ \A s \in Sessions : t \notin {timer[s], timer_cache[s]}
      ELSE \E s \in Sessions :
             /\ t \in {timer[s], timer_cache[s]}
             /\ timer[s] # timer_cache[s]
             /\ \A r \in Sessions \ {s} : t \notin {timer[r], timer_cache[r]}

\* A timeout hits the statement it was set for: a session is found killed by
\* timeout only until that statement is over, and while it is being executed
\* only if it has a time limit and the time is up.
OnlyOwnStatement ==
  \A s \in Sessions : killed[s] = "KILL_TIMEOUT" =>
    /\ InStatement(s)
    /\ At(s, "execute") => timer[s] # None /\ timer[s] \notin armed

\* The DBUG_ASSERTs of thd_timer_set(), reap_timer() and timer_notify().
AssertionsHold ==
  /\ \A s \in Sessions :
       /\ timer_cache[s] # None => thd[timer_cache[s]] = None /\ ~destroy[timer_cache[s]]
       /\ At(s, "reap") =>
            ~destroy[timer[s]] /\ (pending[s] \/ thd[timer[s]] # None)
  /\ note.at = "notify" => ~destroy[note.ttp] \/ thd[note.ttp] = None

\* A statement with a time limit does not run for ever.
TimeoutDelivered ==
  \A s \in Sessions :
    (At(s, "execute") /\ timer[s] # None) ~> (~At(s, "execute") \/ killed[s] # "NOT_KILLED")

\* What tells a KILL of a connection by itself, which leaves the socket open, when
\* the statement has a timer that may still call awake().
SelfKillTimed(s) == s \in vio /\ timer[s] # None

\* KILL of a connection by another one ends it, even if a timeout replaces
\* KILL_CONNECTION or the end of the statement clears it: the socket is closed.
\* KILL of a connection by itself ends it too, if no timer is set.
KillTakesEffect ==
  \A s \in Sessions :
    (killed[s] = "KILL_CONNECTION" /\ InStatement(s) /\ ~SelfKillTimed(s)) ~> At(s, "gone")

\* What the comment in THD::awake() says of a thread that kills itself and whose
\* socket is therefore left open: it "will check thd->killed before [it goes] for
\* reading the next statement", so that every KILL ends the connection.  A timeout
\* replaces KILL_CONNECTION, and the end of the statement clears KILL_TIMEOUT.
EveryKillTakesEffect ==
  \A s \in Sessions : (killed[s] = "KILL_CONNECTION" /\ InStatement(s)) ~> At(s, "gone")

-----------------------------------------------------------------------------
(* The inductive invariant of StatementTimerProofs *)

\* Who has which timer: one at most for each session, and none for two of them.
OwnersInv ==
  \A s \in Sessions :
    /\ timer[s] = None \/ timer_cache[s] = None
    /\ timer[s] # None => pc[s] \in {"execute", "reap"}
    /\ At(s, "reap") => timer[s] # None
    /\ timer_cache[s] # None => ~At(s, "gone")
    /\ \A r \in Sessions \ {s}, t \in Timers :
         t \in {timer[s], timer_cache[s]} => t \notin {timer[r], timer_cache[r]}

\* The timer of a statement points back to it exactly as long as the
\* notification may come, or was prevented from coming.
SetInv ==
  \A s \in Sessions, t \in Timers : timer[s] = t =>
    /\ t \in allocated
    /\ ~destroy[t]
    /\ thd[t] \in {s, None}
    /\ IF At(s, "reap") /\ ~pending[s]
         THEN thd[t] = s /\ t \notin Handled
         ELSE thd[t] = s <=> t \in Handled

\* A cached timer is out of everybody's reach.
CacheInv ==
  \A s \in Sessions, t \in Timers : timer_cache[s] = t =>
    t \in allocated /\ ~destroy[t] /\ thd[t] = None /\ t \notin Handled

\* A timer points to a session only while it is the timer of its statement, and
\* any other timer that exists is an orphan that will be deleted.
OrphanInv ==
  /\ \A t \in Timers, s \in Sessions : thd[t] = s => timer[s] = t
  /\ \A t \in allocated :
       \/ \E s \in Sessions : t \in {timer[s], timer_cache[s]}
       \/ destroy[t] /\ t \in Handled

\* One notification at a time for each timer.
KernelInv ==
  /\ Handled \subseteq allocated
  /\ armed \cap queued = {}
  /\ note.ttp \notin armed \cup queued

\* The notification thread: its mutex, and what it read under it.
NoteInv ==
  /\ note.ttp = None <=> note.at \in {"wait", "exit"}
  /\ mutex = IF note.at \in {"notify", "unlock"} THEN {note.ttp} ELSE {}
  /\ note.at \in {"notify", "unlock"} => note.thd = thd[note.ttp]
  /\ note.at = "destroy" => destroy[note.ttp] /\ thd[note.ttp] = None

\* Everything the proofs need of a reachable state.
TimerInv ==
  /\ TypeOK
  /\ OwnersInv
  /\ SetInv
  /\ CacheInv
  /\ OrphanInv
  /\ KernelInv
  /\ NoteInv
  /\ OnlyOwnStatement
=============================================================================
