------------------------ MODULE StatementTimerProofs ------------------------
(***************************************************************************)
(* Proofs about StatementTimer for any number of connections and timers.   *)
(***************************************************************************)
EXTENDS StatementTimer, TLAPS

-----------------------------------------------------------------------------
(* Every action preserves the inductive invariant, part by part *)

LEMMA ConnectPreserves ==
  ASSUME TimerInv, NEW s \in Sessions, Connect(s)
  PROVE  TimerInv'
<1>1. TypeOK'
  BY NoneAssumption DEF TimerInv, TypeOK, KilledStates, Connect, At, Goto,
    object, kernel
<1>2. OwnersInv'
  BY NoneAssumption DEF TimerInv, TypeOK, OwnersInv, At, Connect, Goto,
    object, kernel
<1>3. SetInv'
  BY NoneAssumption DEF TimerInv, TypeOK, SetInv, At, Handled, Connect, Goto,
    object, kernel
<1>4. CacheInv'
  BY NoneAssumption DEF TimerInv, TypeOK, CacheInv, Handled, Connect, At,
    Goto, object, kernel
<1>5. OrphanInv'
  BY NoneAssumption DEF TimerInv, TypeOK, OrphanInv, Handled, Connect, At,
    Goto, object, kernel
<1>6. KernelInv'
  BY NoneAssumption DEF TimerInv, TypeOK, KernelInv, Handled, Connect, At,
    Goto, object, kernel
<1>7. NoteInv'
  BY NoneAssumption DEF TimerInv, TypeOK, NoteInv, Connect, At, Goto, object,
    kernel
<1>8. OnlyOwnStatement'
  BY NoneAssumption DEF TimerInv, TypeOK, OnlyOwnStatement, At, InStatement,
    Connect, Goto, object, kernel
<1> QED
  BY <1>1, <1>2, <1>3, <1>4, <1>5, <1>6, <1>7, <1>8 DEF TimerInv

LEMMA ExecuteUnlimitedPreserves ==
  ASSUME TimerInv, NEW s \in Sessions, ExecuteUnlimited(s)
  PROVE  TimerInv'
<1>1. TypeOK'
  BY NoneAssumption DEF TimerInv, TypeOK, KilledStates, ExecuteUnlimited,
    CanExecute, At, Goto, object, kernel
<1>2. OwnersInv'
  BY NoneAssumption DEF TimerInv, TypeOK, OwnersInv, At, ExecuteUnlimited,
    CanExecute, Goto, object, kernel
<1>3. SetInv'
  BY NoneAssumption DEF TimerInv, TypeOK, SetInv, At, Handled,
    ExecuteUnlimited, CanExecute, Goto, object, kernel
<1>4. CacheInv'
  BY NoneAssumption DEF TimerInv, TypeOK, CacheInv, Handled, ExecuteUnlimited,
    CanExecute, At, Goto, object, kernel
<1>5. OrphanInv'
  BY NoneAssumption DEF TimerInv, TypeOK, OrphanInv, Handled,
    ExecuteUnlimited, CanExecute, At, Goto, object, kernel
<1>6. KernelInv'
  BY NoneAssumption DEF TimerInv, TypeOK, KernelInv, Handled,
    ExecuteUnlimited, CanExecute, At, Goto, object, kernel
<1>7. NoteInv'
  BY NoneAssumption DEF TimerInv, TypeOK, NoteInv, ExecuteUnlimited,
    CanExecute, At, Goto, object, kernel
<1>8. OnlyOwnStatement'
  BY NoneAssumption DEF TimerInv, TypeOK, OnlyOwnStatement, At, InStatement,
    ExecuteUnlimited, CanExecute, Goto, object, kernel
<1> QED
  BY <1>1, <1>2, <1>3, <1>4, <1>5, <1>6, <1>7, <1>8 DEF TimerInv

LEMMA SetStatementTimerPreserves ==
  ASSUME TimerInv, NEW s \in Sessions, SetStatementTimer(s)
  PROVE  TimerInv'
<1>1. TypeOK'
  <2>1. PICK t \in Obtainable(s) :
          /\ allocated' = allocated \cup {t}
          /\ destroy' = [destroy EXCEPT ![t] = IF timer_cache[s] = t THEN @ ELSE FALSE]
          /\ thd' = [thd EXCEPT ![t] = s]
          /\ armed' = armed \cup {t}
          /\ timer' = [timer EXCEPT ![s] = t]
    BY DEF SetStatementTimer
  <2>2. t \in Timers
    BY NoneAssumption DEF TimerInv, TypeOK, Obtainable
  <2>3. destroy' \in [Timers -> BOOLEAN]
    BY <2>1, <2>2, Zenon DEF TimerInv, TypeOK
  <2> QED
    BY <2>1, <2>2, <2>3 DEF TimerInv, TypeOK, KilledStates, SetStatementTimer, Goto
<1>2. OwnersInv'
  BY NoneAssumption DEF TimerInv, TypeOK, OwnersInv, At, SetInv, Handled,
    CacheInv, SetStatementTimer, CanExecute, Obtainable, Goto
<1>3. SetInv'
  BY NoneAssumption DEF TimerInv, TypeOK, SetInv, At, Handled, OwnersInv,
    CacheInv, SetStatementTimer, CanExecute, Obtainable, Goto
<1>4. CacheInv'
  BY NoneAssumption DEF TimerInv, TypeOK, CacheInv, Handled, OwnersInv, At,
    SetStatementTimer, CanExecute, Obtainable, Goto
<1>5. OrphanInv'
  BY NoneAssumption DEF TimerInv, TypeOK, OrphanInv, Handled, OwnersInv, At,
    SetStatementTimer, CanExecute, Obtainable, Goto
<1>6. KernelInv'
  BY NoneAssumption DEF TimerInv, TypeOK, KernelInv, Handled, CacheInv,
    SetStatementTimer, CanExecute, Obtainable, At, Goto
<1>7. NoteInv'
  BY NoneAssumption DEF TimerInv, TypeOK, NoteInv, CacheInv, Handled,
    KernelInv, SetStatementTimer, CanExecute, Obtainable, At, Goto
<1>8. OnlyOwnStatement'
  BY NoneAssumption DEF TimerInv, TypeOK, OnlyOwnStatement, At, InStatement,
    OwnersInv, SetInv, Handled, SetStatementTimer, CanExecute, Obtainable,
    Goto
<1> QED
  BY <1>1, <1>2, <1>3, <1>4, <1>5, <1>6, <1>7, <1>8 DEF TimerInv

LEMMA SetTimerFailedPreserves ==
  ASSUME TimerInv, NEW s \in Sessions, SetTimerFailed(s)
  PROVE  TimerInv'
<1>1. TypeOK'
  BY NoneAssumption DEF TimerInv, TypeOK, KilledStates, SetTimerFailed,
    CanExecute, At, Goto, kernel
<1>2. OwnersInv'
  BY NoneAssumption DEF TimerInv, TypeOK, OwnersInv, At, SetTimerFailed,
    CanExecute, Goto, kernel
<1>3. SetInv'
  BY NoneAssumption DEF TimerInv, TypeOK, SetInv, At, Handled, OwnersInv,
    SetTimerFailed, CanExecute, Goto, kernel
<1>4. CacheInv'
  BY NoneAssumption DEF TimerInv, TypeOK, CacheInv, Handled, OwnersInv, At,
    SetTimerFailed, CanExecute, Goto, kernel
<1>5. OrphanInv'
  BY NoneAssumption DEF TimerInv, TypeOK, OrphanInv, Handled, SetTimerFailed,
    CanExecute, At, Goto, kernel
<1>6. KernelInv'
  BY NoneAssumption DEF TimerInv, TypeOK, KernelInv, Handled, CacheInv,
    SetTimerFailed, CanExecute, At, Goto, kernel
<1>7. NoteInv'
  BY NoneAssumption DEF TimerInv, TypeOK, NoteInv, SetTimerFailed, CanExecute,
    At, Goto, kernel
<1>8. OnlyOwnStatement'
  BY NoneAssumption DEF TimerInv, TypeOK, OnlyOwnStatement, At, InStatement,
    SetTimerFailed, CanExecute, Goto, kernel
<1> QED
  BY <1>1, <1>2, <1>3, <1>4, <1>5, <1>6, <1>7, <1>8 DEF TimerInv

LEMMA FinishStatementPreserves ==
  ASSUME TimerInv, NEW s \in Sessions, FinishStatement(s)
  PROVE  TimerInv'
<1>1. TypeOK'
  <2>1. pending' \in [Sessions -> BOOLEAN]
    <3>1. (timer[s] \notin armed) \in BOOLEAN
      OBVIOUS
    <3> QED
      BY <3>1, Zenon DEF TimerInv, TypeOK, FinishStatement
  <2> QED
    BY <2>1 DEF TimerInv, TypeOK, KilledStates, FinishStatement, Goto, object
<1>2. OwnersInv'
  BY DEF TimerInv, TypeOK, OwnersInv, At, FinishStatement, Goto
<1>3. SetInv'
  <2>1. /\ UNCHANGED <<object, queued, timer, note>>
        /\ pc[s] = "execute"
    BY DEF FinishStatement, At
  <2>2. SUFFICES ASSUME NEW c \in Sessions, NEW t \in Timers, timer[c] = t
                 PROVE  IF pc'[c] = "reap" /\ ~pending'[c]
                          THEN thd[t] = c /\ t \notin Handled'
                          ELSE thd[t] = c <=> t \in Handled'
    BY <2>1 DEF TimerInv, SetInv, At, object
  <2>3. IF pc[c] = "reap" /\ ~pending[c]
          THEN thd[t] = c /\ t \notin Handled
          ELSE thd[t] = c <=> t \in Handled
    BY <2>2 DEF TimerInv, SetInv, At
  <2>4. CASE c # s
    <3>1. timer[s] # t
      BY <2>2, <2>4 DEF TimerInv, OwnersInv
    <3>2. t \in Handled' <=> t \in Handled
      <4>1. t \in armed' <=> t \in armed
        BY <3>1 DEF FinishStatement
      <4> QED
        BY <4>1, <2>1 DEF Handled
    <3>3. pc'[c] = pc[c]
      BY <2>4 DEF TimerInv, TypeOK, FinishStatement, Goto
    <3>4. pending'[c] = pending[c]
      BY <2>4, Zenon DEF TimerInv, TypeOK, FinishStatement
    <3> QED
      BY <2>3, <3>2, <3>3, <3>4
  <2>5. CASE c = s
    <3>1. t # None /\ timer[s] = t /\ (thd[t] = c <=> t \in Handled)
      BY <2>1, <2>2, <2>3, <2>5, NoneAssumption
    <3>2. pc'[c] = "reap"
      BY <2>5, <3>1 DEF TimerInv, TypeOK, FinishStatement, Goto
    <3>3. CASE /\ pending' = [pending EXCEPT ![s] = timer[s] \notin armed]
               /\ armed' = armed \ {timer[s]}
      <4>1. pending'[c] <=> t \notin armed
        BY <2>5, <3>1, <3>3, Zenon DEF TimerInv, TypeOK
      <4>2. CASE t \in armed
        BY <2>1, <3>1, <3>2, <3>3, <4>1, <4>2 DEF TimerInv, KernelInv, Handled
      <4>3. CASE t \notin armed
        BY <2>1, <3>1, <3>3, <4>1, <4>3 DEF Handled
      <4> QED
        BY <4>2, <4>3
    <3>4. CASE pending' = [pending EXCEPT ![s] = TRUE] /\ UNCHANGED armed
      <4>1. pending'[c]
        BY <2>5, <3>4, Zenon DEF TimerInv, TypeOK
      <4> QED
        BY <2>1, <3>1, <3>4, <4>1 DEF Handled
    <3> QED
      BY <3>1, <3>3, <3>4 DEF FinishStatement
  <2> QED
    BY <2>4, <2>5
<1>4. CacheInv'
  BY NoneAssumption DEF TimerInv, TypeOK, CacheInv, Handled, FinishStatement,
    At, Goto, object
<1>5. OrphanInv'
  BY NoneAssumption DEF TimerInv, TypeOK, OrphanInv, Handled, FinishStatement,
    At, Goto, object
<1>6. KernelInv'
  BY NoneAssumption DEF TimerInv, TypeOK, KernelInv, Handled, FinishStatement,
    At, Goto, object
<1>7. NoteInv'
  BY NoneAssumption DEF TimerInv, TypeOK, NoteInv, FinishStatement, At, Goto,
    object
<1>8. OnlyOwnStatement'
  BY NoneAssumption DEF TimerInv, TypeOK, OnlyOwnStatement, At, InStatement,
    FinishStatement, Goto, object
<1> QED
  BY <1>1, <1>2, <1>3, <1>4, <1>5, <1>6, <1>7, <1>8 DEF TimerInv

LEMMA ReapTimerPreserves ==
  ASSUME TimerInv, NEW s \in Sessions, ReapTimer(s)
  PROVE  TimerInv'
<1>1. TypeOK'
  BY NoneAssumption DEF TimerInv, TypeOK, KilledStates, ReapTimer,
    Unreachable, At, Goto, kernel
<1>2. OwnersInv'
  BY NoneAssumption DEF TimerInv, TypeOK, OwnersInv, At, ReapTimer,
    Unreachable, Goto, kernel
<1>3. SetInv'
  BY NoneAssumption DEF TimerInv, TypeOK, SetInv, At, Handled, ReapTimer,
    Unreachable, Goto, kernel
<1>4. CacheInv'
  BY NoneAssumption DEF TimerInv, TypeOK, CacheInv, Handled, SetInv, At,
    ReapTimer, Unreachable, Goto, kernel
<1>5. OrphanInv'
  BY NoneAssumption DEF TimerInv, TypeOK, OrphanInv, Handled, OwnersInv, At,
    SetInv, ReapTimer, Unreachable, Goto, kernel
<1>6. KernelInv'
  BY NoneAssumption DEF TimerInv, TypeOK, KernelInv, Handled, ReapTimer,
    Unreachable, At, Goto, kernel
<1>7. NoteInv'
  BY NoneAssumption DEF TimerInv, TypeOK, NoteInv, SetInv, At, Handled,
    ReapTimer, Unreachable, Goto, kernel
<1>8. OnlyOwnStatement'
  BY NoneAssumption DEF TimerInv, TypeOK, OnlyOwnStatement, At, InStatement,
    ReapTimer, Unreachable, Goto, kernel
<1> QED
  BY <1>1, <1>2, <1>3, <1>4, <1>5, <1>6, <1>7, <1>8 DEF TimerInv

LEMMA ReportKilledPreserves ==
  ASSUME TimerInv, NEW s \in Sessions, ReportKilled(s)
  PROVE  TimerInv'
<1>1. TypeOK'
  BY NoneAssumption DEF TimerInv, TypeOK, KilledStates, ReportKilled,
    StatementKills, At, Goto, object, kernel
<1>2. OwnersInv'
  BY NoneAssumption DEF TimerInv, TypeOK, OwnersInv, At, ReportKilled,
    StatementKills, Goto, object, kernel
<1>3. SetInv'
  BY NoneAssumption DEF TimerInv, TypeOK, SetInv, At, Handled, ReportKilled,
    StatementKills, Goto, object, kernel
<1>4. CacheInv'
  BY NoneAssumption DEF TimerInv, TypeOK, CacheInv, Handled, ReportKilled,
    StatementKills, At, Goto, object, kernel
<1>5. OrphanInv'
  BY NoneAssumption DEF TimerInv, TypeOK, OrphanInv, Handled, ReportKilled,
    StatementKills, At, Goto, object, kernel
<1>6. KernelInv'
  BY NoneAssumption DEF TimerInv, TypeOK, KernelInv, Handled, ReportKilled,
    StatementKills, At, Goto, object, kernel
<1>7. NoteInv'
  BY NoneAssumption DEF TimerInv, TypeOK, NoteInv, ReportKilled,
    StatementKills, At, Goto, object, kernel
<1>8. OnlyOwnStatement'
  BY NoneAssumption DEF TimerInv, TypeOK, OnlyOwnStatement, At, InStatement,
    ReportKilled, StatementKills, Goto, object, kernel
<1> QED
  BY <1>1, <1>2, <1>3, <1>4, <1>5, <1>6, <1>7, <1>8 DEF TimerInv

LEMMA ClearKilledPreserves ==
  ASSUME TimerInv, NEW s \in Sessions, ClearKilled(s)
  PROVE  TimerInv'
<1>1. TypeOK'
  BY NoneAssumption DEF TimerInv, TypeOK, KilledStates, ClearKilled, At, Goto,
    object, kernel
<1>2. OwnersInv'
  BY NoneAssumption DEF TimerInv, TypeOK, OwnersInv, At, ClearKilled, Goto,
    object, kernel
<1>3. SetInv'
  BY NoneAssumption DEF TimerInv, TypeOK, SetInv, At, Handled, ClearKilled,
    Goto, object, kernel
<1>4. CacheInv'
  BY NoneAssumption DEF TimerInv, TypeOK, CacheInv, Handled, ClearKilled, At,
    Goto, object, kernel
<1>5. OrphanInv'
  BY NoneAssumption DEF TimerInv, TypeOK, OrphanInv, Handled, ClearKilled, At,
    Goto, object, kernel
<1>6. KernelInv'
  BY NoneAssumption DEF TimerInv, TypeOK, KernelInv, Handled, ClearKilled, At,
    Goto, object, kernel
<1>7. NoteInv'
  BY NoneAssumption DEF TimerInv, TypeOK, NoteInv, ClearKilled, At, Goto,
    object, kernel
<1>8. OnlyOwnStatement'
  BY NoneAssumption DEF TimerInv, TypeOK, OnlyOwnStatement, At, InStatement,
    ClearKilled, Goto, object, kernel
<1> QED
  BY <1>1, <1>2, <1>3, <1>4, <1>5, <1>6, <1>7, <1>8 DEF TimerInv

LEMMA DisconnectPreserves ==
  ASSUME TimerInv, NEW s \in Sessions, Disconnect(s)
  PROVE  TimerInv'
<1>1. TypeOK'
  BY NoneAssumption DEF TimerInv, TypeOK, KilledStates, Disconnect, At, Goto,
    kernel
<1>2. OwnersInv'
  BY NoneAssumption DEF TimerInv, TypeOK, OwnersInv, At, Disconnect, Goto,
    kernel
<1>3. SetInv'
  BY NoneAssumption DEF TimerInv, TypeOK, SetInv, At, Handled, OwnersInv,
    Disconnect, Goto, kernel
<1>4. CacheInv'
  BY NoneAssumption DEF TimerInv, TypeOK, CacheInv, Handled, OwnersInv, At,
    Disconnect, Goto, kernel
<1>5. OrphanInv'
  BY NoneAssumption DEF TimerInv, TypeOK, OrphanInv, Handled, Disconnect, At,
    Goto, kernel
<1>6. KernelInv'
  BY NoneAssumption DEF TimerInv, TypeOK, KernelInv, Handled, CacheInv,
    Disconnect, At, Goto, kernel
<1>7. NoteInv'
  BY NoneAssumption DEF TimerInv, TypeOK, NoteInv, Disconnect, At, Goto,
    kernel
<1>8. OnlyOwnStatement'
  BY NoneAssumption DEF TimerInv, TypeOK, OnlyOwnStatement, At, InStatement,
    Disconnect, Goto, kernel
<1> QED
  BY <1>1, <1>2, <1>3, <1>4, <1>5, <1>6, <1>7, <1>8 DEF TimerInv

LEMMA KillOneThreadPreserves ==
  ASSUME TimerInv, NEW s \in Sessions, NEW state \in {"KILL_QUERY", "KILL_CONNECTION"},
         NEW self \in BOOLEAN, KillOneThread(s, state, self)
  PROVE  TimerInv'
<1>1. TypeOK'
  BY NoneAssumption DEF TimerInv, TypeOK, KilledStates, KillOneThread, Awake,
    At, object, kernel
<1>2. OwnersInv'
  BY NoneAssumption DEF TimerInv, TypeOK, OwnersInv, At, KillOneThread, Awake,
    object, kernel
<1>3. SetInv'
  BY NoneAssumption DEF TimerInv, TypeOK, SetInv, At, Handled, KillOneThread,
    Awake, object, kernel
<1>4. CacheInv'
  BY NoneAssumption DEF TimerInv, TypeOK, CacheInv, Handled, KillOneThread,
    Awake, At, object, kernel
<1>5. OrphanInv'
  BY NoneAssumption DEF TimerInv, TypeOK, OrphanInv, Handled, KillOneThread,
    Awake, At, object, kernel
<1>6. KernelInv'
  BY NoneAssumption DEF TimerInv, TypeOK, KernelInv, Handled, KillOneThread,
    Awake, At, object, kernel
<1>7. NoteInv'
  BY NoneAssumption DEF TimerInv, TypeOK, NoteInv, KillOneThread, Awake, At,
    object, kernel
<1>8. OnlyOwnStatement'
  BY NoneAssumption DEF TimerInv, TypeOK, OnlyOwnStatement, At, InStatement,
    KillOneThread, Awake, object, kernel
<1> QED
  BY <1>1, <1>2, <1>3, <1>4, <1>5, <1>6, <1>7, <1>8 DEF TimerInv

LEMMA ExpirePreserves ==
  ASSUME TimerInv, NEW t \in Timers, Expire(t)
  PROVE  TimerInv'
<1>1. TypeOK'
  BY NoneAssumption DEF TimerInv, TypeOK, KilledStates, Expire, object,
    session
<1>2. OwnersInv'
  BY NoneAssumption DEF TimerInv, TypeOK, OwnersInv, At, Expire, object,
    session
<1>3. SetInv'
  BY NoneAssumption DEF TimerInv, TypeOK, SetInv, At, Handled, Expire, object,
    session
<1>4. CacheInv'
  BY NoneAssumption DEF TimerInv, TypeOK, CacheInv, Handled, Expire, object,
    session
<1>5. OrphanInv'
  BY NoneAssumption DEF TimerInv, TypeOK, OrphanInv, Handled, Expire, object,
    session
<1>6. KernelInv'
  BY NoneAssumption DEF TimerInv, TypeOK, KernelInv, Handled, Expire, object,
    session
<1>7. NoteInv'
  BY NoneAssumption DEF TimerInv, TypeOK, NoteInv, Expire, object, session
<1>8. OnlyOwnStatement'
  BY NoneAssumption DEF TimerInv, TypeOK, OnlyOwnStatement, At, InStatement,
    Expire, object, session
<1> QED
  BY <1>1, <1>2, <1>3, <1>4, <1>5, <1>6, <1>7, <1>8 DEF TimerInv

LEMMA TakeSignalPreserves ==
  ASSUME TimerInv, NEW t \in Timers, TakeSignal(t)
  PROVE  TimerInv'
<1>1. TypeOK'
  BY NoneAssumption DEF TimerInv, TypeOK, KilledStates, TakeSignal, Waiting,
    object, session
<1>2. OwnersInv'
  BY NoneAssumption DEF TimerInv, TypeOK, OwnersInv, At, TakeSignal, Waiting,
    object, session
<1>3. SetInv'
  BY NoneAssumption DEF TimerInv, TypeOK, SetInv, At, Handled, NoteInv,
    TakeSignal, Waiting, object, session
<1>4. CacheInv'
  BY NoneAssumption DEF TimerInv, TypeOK, CacheInv, Handled, TakeSignal,
    Waiting, object, session
<1>5. OrphanInv'
  BY NoneAssumption DEF TimerInv, TypeOK, OrphanInv, Handled, NoteInv,
    TakeSignal, Waiting, object, session
<1>6. KernelInv'
  BY NoneAssumption DEF TimerInv, TypeOK, KernelInv, Handled, TakeSignal,
    Waiting, object, session
<1>7. NoteInv'
  BY NoneAssumption DEF TimerInv, TypeOK, NoteInv, TakeSignal, Waiting,
    object, session
<1>8. OnlyOwnStatement'
  BY NoneAssumption DEF TimerInv, TypeOK, OnlyOwnStatement, At, InStatement,
    TakeSignal, Waiting, object, session
<1> QED
  BY <1>1, <1>2, <1>3, <1>4, <1>5, <1>6, <1>7, <1>8 DEF TimerInv

LEMMA LockTimerPreserves ==
  ASSUME TimerInv, LockTimer
  PROVE  TimerInv'
<1>1. TypeOK'
  <2>1. note.ttp \in Timers
    BY DEF TimerInv, TypeOK, NoteInv, LockTimer
  <2>2. thd[note.ttp] \in Sessions \cup {None}
    BY <2>1 DEF TimerInv, TypeOK
  <2>3. note' \in [at : {"wait", "lock", "notify", "unlock", "destroy", "exit"},
                  ttp : Timers \cup {None}, thd : Sessions \cup {None}]
    BY <2>2 DEF TimerInv, TypeOK, LockTimer
  <2> QED
    BY <2>1, <2>3 DEF TimerInv, TypeOK, LockTimer, kernel, session
<1>2. OwnersInv'
  BY NoneAssumption DEF TimerInv, TypeOK, OwnersInv, At, LockTimer, kernel,
    session
<1>3. SetInv'
  BY NoneAssumption DEF TimerInv, TypeOK, SetInv, At, Handled, LockTimer,
    kernel, session
<1>4. CacheInv'
  BY NoneAssumption DEF TimerInv, TypeOK, CacheInv, Handled, LockTimer,
    kernel, session
<1>5. OrphanInv'
  BY NoneAssumption DEF TimerInv, TypeOK, OrphanInv, Handled, LockTimer,
    kernel, session
<1>6. KernelInv'
  BY NoneAssumption DEF TimerInv, TypeOK, KernelInv, Handled, LockTimer,
    kernel, session
<1>7. NoteInv'
  BY NoneAssumption DEF TimerInv, TypeOK, NoteInv, LockTimer, kernel, session
<1>8. OnlyOwnStatement'
  BY NoneAssumption DEF TimerInv, TypeOK, OnlyOwnStatement, At, InStatement,
    LockTimer, kernel, session
<1> QED
  BY <1>1, <1>2, <1>3, <1>4, <1>5, <1>6, <1>7, <1>8 DEF TimerInv

LEMMA TimerNotifyPreserves ==
  ASSUME TimerInv, TimerNotify
  PROVE  TimerInv'
<1>1. TypeOK'
  BY NoneAssumption DEF TimerInv, TypeOK, KilledStates, TimerNotify, Awake,
    object, kernel
<1>2. OwnersInv'
  BY NoneAssumption DEF TimerInv, TypeOK, OwnersInv, At, TimerNotify, Awake,
    object, kernel
<1>3. SetInv'
  BY NoneAssumption DEF TimerInv, TypeOK, SetInv, At, Handled, TimerNotify,
    Awake, object, kernel
<1>4. CacheInv'
  BY NoneAssumption DEF TimerInv, TypeOK, CacheInv, Handled, TimerNotify,
    Awake, object, kernel
<1>5. OrphanInv'
  BY NoneAssumption DEF TimerInv, TypeOK, OrphanInv, Handled, TimerNotify,
    Awake, object, kernel
<1>6. KernelInv'
  BY NoneAssumption DEF TimerInv, TypeOK, KernelInv, Handled, TimerNotify,
    Awake, object, kernel
<1>7. NoteInv'
  BY NoneAssumption DEF TimerInv, TypeOK, NoteInv, TimerNotify, Awake, object,
    kernel
<1>8. OnlyOwnStatement'
  BY NoneAssumption DEF TimerInv, TypeOK, OwnersInv, SetInv, CacheInv,
    OrphanInv, KernelInv, NoteInv, OnlyOwnStatement, KilledStates, At,
    Handled, InStatement, TimerNotify, Awake, object, kernel
<1> QED
  BY <1>1, <1>2, <1>3, <1>4, <1>5, <1>6, <1>7, <1>8 DEF TimerInv

LEMMA UnlockTimerPreserves ==
  ASSUME TimerInv, UnlockTimer
  PROVE  TimerInv'
<1>1. TypeOK'
  BY NoneAssumption DEF TimerInv, TypeOK, KilledStates, UnlockTimer, Waiting,
    kernel, session
<1>2. OwnersInv'
  BY NoneAssumption DEF TimerInv, TypeOK, OwnersInv, At, UnlockTimer, Waiting,
    kernel, session
<1>3. SetInv'
  BY NoneAssumption DEF TimerInv, TypeOK, SetInv, At, Handled, KernelInv,
    UnlockTimer, Waiting, kernel, session
<1>4. CacheInv'
  BY NoneAssumption DEF TimerInv, TypeOK, CacheInv, Handled, UnlockTimer,
    Waiting, kernel, session
<1>5. OrphanInv'
  BY NoneAssumption DEF TimerInv, TypeOK, OrphanInv, Handled, UnlockTimer,
    Waiting, kernel, session
<1>6. KernelInv'
  BY NoneAssumption DEF TimerInv, TypeOK, KernelInv, Handled, UnlockTimer,
    Waiting, kernel, session
<1>7. NoteInv'
  BY NoneAssumption DEF TimerInv, TypeOK, NoteInv, UnlockTimer, Waiting,
    kernel, session
<1>8. OnlyOwnStatement'
  BY NoneAssumption DEF TimerInv, TypeOK, OnlyOwnStatement, At, InStatement,
    UnlockTimer, Waiting, kernel, session
<1> QED
  BY <1>1, <1>2, <1>3, <1>4, <1>5, <1>6, <1>7, <1>8 DEF TimerInv

LEMMA DestroyOrphanPreserves ==
  ASSUME TimerInv, DestroyOrphan
  PROVE  TimerInv'
<1>1. TypeOK'
  BY NoneAssumption DEF TimerInv, TypeOK, KilledStates, DestroyOrphan,
    Waiting, kernel, session
<1>2. OwnersInv'
  BY NoneAssumption DEF TimerInv, TypeOK, OwnersInv, At, DestroyOrphan,
    Waiting, kernel, session
<1>3. SetInv'
  BY NoneAssumption DEF TimerInv, TypeOK, SetInv, At, Handled, NoteInv,
    DestroyOrphan, Waiting, kernel, session
<1>4. CacheInv'
  BY NoneAssumption DEF TimerInv, TypeOK, CacheInv, Handled, DestroyOrphan,
    Waiting, kernel, session
<1>5. OrphanInv'
  BY NoneAssumption DEF TimerInv, TypeOK, OrphanInv, Handled, DestroyOrphan,
    Waiting, kernel, session
<1>6. KernelInv'
  BY NoneAssumption DEF TimerInv, TypeOK, KernelInv, Handled, DestroyOrphan,
    Waiting, kernel, session
<1>7. NoteInv'
  BY NoneAssumption DEF TimerInv, TypeOK, NoteInv, DestroyOrphan, Waiting,
    kernel, session
<1>8. OnlyOwnStatement'
  BY NoneAssumption DEF TimerInv, TypeOK, OnlyOwnStatement, At, InStatement,
    DestroyOrphan, Waiting, kernel, session
<1> QED
  BY <1>1, <1>2, <1>3, <1>4, <1>5, <1>6, <1>7, <1>8 DEF TimerInv

LEMMA TimerDeinitPreserves ==
  ASSUME TimerInv, TimerDeinit
  PROVE  TimerInv'
<1>1. TypeOK'
  BY NoneAssumption DEF TimerInv, TypeOK, KilledStates, TimerDeinit, At,
    object, kernel, session
<1>2. OwnersInv'
  BY NoneAssumption DEF TimerInv, TypeOK, OwnersInv, At, TimerDeinit, object,
    kernel, session
<1>3. SetInv'
  BY NoneAssumption DEF TimerInv, TypeOK, SetInv, At, Handled, TimerDeinit,
    object, kernel, session
<1>4. CacheInv'
  BY NoneAssumption DEF TimerInv, TypeOK, CacheInv, Handled, TimerDeinit, At,
    object, kernel, session
<1>5. OrphanInv'
  BY NoneAssumption DEF TimerInv, TypeOK, OrphanInv, Handled, TimerDeinit, At,
    object, kernel, session
<1>6. KernelInv'
  BY NoneAssumption DEF TimerInv, TypeOK, KernelInv, Handled, TimerDeinit, At,
    object, kernel, session
<1>7. NoteInv'
  BY NoneAssumption DEF TimerInv, TypeOK, NoteInv, TimerDeinit, At, object,
    kernel, session
<1>8. OnlyOwnStatement'
  BY NoneAssumption DEF TimerInv, TypeOK, OnlyOwnStatement, At, InStatement,
    TimerDeinit, object, kernel, session
<1> QED
  BY <1>1, <1>2, <1>3, <1>4, <1>5, <1>6, <1>7, <1>8 DEF TimerInv

\* The objects, the kernel's timers and the connections start empty.
LEMMA InitTimerInv == Init => TimerInv
  BY NoneAssumption DEF Init, Waiting, TimerInv, TypeOK, OwnersInv, SetInv, CacheInv,
    OrphanInv, KernelInv, NoteInv, OnlyOwnStatement, KilledStates, At, Handled,
    InStatement

LEMMA StutterPreserves ==
  ASSUME TimerInv, UNCHANGED vars
  PROVE  TimerInv'
  BY DEF TimerInv, TypeOK, OwnersInv, SetInv, CacheInv, OrphanInv, KernelInv, NoteInv,
    OnlyOwnStatement, KilledStates, At, Handled, InStatement, vars, object, kernel,
    session

LEMMA NextTimerInv ==
  ASSUME TimerInv, [Next]_vars
  PROVE  TimerInv'
<1>1. CASE \E s \in Sessions :
             \/ Connect(s) \/ ExecuteUnlimited(s) \/ SetStatementTimer(s)
             \/ SetTimerFailed(s) \/ FinishStatement(s) \/ Proceed(s) \/ Disconnect(s)
             \/ \E state \in {"KILL_QUERY", "KILL_CONNECTION"}, self \in BOOLEAN :
                  KillOneThread(s, state, self)
  BY <1>1, ConnectPreserves, ExecuteUnlimitedPreserves, SetStatementTimerPreserves,
    SetTimerFailedPreserves, FinishStatementPreserves, ReapTimerPreserves,
    ReportKilledPreserves, ClearKilledPreserves, DisconnectPreserves,
    KillOneThreadPreserves DEF Proceed
<1>2. CASE \E t \in Timers : Expire(t)
  BY <1>2, ExpirePreserves
<1>3. CASE Notifier
  BY <1>3, TakeSignalPreserves, LockTimerPreserves, TimerNotifyPreserves,
    UnlockTimerPreserves, DestroyOrphanPreserves DEF Notifier
<1>4. CASE TimerDeinit
  BY <1>4, TimerDeinitPreserves
<1>5. CASE UNCHANGED vars
  BY <1>5, StutterPreserves
<1> QED
  BY <1>1, <1>2, <1>3, <1>4, <1>5 DEF Next

-----------------------------------------------------------------------------
(* Theorems *)

\* The inductive invariant holds for any number of connections and timers.
THEOREM TimerInvariant == Spec => []TimerInv
<1>1. Init => TimerInv
  BY InitTimerInv
<1>2. TimerInv /\ [Next]_vars => TimerInv'
  BY NextTimerInv
<1> QED
  BY <1>1, <1>2, PTL DEF Spec

\* Every variable keeps its type.
THEOREM TimerTypeCorrectness == Spec => []TypeOK
<1>1. TimerInv => TypeOK
  BY DEF TimerInv
<1> QED
  BY <1>1, TimerInvariant, PTL

\* thd_timer_set(), thd_timer_reset(), timer_callback() and ~THD() never touch a
\* timer object that was freed, and timer_notify() never a THD that is gone.
THEOREM TimerMemorySafety == Spec => []TimerMemorySafe
<1>1. TimerInv => TimerMemorySafe
  <2> SUFFICES ASSUME TimerInv PROVE TimerMemorySafe
    OBVIOUS
  <2>1. Handled \subseteq allocated
    BY DEF TimerInv, KernelInv
  <2>2. ASSUME NEW s \in Sessions
        PROVE  {timer[s], timer_cache[s]} \ {None} \subseteq allocated
    BY DEF TimerInv, TypeOK, SetInv, CacheInv
  <2>3. ASSUME note.at = "notify", note.thd # None
        PROVE  ~At(note.thd, "gone")
    <3>1. note.ttp \in Timers /\ note.thd \in Sessions /\ thd[note.ttp] = note.thd
      BY <2>3 DEF TimerInv, TypeOK, NoteInv
    <3>2. timer[note.thd] = note.ttp
      BY <3>1 DEF TimerInv, OrphanInv
    <3> QED
      BY <3>1, <3>2, NoneAssumption DEF TimerInv, OwnersInv, At
  <2> QED
    BY <2>1, <2>2, <2>3 DEF TimerMemorySafe
<1> QED
  BY <1>1, TimerInvariant, PTL

\* Every timer object belongs to one connection, or is an orphan that the
\* notification still to come will delete.
THEOREM TimerOwnership == Spec => []OneOwner
<1>1. TimerInv => OneOwner
  BY NoneAssumption DEF TimerInv, TypeOK, OwnersInv, SetInv, CacheInv, OrphanInv, OneOwner
<1> QED
  BY <1>1, TimerInvariant, PTL

\* A timeout kills the statement whose time is up and no other.
THEOREM TimeoutHitsOwnStatement == Spec => []OnlyOwnStatement
<1>1. TimerInv => OnlyOwnStatement
  BY DEF TimerInv
<1> QED
  BY <1>1, TimerInvariant, PTL

\* The assertions in sql_timer.cc never fail.
THEOREM TimerAssertions == Spec => []AssertionsHold
<1>1. TimerInv => AssertionsHold
  BY NoneAssumption DEF TimerInv, TypeOK, OwnersInv, SetInv, CacheInv, OrphanInv,
    KernelInv, NoteInv, AssertionsHold, At, Handled
<1> QED
  BY <1>1, TimerInvariant, PTL
=============================================================================
