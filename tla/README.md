# A TLA+ model of the MySQL server (Twitter MySQL 5.5)

The repository is the MySQL 5.5 server with Twitter's changes (a server-side
statement timeout, NO_WAIT table locks, more status variables, buffer-pool dump
and restore, flushing for SSDs). This directory holds TLA+ models of the parts of the server
whose correctness depends on the order in which threads run, the TLC
configurations that check them, and proofs that hold for instances of any size.

What is modelled: the **metadata lock subsystem** (`sql/mdl.cc`, `sql/mdl.h`),
which every statement goes through; the **table locks** of `mysys/thr_lock.c`;
the **statement timer** (`sql/sql_timer.cc`, `mysys/posix_timers.c`);
**two-phase commit** between InnoDB and the binary log, with crashes and
recovery (`sql/handler.cc`, `sql/log.cc`, `ha_innodb.cc`); the master side of
**semi-synchronous replication** (`plugin/semisync`); and the **event
scheduler** (`sql/event_scheduler.cc`, `sql/event_queue.cc`).

## Inventory

| Component | State it keeps | Operations | What is hard | What makes it correct |
|---|---|---|---|---|
| MDL object map (`MDL_map`, mdl.cc) | hash of `MDL_lock` objects, two pre-allocated ones, cache of unused ones, per object two reference counters, a version and `m_is_destroyed` | `find_or_insert`, `move_from_hash_to_lock_mutex`, `remove` | the map's mutex is released before the object's lock is taken; objects are reused and deleted in that window; counters wrap | no use after free, the right object, one object per key, no leak |
| MDL locks, tickets, contexts (mdl.cc, mdl.h) | granted and waiting lists per object, three ticket lists per connection, one wait slot per connection | acquire, try, batch, upgrade, downgrade, release, savepoints, durations, `reschedule_waiters` | four parties race for a wait slot; a waiting request that leaves can unblock others; savepoints are positions in lists that move | compatibility, agreement of slot and lists, no lost wakeup, no lost ticket, no starvation |
| MDL deadlock detector (mdl.cc) | `m_waiting_for` of each connection | `find_deadlock`, `visit_subgraph` | runs concurrently with grants and with other searches; one wait can close several loops | no undetected deadlock, no victim without one, victims still waiting |
| Statement timer (sql_timer.cc, posix_timers.c) | one timer object per connection, cached between statements; a queue of expiry signals; `THD::killed` | set, reset, notify, destroy | the statement ends while the expiry is being delivered | the right statement is killed, the object is freed once |
| Table locks (mysys/thr_lock.c) | four queues per table (`read`, `write`, `read_wait`, `write_wait`), `write_lock_count`, `read_no_write_count`, a condition pointer per request | `thr_multi_lock`, `thr_multi_unlock`, `thr_abort_locks_for_thread`, `thr_upgrade_write_delay_lock`, `thr_reschedule_write_lock` | priorities between the queues, wakeups, aborts and timeouts against grants | compatibility, nobody forgotten, no deadlock, all locks or none, readers are let in |
| Priority rw-lock (mysys/thr_rwlock.c) | reader count, waiting writers, mutex | `rw_pr_*` | the lock is destroyed as soon as it is unlocked | exclusion, no access after destruction |
| Semi-synchronous replication, master (plugin/semisync) | list of active transactions, wait, commit and reply positions, on/off state, number of waiters and slaves | `commitTrx`, `writeTranxInBinlog`, `reportReplyBinlog`, `updateSyncHeader`, `switch_off`, `try_switch_on`, `add_slave`, `remove_slave`, enable, disable | timeout against late acknowledgement, switching while others wait, a broadcast outside the mutex | nobody waits for ever or for an answer nobody was asked for, no commit counted as acknowledged that is not |
| Event scheduler (sql/event_scheduler.cc, event_queue.cc) | state, scheduler thread, queue of events by time, `event_scheduler` | `SET GLOBAL event_scheduler`, `start`, `run`, `stop`, `get_top_for_execution_if_time`, `create_event`, `update_event`, `drop_event` | stop against start, against a second stop and against the moment before the thread sleeps | one scheduler thread, stop returns when the thread is gone, due events are taken |
| Binary log and two-phase commit (sql/log.cc, handler.cc, ha_innodb.cc) | binary log files, `prepared_xids`, `LOCK_log`, redo log, prepared transactions, `prepare_commit_mutex` | `ha_commit_trans`, `log_xid`, `unlog`, `rotate`, `recover`, `ha_recover` | crash between the steps, rotation against commits | binary log and engine agree after recovery and are in the same order; nothing acknowledged is lost; no COMMIT is stuck |
| Replication slave (sql/slave.cc, rpl_*.cc) | relay log, positions | I/O and SQL threads | restart between event and position | every event applied |
| Query cache (sql/sql_cache.cc) | blocks of results by query and table | store, send, invalidate | invalidation against a result being stored | no stale result |
| InnoDB (storage/innobase) | pages, row locks, read views, redo log | transactions, recovery | everything above again | ACID |
| Parser, optimizer, executor | per-statement trees | sequential | size, not interleaving | not a subject for model checking |
| Other engines, clients, vendored libraries | | | | outside the server's core logic |

How they interact: a statement thread arms its timer, takes metadata locks
(each `MDL_lock` is protected by a priority rw-lock, and is found through
`MDL_map`), then table locks, then engine locks. A wait for a metadata lock
ends through the wait slot, in which another thread's release, the deadlock
detector, a NO_WAIT grant, the wait's own timeout or a KILL leaves an answer. The timer and KILL reach the thread through
`THD::killed`; `THD::awake()` wakes a thread on the condition it has entered, which is how KILL reaches a wait for a
table lock and `stop()` the event scheduler. COMMIT goes through two-phase
commit; the hook that follows the flush of the binary log tells semi-sync of
the transaction, and after the commit the session waits there for a slave.

`PROJECT.json` lists the components, the hazards with their lines, and which
definition models which lines.

## Modules

| Module | Models | Notes |
|---|---|---|
| `MDLMap` | `MDL_map` and the life of an `MDL_lock` object | one action per critical section of `m_mutex` and `m_rwlock` |
| `MDLMapProperties` | its properties and the inductive invariant `MapInv` | |
| `MDLMapProofs` | the proofs | |
| `MDLTypes` | lock types, compatibility matrices, stronger-or-equal | |
| `MDLDeadlock` | one search of the deadlock detector, as a function of the wait-for graph | |
| `MDLFindDeadlock` | `find_deadlock()` on every graph, against reference definitions | run directly |
| `MDL` | connections, tickets, lists, wait slots; uses `MDLTypes`, `MDLDeadlock` | a key stands for its `MDL_lock` |
| `MDLProperties` | its properties | |
| `MDLProofs` | the proofs, those of the detector included | |
| `Lists`, `ListsProofs` | lists with entries taken out; lemmas on them and on finite sets | |
| `StatementTimer` | timer objects, kernel timers, notification thread, the statement and KILL | run directly |
| `StatementTimerProofs` | its proofs | |
| `AtomicCommit` | what a commit promises clients and slaves | abstract; implemented by `BinlogCommit` |
| `BinlogCommit`, `BinlogCommitProperties` | two-phase commit, rotation, crash, recovery; the refinement | run directly |
| `BinlogCommitProofs` | its proofs, the refinement included | |
| `SemiSync`, `SemiSyncProperties` | semi-sync master: sessions, dump threads, plugin switches | run directly |
| `SemiSyncProofs` | its proofs | |
| `ThrLock`, `ThrLockProperties` | table locks and their callers | |
| `ThrLockProofs` | its proofs | |
| `EventScheduler`, `EventSchedulerProperties` | scheduler, its queue, the system variable | run directly |
| `EventSchedulerProofs` | its proofs | |
| `MCMDL`, `MCThrLock` | instances for TLC | |

Definitions whose comment begins with "Mutant" are not part of a
specification. Each is a plausible bug in the definition that follows it; with it in place of that definition TLC
must find a property violated. They show that each property
can fail.

### MDLMap

`hash`, `cache` and the fields of the objects (`m_ref_usage`, `m_ref_release`,
`m_version`, `m_is_destroyed`, key) are variables, as are the map's
mutex, every object's `m_rwlock`, and each thread's position with the local
variables it carries from one critical section to the next. `find_or_insert()`
is cut where the code lets go of `m_mutex` (`RememberVersion`) and takes
`m_rwlock` (`LockObject`, `CheckVersion`); `remove()` where it releases them
(`Unlink`, `Unlock`, `Destroy`). The counters are taken modulo `UintMod` like
the `uint`s of the code. Deleted objects are marked, not forgotten, so that touching one is
visible; their address can come back from `new`. Running out of memory is an
action (`OutOfMemory`).

Bounds: `MaxVersion` bounds the 64-bit `m_version`, which cannot wrap in
practice. At that bound a connection has nothing left to do, so this module is checked
without deadlock checking.

### MDL

One action is one critical section of `MDL_lock::m_rwlock`,
`MDL_wait::m_LOCK_wait_status` or `MDL_context::m_LOCK_waiting_for`.
`reschedule_waiters()` takes one step per waiter while it holds `m_rwlock`,
because wait slots change under it. `acquire_lock()` is `AcquireLock` (with
`GrantAtOnce`, `Refused`, `Conflict`, `ReuseTicket`, `Enqueue` for its ways
out), then `WillWaitFor`, `Search`, `SetVictim`, the wait itself,
`DoneWaitingFor` and `WaitGranted` or `WaitFailed`. `acquire_locks()` and
`upgrade_shared_lock_to_exclusive()` run the same steps with a continuation
(`call[c].op`); the upgrade ends in `Merge`.

Abstractions:

- An `MDL_lock` is its key; finding the object is the subject of `MDLMap`. What
  a reused object brings along, its `m_hog_lock_count`, is modelled (`FirstUse`).
- One search of the detector is one step. The code holds read locks on the
  objects of its path but releases some as it goes; the model requires that no
  `reschedule_waiters()` is under way when it searches. The order in which the code follows
  edges is left open: any victim that some order yields may be chosen.
- The granted list is a set; its order matters only to the detector.
- A ticket is an address out of `MaxTickets` per connection; when all are in
  use `new` fails, which the code handles.
- `m_hog_lock_count` saturates at `max_write_lock_count`; `None` stands for the
  default, which is out of reach.
- `acquire_locks()` may be called with locks held, as ALTER TABLE ... RENAME
  (sql_table.cc:5964) and DROP DATABASE (sp.cc:1523) do. What the connection held
  when it called is kept beside the call (`asked`, `held` of `call[c]`) for `AllOrNothing` only.
  The upgrade of a ticket that is X already changes nothing and is left out.
- `set_lock_duration()` is guarded by the connection's savepoint; HANDLER uses one of its own,
  so the model allows a little more than the code.
- `notify_conflicting_locks()` asks other threads to end their waits and
  changes no state of this subsystem. Repeated waits of one second while it is retried
  are one wait.
- `clone_ticket()` between two connections (INSERT DELAYED) is left out.

### MDLDeadlock and MDLFindDeadlock

`VisitSubgraph` is the recursion of `MDL_lock::visit_subgraph()` and
`MDL_context::visit_subgraph()` as a recursive function of the remaining depth:
`enter_node()` gives up at `MAX_SEARCH_DEPTH`, edges to the start are inspected
before the search descends, `leave_node()` reconsiders the victim.
`MDLFindDeadlock` runs it on all graphs with four nodes, all sets of contexts
that wait, and two weights, and compares the result with a definition of
deadlock that does not mention a search. The depth limit there (6) is above the number of nodes, as 32 is meant to be above the
length of real chains; a chain as long as the limit is reported as a
deadlock by the code, and by the model.

### StatementTimer

A connection executes statements with or without a limit. `SetStatementTimer`
and `SetTimerFailed` are `set_statement_timer()` with its ways out.
`FinishStatement` is `my_timer_reset()`: the system call stops the timer and
tells whether it was still running (it may also fail, which
`thd_timer_reset()` takes as expired). `ReapTimer` is the critical section of
`thd_timer_reset()`. `ReportKilled` and `ClearKilled` are two steps: the code
tests and clears `thd->killed` without a lock. The notification thread is `TakeSignal`,
`LockTimer`, `TimerNotify`, `UnlockTimer`, `DestroyOrphan`; it is stopped by
`TimerDeinit` when all connections are gone, after which nothing happens (so
deadlock is not checked). `Expire` belongs to the kernel. A queued signal stays
queued when its timer is disarmed or deleted. The THD and the
timer are addresses, used again after they are freed. `KillOneThread` is KILL and
KILL QUERY by another connection at any time, or by the connection itself in a
statement; `Awake` closes the socket only in the first case (sql_class.cc:1632). The model is of a build
that closes the socket of a killed connection (`SIGNAL_WITH_VIO_CLOSE`, the
default where socket timeouts work). `KILL_BAD_DATA` is left out: it behaves
like `KILL_QUERY` here.

### BinlogCommit and AtomicCommit

A transaction has InnoDB and the binary log as read-write participants. The
binary log is a stretch of positions cut into files, of which recovery
reads only the last; the redo log is a stretch of LSNs. Each is durable up to a point,
and `Crash` keeps any prefix that contains it. `Prepare` and `LockPrepareCommit` are
`innobase_xa_prepare()`; `LogStmt`, `WriteXid`, `SyncXid` are `log_xid()`
with its two caches; `Commit`, `FlushLog` are `innobase_commit()`, which
releases `prepare_commit_mutex` before it flushes; `Unlog`, `UnlogRotate` are
`unlog()`; `WriteFails` and `Refuse` lead to `Rollback`. A rotation is
two steps (`RotateClose`, `RotateOpen`), with a crash possible between
them. `OpenTcLog`, `RecoverTrx`, `Start` are the next start of the server,
which can crash at each step too.

The settings are `sync_binlog = 1`, `innodb_flush_log_at_trx_commit = 1` and
`innodb_support_xa = 1`; with any other the server promises less. Left out: RESET
MASTER, purging, errors after the Xid event has been written to the file (see Observations),
a rotation that fails (no name for the new file, the rotate event not written, a new file that cannot
be opened, which turns logging off: log.cc:4230-4376, 5263-5274), the flush of the statement cache in
`binlog_rollback()` (log.cc:1868-1876; it holds no Xid event),
XA transactions of clients, `TC_LOG_MMAP` (used without a binary log).

`AtomicCommit` is the promise: a transaction is decided once, the engine shows
committed transactions only, a client hears "ok" only of a commit that stays and
"error" only of one that does not come back. `BinlogCommit` implements it with
the mapping that takes a transaction as decided when its Xid event is on disk
(`Decision`), and the engine's contents as those with a commit LSN.

### SemiSync

The record `m` is what `LOCK_binlog_` protects. Each critical section of
`LOCK_binlog_` is an action; `reportReplyBinlog()` broadcasts
after it released the mutex, so `Broadcast` is one of its own. Sessions run
`Write` (the `after_flush` hook, `writeTranxInBinlog()`), then `CommitTrx`, `Wait`, `Wake`
or `Timeout`; dump threads `Connect`, `Send` (`updateSyncHeader()` decides
whether a reply is asked for), `Receive`, `Report`, `Disconnect`. Positions are
numbers; a slave acknowledges what it received. `answer` tells commits counted as acknowledged
from all others: whether the latter are counted as no transactions, or not at all by a disabled plugin, is
not told apart. Left out: RESET MASTER
(`resetMaster()`), malformed replies, statistics.

### ThrLock

`locks[l]` is a `THR_LOCK` with its four queues; an operation on it, under its
mutex, is one action. `thr_multi_lock()` is cut at each lock that has to wait;
`wait_for_lock()` has the ways out of the code: granted, aborted, timed out,
with the condition pointer as the witness (here: which queue the request is
in). `check_status()` of MyISAM (concurrent inserts fit or do not)
is a choice made when it is called. The handler upgrades to `delayed_lock`, which low_priority_updates
decides. `Handlers` are the threads of INSERT
DELAYED with their own two operations. `overtaken` counts, for the property
`ReadersLetIn` only, how often a writer that excludes every reader (`TL_WRITE_LOW_PRIORITY` or
stronger) was preferred to a reader, of any type, while it waits. Concurrent inserts and other writers that
readers can run beside are not counted, by the code's `write_lock_count` either; a writer that already has a lock on the table gets its next one at once
and is not counted, by the code's `write_lock_count` either. A session makes one
`thr_multi_lock()` call per statement and never asks for `TL_WRITE_DELAYED`,
which is the handler's (`RequestsAssumption`).
Left out: `thr_abort_locks()` and `thr_downgrade_write_lock()`, which have no
caller (hence `TL_WRITE_ONLY`), and the lock callbacks.

### EventScheduler

`SET GLOBAL event_scheduler` releases its mutex before it calls `start()` or
`stop()`, so any number of sessions may be in them. `stop()` is cut where it calls `THD::awake()`: `Kill` sets
`thd->killed`, `Awake` looks for the condition the thread has entered; in between the
thread may be anywhere in its loop (`Check`, `GetTop...`, `EnterCond`,
`CondWait`). Which time `compute_next_execution_time()` yields is left open:
any later one, or the end of the event. KILL of a session that waits in `stop()` wakes every
session that waits on `COND_state` (`KillSession`). Left out: what the worker threads do, and a failure of
`post_init_event_thread()`.

## Runs

| Run | Instance | Shows |
|---|---|---|
| `mdl_map` | 3 threads, 2 objects, 2 tables, a schema, GLOBAL, cache of 1, counters modulo 4, fair | memory safety, the right object, no leak; a removed object is freed in the end |
| `mdl_locks` | 3 connections, a schema (IX, X) and a table in it (SR, SNW), upgrade, downgrade | compatibility, no missed grant, one upgrader; no undetected deadlock across namespaces; victims are pinned |
| `mdl_lists` | 2 connections, one table, all durations and all release calls, savepoints, HANDLER, LOCK TABLES, `acquire_locks()` of two requests with and without locks held | tickets are not lost between lists; savepoints stay valid; `acquire_locks()` is all or nothing |
| `mdl_names` | 3 connections, SR NO_WAIT and X on a table, timeouts, `max_write_lock_count` = 1, fair | slot and lists agree; weak requests get an answer |
| `mdl_find_deadlock` | all graphs of 4 contexts | the detector finds exactly the deadlocks, and leaves none |
| `statement_timer` | 2 connections, 2 timer objects, fair | memory safety, timeouts hit their own statement, limits are enforced, KILL by another connection is not lost |
| `statement_timer_self_kill` (violation) | 1 connection, 1 timer object, fair | a finding: KILL CONNECTION_ID() can be lost |
| `binlog_commit` | 2 transactions, files of 2 events, 2 operations of another session, 2 crashes, fair | agreement of log and engine, recovery finds what it needs in the last file, same order in both, refinement of `AtomicCommit`, no COMMIT stuck |
| `binlog_ignorable` (violation) | the same with a transaction whose transaction cache is empty | a finding: a rotation leaves a prepared transaction behind |
| `semisync` | 2 sessions, 2 slaves, 2 positions, 3 connects, 2 switches, fair | yes means on a slave, no lost wakeup, who waits for a transaction of the list has every slave asked, COMMIT returns |
| `thr_lock` | 3 sessions, an INSERT DELAYED handler, a MyISAM and an InnoDB table, `max_write_lock_count` = 1 | compatibility, nobody forgotten, no deadlock, all or none, readers are let in |
| `event_scheduler` | 2 sessions, 2 events (one of them one-time), 2 scheduler threads, 1 tick, 2 changes, 1 KILL, fair | one scheduler, no lost kill, stop is synchronous and returns, due events are taken |

Why the bounds are enough: three connections are the least for a race
between a grant, a victim search and a third party, for loops of three, and for
one wait closing two loops. In
`MDL_map` two threads race for an object and a third moves it to the cache and
reuses it; two table keys are needed to see the wrong key. Two timer objects
let one connection have an orphan while it uses another, and
let the address of a freed timer come back. The invariants of all modules are also proved, for every size
(see Proofs). Two transactions suffice for an order, and two crashes for a
crash during recovery; files of two events make every other commit rotate.
Two slaves can answer in the wrong order; three connects let one come
back. `max_write_lock_count` = 1 is the smallest value of the variable (sys_vars.cc:1397) and is exceeded by the third writer in a row. Two scheduler threads are a
restart while a stopper has not looked yet.

Symmetry is used over connections (and sessions of `thr_lock`)
in runs without liveness properties. `CHECK_DEADLOCK FALSE` stands
where a bound ends the run or, in `statement_timer`, the process does.

### Fairness

- `MDL`: `SF` of a connection's call in progress (`Continue`): threads run, and
  `m_rwlock` is given in the end to a thread that finds it free again and again.
  `SF` of `ReleaseTransactionalLocks`: a transaction ends, whenever it gets the chance; without it a
  reader that never commits blocks everyone, in the code as in the model.
- `MDLMap`: `WF` of each thread inside `find_or_insert()` and `remove()`.
- `StatementTimer`: `WF` of `Expire` (time passes), of the notification thread
  and of what a connection does by itself; `SF` of `TakeSignal(t)`: realtime
  signals are delivered first in, first out, so one that is queued is taken. A statement ends by itself
  only if it was killed; a connection leaves by itself only if it was killed or its socket is closed.
- `BinlogCommit`: `WF` of each session inside COMMIT and of a rotation. Nobody has to begin a
  COMMIT, crash or write; each transaction runs once, so a mutex is not kept
  from a session for ever.
- `SemiSync`: `WF` of each session's call (its timeout included: time
  passes) and nothing of the slaves, which may never answer.
- `EventScheduler`: `WF` of each session's call and of the scheduler thread.

`WeakServed` has a premise: waits for locks stop timing out at some point.
Strong requests that time out without end while overlapping in the queue block a weak
one without ever being granted, so they do not count towards
`max_write_lock_count`.

## Findings

- `binlog_ignorable`: `unlog()` (log.cc:6709) decrements `prepared_xids` also for
  a transaction that `log_xid()` let pass without counting it, because its
  transaction cache was empty. The comment there knows that "prepared_xids can be 0 if
  the transaction had ignorable errors"; but if another transaction has been
  counted, its count is taken. A rotation waiting for `prepared_xids = 0` then
  closes the file while that transaction's commit may still be lost in a crash, against
  the comment at log.cc:4250 ("be sure all xids are "unlogged", so that on recover
  we only need to scan one - latest - binlog file").

- `statement_timer_self_kill`: KILL CONNECTION_ID() in a session with `max_statement_time`.
  The thread that kills itself does not close its socket (sql_class.cc:1632; the comment at 1655-1657: "we know that
  we will check thd->killed before we go for reading the next statement"). `timer_notify()`
  calls `awake(KILL_TIMEOUT)` without the test that `kill_one_thread()` makes, so a timeout before the
  end of the statement replaces `KILL_CONNECTION`, and the end of the statement (sql_parse.cc:4687-4693) clears
  `KILL_TIMEOUT`. The connection goes on. For a KILL by another connection the same replacement
  does no harm, because the socket was closed: `KillTakesEffect` shows that, and its mutant that nothing
  else would end it. `KillTakesEffect` therefore excludes the one case of the finding (`SelfKillTimed`).

Two disagreements have no run of their own; they were found while the `thr_lock` instance was set up:

- `check_locks()`, which is compiled in with EXTRA_DEBUG and prints warnings, demands more of the
  requests at the heads of the queues than the code keeps. `Consistent` claims only what holds: its demands that nobody is
  forgotten on a free table (thr_lock.c:212-240) and that `read_no_write_count` counts. TLC found
  these schedules on one table with three sessions, a handler and `max_write_lock_count` = 1:
  - 258-268, `TL_WRITE_ALLOW_WRITE` waiting for `TL_WRITE_ALLOW_WRITE`: s1 has it, s2 queues for `TL_WRITE`,
    s3 queues for it behind s2, s2 times out. `wake_up_waiters()` does nothing while a write lock is granted.
  - 241-254, `TL_WRITE_ALLOW_WRITE` waiting though no write lock and no `TL_READ_NO_INSERT` is granted: the handler's lock and a `TL_WRITE` of s1 are
    granted from the queue, s2 queues for `TL_WRITE_ALLOW_WRITE`, s3 waits for `TL_READ`; s1 unlocks, the limit
    is exceeded, s3 is let in and s2 is left in the queue.
  - 276-278, `TL_WRITE_ALLOW_WRITE` beside `TL_READ_NO_INSERT` is called an error; the matrix in `thr_lock()`
    (567-585), with which `GrantedCompatible` agrees, allows it.
  - 289-300, a `TL_READ` waiting for a write lock it can run beside: between the two unlocks of a statement that has
    `TL_WRITE` and `TL_WRITE_CONCURRENT_INSERT` on the table, the stronger being released first.
- `max_write_lock_count`: "After this many write locks, allow some read locks to run in between"
  (sys_vars.cc:1395). `wake_up_waiters()` tests `write_lock_count++ > max_write_lock_count` (thr_lock.c:907), so one
  writer more passes: with the value 1 a waiting reader is overtaken twice. `ReadersLetIn` states the bound the code keeps,
  one more than documented; TLC reaches it.

## Observations

What the models showed or the reading for them, and no run reports:

- The comments at mdl.cc:2247 and 2258 say that `acquire_locks()` is called without granted locks, and
  lock.cc:809-812 that asserts there enforce it. There are no such asserts, and sql_table.cc:5964 and sp.cc:1523
  call it with locks held; `AllOrNothing` shows that it is correct for them too.
- `try_acquire_lock_impl()` (mdl.cc:1959, 1970) puts the NO_WAIT mark on a
  ticket after `m_rwlock` was released, so a conflicting request can begin to wait
  for a lock that does not allow it (mdl.h:565).
- `reschedule_waiters()` (mdl.cc:1371, 1424): when `max_write_lock_count` is
  reached, strong requests are skipped in one pass, weak ones are granted, and
  the count is reset. An SNW request that is compatible with the SR locks just
  granted stays waiting although nothing blocks it. Not with the default.
- `enter_node()` (mdl.cc:221): a search whose start is not on the loop it meets goes
  round until `MAX_SEARCH_DEPTH`. The context it visits at that depth may be one
  off the loop (of an edge that comes first in a list), and is the victim if it is lighter than the others.
  The loop is then found by the next search: the caller repeats it until it finds nothing.
- `MYSQL_BIN_LOG::write()` (log.cc:5618-5643): if the sync or an `after_flush` hook
  fails, the engine rolls back although the Xid event is in the file,
  where slaves and recovery see it.
- `disableMaster()` (semisync_master.cc:407) deletes `active_tranxs_` while
  sessions wait. One whose timeout comes before it has been scheduled calls
  `switch_off()`, which asserts that the list exists and uses it (`TimeoutDisabled` sets `crashed`).
- `wake_up_waiters()` (thr_lock.c:905) lets `TL_WRITE_LOW_PRIORITY` go before a
  waiting `TL_READ`, which thr_lock.h:68 says it gives way to.
- `TL_READ_NO_INSERT` can be starved by concurrent inserts: `write_lock_count`
  does not count them.
- A second `stop()` of the event scheduler waits for `INITIALIZED` and does not return
  if somebody starts the scheduler again before it looks (event_scheduler.cc:643,
  "Synchronously wait until the scheduler stops"); `OtherStopReturns` says
  exactly that. The variable `event_scheduler` can get out of step with the scheduler,
  as sys_vars.cc:773 says.
- `update_timing_fields_for_event()` (event_queue.cc:675) runs after
  `LOCK_event_queue` was released and can overwrite a concurrent ALTER EVENT.

## Proofs

`MDLMapProofs` proves `Spec => []MapInv` for any sets of threads, objects and
keys, any cache size and any `UintMod`, and from it type correctness, memory
safety, `RightObject`, `OneObjectPerKey`, `NoLeak` and `SoleDestroyer`. The
assumptions are those of the constants in `MDLMap`; the one of substance is that fewer than
`UintMod` threads exist at a time, as the comment at mdl.cc:435 requires.

None of these properties is inductive. What a thread may do with an object it
holds no lock on depends on the difference of the two counters, so `MapInv`
says what this difference is: modulo `UintMod`, it is the number of threads
that have remembered the object's version and not yet locked it. With that:

- an object is not deleted while such a thread exists, because the difference is not zero;
- the thread that finds it zero after `m_is_destroyed` was set is the last, because nobody can find the object any more and add to it;
- a thread whose remembered version is the current one looks at an object that was not
  moved since: `m_version` grows each time an object leaves the hash.

The other parts of `MapInv` say who holds which mutex at which position, that
hash, cache and pre-allocated objects are disjoint, live and carry the right keys, and that every
other object is on its way to be deleted by exactly one thread. There is one lemma per
action; each is split by the parts of the invariant the action can disturb.

`StatementTimerProofs` proves `Spec => []TimerInv` for any sets of connections
and timer objects (the only assumption: `None` is neither), and from it type
correctness, `TimerMemorySafe`, `OneOwner`, `OnlyOwnStatement` and
`AssertionsHold`. Who may free a timer object depends on three parties that
share no lock, so `TimerInv` ties them together: a timer points back to the
connection of its statement exactly as long as its notification is armed, queued
or being handled (or was stopped in time); a cached timer is out of the kernel's
and the notification thread's reach; a timer without owner is marked for
destruction and its notification is still to come, so it is freed exactly once;
a timer has one notification at a time; and what the notification thread read
under the timer's mutex stays true until it unlocks it.

`BinlogCommitProofs` proves `Spec => []CommitInv` for any number of
transactions, any `MaxSize` and any number of crashes. It assumes that the set of
transactions is finite (`TrxFinite`: `prepared_xids` counts) and that the
owners of the mutexes are distinct (`OwnersDistinct`). What a crash leaves behind
depends on three unsynchronised points of progress, so `CommitInv` says for each
position of a session in COMMIT where its records are with respect to the
flushed redo log, the synced binary log and the start of the last file
(`TrxInv`): a logged transaction is durably prepared and not rolled back, and as
long as it is not durably committed its Xid event is in the last file. The last
part needs the counter: `prepared_xids` is the number of transactions between
the write of the Xid event and `unlog()` (`CountInv`), so a rotation, which
waits for zero, leaves none of them behind. From it follow `TypeOK`,
`InLastFile` and `Agreement`; with `OrderInv` (a session holds
`prepare_commit_mutex` from its prepare to its commit, so after it has written its
Xid event nobody writes a later one) `CommittedPrefix`; and
`CommitIsAtomic`, the refinement: each step of the detailed specification is a
step of `AtomicCommit` or leaves its variables alone, crash and recovery included. The
theorems are about `Spec`; `IgnorableSpec`, on which the finding rests, breaks `CountInv`.

`EventSchedulerProofs` proves `Spec => []EventInv` for any number of sessions,
events and restarts (assumption: no session is called "nobody"), and from it
`Consistent` and the action property `StoppedMeansGone`. `Consistent`
(at most one thread; a kill is not lost) is not inductive: it needs to know who
holds the two mutexes at which position and that a thread has entered the
queue's condition exactly between `EnterCond` and its wake-up (`LockInv`), and that
the thread of `scheduler_thd` has been killed exactly in state STOPPING (`StopInv`).

`SemiSyncProofs` proves `Spec => []AckInv` and `Spec => []SyncInv` for any
finite sets of sessions and slaves (`FiniteAssumption`: the master counts them),
and from them `YesOnSlave`, `Consistent` and `AckAsked`. `AckInv` adds that a
slave whose reply is being handled has in its relay log what was sent to it, and that the stored
reply, while it is valid, is in the relay log of some slave. That is what lets
one slave's acknowledgement release sessions after another slave's connection was
lost. `SyncInv` is what makes a wait end: the two counters count (so the last
slave to leave switches off), the list of active transactions has no
gap and ends at the end of the binary log (`ActiveInv`), the position of every
session nobody is about to wake is not below `wait_file_pos_` (`WaitInv`), so the reply that covers it
broadcasts, and a dump thread that has sent the last active transaction has been asked for a
reply (`AskInv`).

`MDLProofs` proves `Spec => []Structure` for any sets of connections, keys,
requests and batches, any number of tickets, any `max_write_lock_count` and any
`MAX_SEARCH_DEPTH`. It assumes what `MDL` assumes of its constants: requests
are of the types of their namespace, and `None` is none of the objects
(`NoneAssumption`). No property of `MDLProperties` is inductive, since a ticket is reached from
four places: the lists of its connection, the granted or waiting list of its object, the
wait slot, and the local variables of the call in progress. `Structure` says
how they agree at each position of each call: a ticket is in exactly one of its owner's lists,
or is that of a wait in progress and then in the waiting list unless the slot says GRANTED;
`m_waiting_for` is that ticket from `WillWaitFor` to `DoneWaitingFor`;
`reschedule_waiters()` visits tickets that are in the waiting list; what is
about to be released is held; a savepoint is behind what is about to be
released; an upgrade has its ticket, and at `Merge` the savepoint is right behind the new one.
`TypeOK`, `AnswerAgrees`, `NoOrphan` and `SavepointValid` follow at once. The other theorems rest on it:

- `GrantedCompatible`: the step lemmas show that a ticket becomes granted, or its type
  stronger, only when `CanGrantLock` holds for it, or beside a lock of the same
  connection that covers it (`ReuseTicket`); the matrices are symmetric.
  `OneUpgrader` follows: upgradable types exclude each other.
- `VictimIsWaiting`, an action property: the victim a search has found is pinned (the
  search holds the victim's `m_LOCK_waiting_for`), so it still waits when its slot is set.
- `NoUndetectedDeadlock`: the only way into a wait is a search that found
  nothing. Consider a step after which a set of sleepers is in a circle. No step
  can give a sleeper a new blocker that sleeps, except the one by which a connection falls asleep;
  and `DeadlockFound` shows, by induction over the depth still left, that its search would have
  found the circle, or given up at the depth limit, which the code takes for a deadlock as well.
- `NoMissedGrant`, for the default `max_write_lock_count`: a request that
  could be granted is still to be visited by a `reschedule_waiters()` in progress
  (`VisitInv`). Whatever can unblock a waiter (a release, a downgrade, a
  request that leaves the queue) starts such a loop under the same `m_rwlock`.
  With a smaller `max_write_lock_count` it is false (see Observations); `NoWeakGrantMissed`
  proves what is left: requests other than SNW, SNRW and X are never missed.
- `AllOrNothing`, an action property, with whatever the caller held before and did between two calls.
  Its one hypothesis (`NoExplicitBatch`) is on the lists passed to `acquire_locks()`: no request of explicit duration, which the
  rollback to the savepoint would not release. All callers (lock.cc:791, 853, sp.cc:1523, sql_base.cc:4705, sql_table.cc:5964)
  pass requests of statement and transaction duration. The invariant (`BatchInv`) follows a call: the tickets held
  before are still held, what a rollback to the savepoint would release is exactly what was acquired since, and
  every request before the one at hand is covered by a ticket.
- The search is exact (`SearchIsExact`, `EveryLoopBroken`, about `FindSpec` of `MDLFindDeadlock`, with
  any set of nodes and any graph). `DeadlockFound` gives one direction. For the other, `OnlyDeadlockFound` follows
  a path of the search that yields a victim: either it comes back to one of its
  nodes, and these are the deadlock, or it has a new node at each depth, and there are
  fewer than `MAX_SEARCH_DEPTH`. This bound is a hypothesis of `SearchIsExact`, since at
  that depth the code takes any path for a deadlock; `EveryLoopBroken` needs none.
  `VictimsOnlyOfDeadlocks` says the same of the search in `MDL`, with its
  graph that changes between the steps: who is pinned as a victim is so because the
  waits of the searcher lead into a loop (not necessarily one the victim is on, see Observations).

`ThrLockProofs` proves `Spec => []ThrLockInv` for any sets of sessions, handlers
and requests, any finite set of tables and any positive `max_write_lock_count`. The
assumptions are `LocksAssumption` (tables are numbers, for the order in which
`LOCK_CMP` compares their addresses) and `RequestsAssumption`. No property is
inductive: whether a grant is right is decided by looking at the first entry of a queue
only. So `ThrLockInv` says of each table (`QueueInv`) that the granted write
locks are in the order of their strength, so that the first one speaks for all;
that a thread is queued at most once and not beside a lock of its own; and that
`read_no_write_count` counts. Of each thread (`ThreadInv`, `HoldsInv`) it says which part of its sorted
locks is still to be done at which position and that it has the others; and
of each entry of a queue (`EntryInv`, `QueuedInv`) that it is one of the call in
progress of its owner, so that nothing is left behind. `Consistent`, `GrantedCompatible` and `AllOrNothing`
follow. The other two need an argument of their own:

- `NoDeadlock`: of the tables a set of waiting threads waits for, take the last in the
  order of `sort_locks()` (there is one: the tables are finite). None of the
  threads has a lock on it, since it would have locked it before, and a thread that has a lock
  on a table never queues for it again. So they block each other there only by their places in
  the queue, and one of them is first.
- `ReadersLetIn`: while a reader waits, `write_lock_count` of its table is not below
  the number of writers preferred to it that exclude every reader (`OvertakenInv`). Every such grant raises it, and it is reset only
  where the waiting readers are let run.

The searches and lists above need induction over data. The induction theorems of
the library cannot be instantiated, but a set of natural numbers has a least element
(`MinExists` in `ListsProofs`), and induction over an explicit set of numbers
(`SetInduction`) is enough for both.

Every invariant, action property and refinement that a passing run checks is also proved. Only
model-checked: liveness (`EventuallyFreed`, `WeakServed`, `TimeoutDelivered`,
`KillTakesEffect`, `CommitEnds`, `CommitReturns`, `StopReturns`,
`OtherStopReturns`, `EventTaken`), which rests on fairness and is out of the prover's reach.

## Not modelled, and the plan

Next, in this order:

1. `PrLock` (`rw_pr_lock_t`): exclusion, and that nobody touches it after the
   last unlock; the abstraction `MDLMap` makes of it, as a refinement.
2. `resetMaster()` in `SemiSync` and `BinlogCommit`; the hand-over of a ticket in INSERT DELAYED.

Not modelled: the replication slave (its threads apply events one by
one; restart positions would be a module of their own), the query cache (its block
allocator dominates the code), `TC_LOG_MMAP`. The
parser and executor are sequential; InnoDB, other engines and clients are
systems of their own.
