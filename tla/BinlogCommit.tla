---------------------------- MODULE BinlogCommit ----------------------------
(***************************************************************************)
(* Two-phase commit between InnoDB and the binary log: ha_commit_trans()   *)
(* of sql/handler.cc, TC_LOG_BINLOG and MYSQL_BIN_LOG of sql/log.cc, and   *)
(* the handlerton calls of storage/innobase/handler/ha_innodb.cc, with     *)
(* log rotation, crashes, and the recovery that decides at the next start  *)
(* what becomes of the transactions that were left prepared.               *)
(*                                                                         *)
(* Both logs are durable up to some point only.  The binary log is a       *)
(* stretch of positions 1..log_end, cut into files; only the last file is  *)
(* ever read again, so its first position and its header flag are kept.    *)
(* The redo log of the engine is a stretch of LSNs 1..lsn.  A crash keeps  *)
(* any prefix of either that contains what was synced.                     *)
(*                                                                         *)
(* The settings are the safe ones (sync_binlog = 1,                        *)
(* innodb_flush_log_at_trx_commit = 1, innodb_support_xa = 1).             *)
(***************************************************************************)
EXTENDS Naturals, FiniteSets

CONSTANTS
  Trx,         \* transactions with two read-write participants, each an xid
  Other,       \* a session that runs FLUSH LOGS and non-transactional writes
  Nobody,      \* no owner of a mutex
  MaxSize,     \* max_binlog_size, in events of one transaction
  MaxOther,    \* bound on the work of Other
  MaxCrashes   \* bound on crashes and shutdowns

ASSUME OwnersDistinct == Nobody \notin Trx \cup {Other} /\ Other \notin Trx
ASSUME TrxFinite == IsFiniteSet(Trx)
ASSUME SizesAssumption == MaxSize \in Nat \ {0} /\ MaxOther \in Nat /\ MaxCrashes \in Nat

VARIABLES
  phase,                  \* the server: "running", "down" or "recover"
  pc,                     \* Trx -> where its session is in ha_commit_trans()
  cache,                  \* Trx -> the non-empty caches of binlog_cache_mngr
  told,                   \* Trx -> what the client heard
  prepare_commit_mutex,   \* its owner (ha_innodb.cc)
  prepare_lsn,            \* Trx -> LSN of the prepare, 0 if none
  commit_lsn,             \* Trx -> LSN of the commit, 0 if none
  rollback_lsn,           \* Trx -> LSN of the end of the rollback, 0 if none
  lsn,                    \* the end of the redo log
  flushed_lsn,            \* what of the redo log is on disk
  LOCK_log,               \* its owner
  rotation,               \* what the owner of LOCK_log does in new_file_impl()
  prepared_xids,          \* MYSQL_BIN_LOG::prepared_xids
  xid_pos,                \* Trx -> position of its Xid_log_event, 0 if none
  log_end,                \* the end of the binary log
  log_synced,             \* what of the binary log is on disk
  last_start,             \* the end of the last file but one
  in_use,                 \* LOG_EVENT_BINLOG_IN_USE_F of the last file
  commit_list,            \* recovery: the xids found in the last file
  others, crashes         \* counters for the bounds

session == <<pc, cache, told>>
redo == <<prepare_lsn, commit_lsn, rollback_lsn, lsn, flushed_lsn>>
binlog == <<xid_pos, log_end, log_synced, last_start, in_use>>
locks == <<prepare_commit_mutex, LOCK_log, rotation, prepared_xids>>
server == <<phase, commit_list, others, crashes>>
vars == <<session, redo, binlog, locks, server>>

PCs == {"idle", "prepare", "prepared", "log", "sync", "commit", "flush",
        "unlog", "unlogged", "rotate_log", "rotate_unlog", "rollback",
        "ok", "error", "done", "gone"}

TypeOK ==
  /\ phase \in {"running", "down", "recover"}
  /\ pc \in [Trx -> PCs]
  /\ cache \in [Trx -> SUBSET {"stmt", "trx"}]
  /\ told \in [Trx -> {"nothing", "ok", "error"}]
  /\ prepare_commit_mutex \in Trx \cup {Nobody}
  /\ prepare_lsn \in [Trx -> Nat]
  /\ commit_lsn \in [Trx -> Nat]
  /\ rollback_lsn \in [Trx -> Nat]
  /\ lsn \in Nat /\ flushed_lsn \in Nat /\ flushed_lsn <= lsn
  /\ LOCK_log \in Trx \cup {Other, Nobody}
  /\ rotation \in {"no", "wait", "open"}
  /\ prepared_xids \in Nat
  /\ xid_pos \in [Trx -> Nat]
  /\ log_end \in Nat /\ log_synced \in Nat /\ last_start \in Nat
  /\ last_start <= log_synced /\ log_synced <= log_end
  /\ in_use \in BOOLEAN
  /\ commit_list \in SUBSET Trx
  /\ others \in Nat /\ crashes \in Nat

Init ==
  /\ phase = "running"
  /\ pc = [t \in Trx |-> "idle"]
  /\ cache = [t \in Trx |-> {}]
  /\ told = [t \in Trx |-> "nothing"]
  /\ prepare_commit_mutex = Nobody
  /\ prepare_lsn = [t \in Trx |-> 0]
  /\ commit_lsn = [t \in Trx |-> 0]
  /\ rollback_lsn = [t \in Trx |-> 0]
  /\ lsn = 0 /\ flushed_lsn = 0
  /\ LOCK_log = Nobody
  /\ rotation = "no"
  /\ prepared_xids = 0
  /\ xid_pos = [t \in Trx |-> 0]
  /\ log_end = 0 /\ log_synced = 0 /\ last_start = 0
  /\ in_use = TRUE
  /\ commit_list = {}
  /\ others = 0 /\ crashes = 0

Goto(t, l) == pc' = [pc EXCEPT ![t] = l]

(* The engine has changes of t to commit or roll back: a transaction       *)
(* without undo log leaves no trace in the redo log.                       *)
Prepared(t) == prepare_lsn[t] > 0 /\ commit_lsn[t] = 0 /\ rollback_lsn[t] = 0

-----------------------------------------------------------------------------
(* ha_commit_trans(): the first phase.                                     *)

(* COMMIT of a transaction that changed an engine and is binlogged, with   *)
(* the contents of its caches.                                             *)
Begin(t, c) ==
  /\ phase = "running"
  /\ pc[t] = "idle"
  /\ Goto(t, "prepare")
  /\ cache' = [cache EXCEPT ![t] = c]
  /\ UNCHANGED <<told, redo, binlog, locks, server>>

(* The COMMIT metadata lock is not granted in time, or the server is       *)
(* read-only: the transaction is rolled back before it is prepared.        *)
Refuse(t) ==
  /\ pc[t] = "prepare"
  /\ Goto(t, "rollback")
  /\ UNCHANGED <<cache, told, redo, binlog, locks, server>>

(* innobase_xa_prepare() up to its mutex: the prepared state is flushed.   *)
Prepare(t) ==
  /\ pc[t] = "prepare"
  /\ IF "trx" \in cache[t]
     THEN /\ lsn' = lsn + 1
          /\ prepare_lsn' = [prepare_lsn EXCEPT ![t] = lsn + 1]
          /\ flushed_lsn' = lsn + 1
     ELSE UNCHANGED <<lsn, prepare_lsn, flushed_lsn>>
  /\ Goto(t, "prepared")
  /\ UNCHANGED <<cache, told, commit_lsn, rollback_lsn, binlog, locks, server>>

(* Mutant: no mutex between prepare and commit.                            *)
LockPrepareCommit_NoMutex(t) ==
  /\ pc[t] = "prepared"
  /\ Goto(t, "log")
  /\ UNCHANGED <<cache, told, redo, binlog, locks, server>>

(* The end of innobase_xa_prepare(): from here to innobase_commit() no     *)
(* other transaction gets to the binary log.                               *)
LockPrepareCommit(t) ==
  /\ pc[t] = "prepared"
  /\ prepare_commit_mutex = Nobody
  /\ prepare_commit_mutex' = t
  /\ Goto(t, "log")
  /\ UNCHANGED <<cache, told, redo, binlog, LOCK_log, rotation, prepared_xids, server>>

-----------------------------------------------------------------------------
(* TC_LOG_BINLOG::log_xid() and MYSQL_BIN_LOG::write()                     *)

(* The owner of LOCK_log has appended an event that is not an Xid event:   *)
(* rotate(false) starts a new file when the last one is full.              *)
RotateOrUnlock(thread, end) ==
  IF end - last_start >= MaxSize
  THEN LOCK_log' = thread /\ rotation' = "wait"
  ELSE UNCHANGED <<LOCK_log, rotation>>

(* binlog_commit_flush_stmt_cache(): write, sync and perhaps rotate.       *)
LogStmt(t) ==
  /\ pc[t] = "log"
  /\ "stmt" \in cache[t]
  /\ LOCK_log = Nobody
  /\ log_end' = log_end + 1
  /\ log_synced' = log_end + 1
  /\ cache' = [cache EXCEPT ![t] = @ \ {"stmt"}]
  /\ RotateOrUnlock(t, log_end + 1)
  /\ Goto(t, IF log_end + 1 - last_start >= MaxSize THEN "rotate_log" ELSE "log")
  /\ UNCHANGED <<told, redo, xid_pos, last_start, in_use, prepare_commit_mutex,
                 prepared_xids, server>>

(* binlog_commit_flush_trx_cache() takes LOCK_log and appends the group    *)
(* that ends with the Xid_log_event.                                       *)
WriteXid(t) ==
  /\ pc[t] = "log"
  /\ cache[t] = {"trx"}
  /\ LOCK_log = Nobody
  /\ LOCK_log' = t
  /\ log_end' = log_end + 1
  /\ xid_pos' = [xid_pos EXCEPT ![t] = log_end + 1]
  /\ Goto(t, "sync")
  /\ UNCHANGED <<cache, told, redo, log_synced, last_start, in_use,
                 prepare_commit_mutex, rotation, prepared_xids, server>>

(* Mutant: the binary log is flushed to the file but not synced.           *)
SyncXid_NoSync(t) ==
  /\ pc[t] = "sync"
  /\ prepared_xids' = prepared_xids + 1
  /\ LOCK_log' = Nobody
  /\ cache' = [cache EXCEPT ![t] = {}]
  /\ Goto(t, "commit")
  /\ UNCHANGED <<told, redo, binlog, prepare_commit_mutex, rotation, server>>

(* flush_and_sync(), after_flush hooks, prepared_xids++ and the end of     *)
(* write().                                                                *)
SyncXid(t) ==
  /\ pc[t] = "sync"
  /\ log_synced' = log_end
  /\ prepared_xids' = prepared_xids + 1
  /\ LOCK_log' = Nobody
  /\ cache' = [cache EXCEPT ![t] = {}]
  /\ Goto(t, "commit")
  /\ UNCHANGED <<told, redo, xid_pos, log_end, last_start, in_use,
                 prepare_commit_mutex, rotation, server>>

(* Both caches are empty: write() is not called, and log_xid() succeeds.   *)
LogNothing(t) ==
  /\ pc[t] = "log"
  /\ cache[t] = {}
  /\ Goto(t, "commit")
  /\ UNCHANGED <<cache, told, redo, binlog, locks, server>>

(* An error while a group is written, before its last event: what is left  *)
(* in the file is a group without an end.                                  *)
WriteFails(t) ==
  /\ pc[t] = "log"
  /\ cache[t] # {}
  /\ LOCK_log = Nobody
  /\ Goto(t, "rollback")
  /\ UNCHANGED <<cache, told, redo, binlog, locks, server>>

-----------------------------------------------------------------------------
(* ha_commit_trans(): the second phase.                                    *)

(* innobase_commit() up to the release of prepare_commit_mutex: the commit *)
(* is in the log buffer only (flush_log_later).                            *)
Commit(t) ==
  /\ pc[t] = "commit"
  /\ IF Prepared(t)
     THEN /\ lsn' = lsn + 1
          /\ commit_lsn' = [commit_lsn EXCEPT ![t] = lsn + 1]
     ELSE UNCHANGED <<lsn, commit_lsn>>
  /\ prepare_commit_mutex' = Nobody
  /\ Goto(t, "flush")
  /\ UNCHANGED <<cache, told, prepare_lsn, rollback_lsn, flushed_lsn, binlog,
                 LOCK_log, rotation, prepared_xids, server>>

(* trx_commit_complete_for_mysql()                                         *)
FlushLog(t) ==
  /\ pc[t] = "flush"
  /\ flushed_lsn' = lsn
  /\ Goto(t, "unlog")
  /\ UNCHANGED <<cache, told, prepare_lsn, commit_lsn, rollback_lsn, lsn, binlog,
                 locks, server>>

(* TC_LOG_BINLOG::unlog() under LOCK_prep_xids.                            *)
Unlog(t) ==
  /\ pc[t] = "unlog"
  /\ prepared_xids' = IF prepared_xids > 0 THEN prepared_xids - 1 ELSE 0
  /\ Goto(t, "unlogged")
  /\ UNCHANGED <<cache, told, redo, binlog, prepare_commit_mutex, LOCK_log,
                 rotation, server>>

(* rotate_and_purge(0) at the end of unlog().                              *)
UnlogRotate(t) ==
  /\ pc[t] = "unlogged"
  /\ LOCK_log = Nobody
  /\ RotateOrUnlock(t, log_end)
  /\ Goto(t, IF log_end - last_start >= MaxSize THEN "rotate_unlog" ELSE "ok")
  /\ UNCHANGED <<cache, told, redo, binlog, prepare_commit_mutex, prepared_xids, server>>

(* Mutant: innobase_rollback() keeps prepare_commit_mutex.                 *)
Rollback_KeepsMutex(t) ==
  /\ pc[t] = "rollback"
  /\ IF Prepared(t)
     THEN /\ lsn' = lsn + 1
          /\ rollback_lsn' = [rollback_lsn EXCEPT ![t] = lsn + 1]
     ELSE UNCHANGED <<lsn, rollback_lsn>>
  /\ cache' = [cache EXCEPT ![t] = {}]
  /\ Goto(t, "error")
  /\ UNCHANGED <<told, prepare_lsn, commit_lsn, flushed_lsn, binlog, locks, server>>

(* ha_rollback_trans(): innobase_rollback() gives prepare_commit_mutex     *)
(* back.  The end of the rollback may be lost in a crash until the redo    *)
(* log is flushed past it: the transaction is then prepared again.         *)
Rollback(t) ==
  /\ pc[t] = "rollback"
  /\ IF Prepared(t)
     THEN /\ lsn' = lsn + 1
          /\ rollback_lsn' = [rollback_lsn EXCEPT ![t] = lsn + 1]
     ELSE UNCHANGED <<lsn, rollback_lsn>>
  /\ prepare_commit_mutex' = IF prepare_commit_mutex = t THEN Nobody
                                                         ELSE prepare_commit_mutex
  /\ cache' = [cache EXCEPT ![t] = {}]
  /\ Goto(t, "error")
  /\ UNCHANGED <<told, prepare_lsn, commit_lsn, flushed_lsn, binlog, LOCK_log,
                 rotation, prepared_xids, server>>

(* The end of ha_commit_trans(): the client gets its answer.               *)
Answer(t) ==
  /\ pc[t] \in {"ok", "error"}
  /\ told' = [told EXCEPT ![t] = pc[t]]
  /\ Goto(t, "done")
  /\ UNCHANGED <<cache, redo, binlog, locks, server>>

-----------------------------------------------------------------------------
(* MYSQL_BIN_LOG::new_file_impl(), by the owner of LOCK_log.               *)

(* Mutant: rotation does not wait for the prepared transactions.           *)
RotateClose_NoWait ==
  /\ rotation = "wait"
  /\ in_use' = FALSE
  /\ log_synced' = log_end
  /\ rotation' = "open"
  /\ UNCHANGED <<session, redo, xid_pos, log_end, last_start,
                 prepare_commit_mutex, LOCK_log, prepared_xids, server>>

(* Wait for prepared_xids = 0, write the rotate event and close the file,  *)
(* which clears its flag and syncs it.                                     *)
RotateClose ==
  /\ rotation = "wait"
  /\ prepared_xids = 0
  /\ in_use' = FALSE
  /\ log_synced' = log_end
  /\ rotation' = "open"
  /\ UNCHANGED <<session, redo, xid_pos, log_end, last_start,
                 prepare_commit_mutex, LOCK_log, prepared_xids, server>>

(* open() makes the new file the last one of the index, and LOCK_log is    *)
(* released.                                                               *)
RotateOpen ==
  /\ rotation = "open"
  /\ last_start' = log_end
  /\ in_use' = TRUE
  /\ rotation' = "no"
  /\ LOCK_log' = Nobody
  /\ pc' = [t \in Trx |-> CASE pc[t] = "rotate_log" -> "log"
                            [] pc[t] = "rotate_unlog" -> "ok"
                            [] OTHER -> pc[t]]
  /\ UNCHANGED <<cache, told, redo, xid_pos, log_end, log_synced,
                 prepare_commit_mutex, prepared_xids, server>>

(* FLUSH LOGS: rotate_and_purge(TRUE).                                     *)
FlushLogs ==
  /\ phase = "running"
  /\ others < MaxOther
  /\ others' = others + 1
  /\ LOCK_log = Nobody
  /\ LOCK_log' = Other
  /\ rotation' = "wait"
  /\ UNCHANGED <<session, redo, binlog, prepare_commit_mutex, prepared_xids,
                 phase, commit_list, crashes>>

(* Another session writes a group without an Xid_log_event.                *)
WriteOther ==
  /\ phase = "running"
  /\ others < MaxOther
  /\ others' = others + 1
  /\ LOCK_log = Nobody
  /\ log_end' = log_end + 1
  /\ log_synced' = log_end + 1
  /\ RotateOrUnlock(Other, log_end + 1)
  /\ UNCHANGED <<session, redo, xid_pos, last_start, in_use,
                 prepare_commit_mutex, prepared_xids, phase, commit_list, crashes>>

-----------------------------------------------------------------------------
(* Crash, shutdown, restart.                                               *)

(* What is left of the positions f when the log is cut after n.            *)
Upto(f, n) == [t \in Trx |-> IF f[t] > n THEN 0 ELSE f[t]]

Crash ==
  /\ phase # "down"
  /\ crashes < MaxCrashes
  /\ crashes' = crashes + 1
  /\ phase' = "down"
  /\ \E end \in log_synced .. log_end :
       /\ log_end' = end
       /\ xid_pos' = Upto(xid_pos, end)
  /\ log_synced' = log_end'
  /\ \E end \in flushed_lsn .. lsn :
       /\ lsn' = end
       /\ prepare_lsn' = Upto(prepare_lsn, end)
       /\ commit_lsn' = Upto(commit_lsn, end)
       /\ rollback_lsn' = Upto(rollback_lsn, end)
  /\ flushed_lsn' = lsn'
  /\ pc' = [t \in Trx |-> IF pc[t] \in {"idle", "done"} THEN pc[t] ELSE "gone"]
  /\ cache' = [t \in Trx |-> {}]
  /\ prepare_commit_mutex' = Nobody
  /\ LOCK_log' = Nobody
  /\ rotation' = "no"
  /\ prepared_xids' = 0
  /\ commit_list' = {}
  /\ UNCHANGED <<told, last_start, in_use, others>>

(* A clean shutdown: every connection has ended, and close() clears the    *)
(* flag of the last file.                                                  *)
Shutdown ==
  /\ phase = "running"
  /\ crashes < MaxCrashes
  /\ \A t \in Trx : pc[t] \in {"idle", "done", "gone"}
  /\ LOCK_log = Nobody
  /\ crashes' = crashes + 1
  /\ phase' = "down"
  /\ in_use' = FALSE
  /\ log_synced' = log_end
  /\ flushed_lsn' = lsn
  /\ UNCHANGED <<session, prepare_lsn, commit_lsn, rollback_lsn, lsn, xid_pos,
                 log_end, last_start, locks, commit_list, others>>

(* TC_LOG_BINLOG::open(), recover(): the xids of the last file, if it was  *)
(* not closed properly; otherwise there is no commit list and ha_recover() *)
(* rolls back what it finds.                                               *)
OpenTcLog ==
  /\ phase = "down"
  /\ phase' = "recover"
  /\ commit_list' = IF in_use THEN {t \in Trx : xid_pos[t] > last_start} ELSE {}
  /\ UNCHANGED <<session, redo, binlog, locks, others, crashes>>

(* Mutant: commit_by_xid() leaves the flush to a later commit.             *)
RecoverTrx_NoFlush(t) ==
  /\ phase = "recover"
  /\ Prepared(t)
  /\ lsn' = lsn + 1
  /\ IF t \in commit_list
     THEN commit_lsn' = [commit_lsn EXCEPT ![t] = lsn + 1] /\ UNCHANGED rollback_lsn
     ELSE rollback_lsn' = [rollback_lsn EXCEPT ![t] = lsn + 1] /\ UNCHANGED commit_lsn
  /\ UNCHANGED <<session, prepare_lsn, flushed_lsn, binlog, locks, server>>

(* xarecover_handlerton() for one prepared transaction of the engine:      *)
(* commit_by_xid() flushes the redo log, rollback_by_xid() need not.       *)
RecoverTrx(t) ==
  /\ phase = "recover"
  /\ Prepared(t)
  /\ lsn' = lsn + 1
  /\ IF t \in commit_list
     THEN /\ commit_lsn' = [commit_lsn EXCEPT ![t] = lsn + 1]
          /\ flushed_lsn' = lsn + 1
          /\ UNCHANGED rollback_lsn
     ELSE /\ rollback_lsn' = [rollback_lsn EXCEPT ![t] = lsn + 1]
          /\ UNCHANGED <<commit_lsn, flushed_lsn>>
  /\ UNCHANGED <<session, prepare_lsn, binlog, locks, server>>

(* The end of the server's start: mysql_bin_log.open() begins a new file.  *)
Start ==
  /\ phase = "recover"
  /\ \A t \in Trx : ~Prepared(t)
  /\ phase' = "running"
  /\ last_start' = log_end
  /\ log_synced' = log_end
  /\ in_use' = TRUE
  /\ commit_list' = {}
  /\ UNCHANGED <<session, redo, xid_pos, log_end, locks, others, crashes>>

-----------------------------------------------------------------------------
Session(t) ==
  \/ Prepare(t) \/ LockPrepareCommit(t)
  \/ LogStmt(t) \/ WriteXid(t) \/ SyncXid(t)
  \/ Commit(t) \/ FlushLog(t) \/ Unlog(t) \/ UnlogRotate(t)
  \/ Rollback(t) \/ Answer(t)

Rotate == RotateClose \/ RotateOpen

Next ==
  \/ \E t \in Trx :
       \/ \E c \in {{"trx"}, {"stmt", "trx"}} : Begin(t, c)
       \/ Refuse(t) \/ WriteFails(t)
       \/ Session(t)
       \/ RecoverTrx(t)
  \/ Rotate \/ FlushLogs \/ WriteOther
  \/ Crash \/ Shutdown \/ OpenTcLog \/ Start

Spec == Init /\ [][Next]_vars

(* Threads that can run do run.  Each transaction runs once and the work   *)
(* of Other is bounded, so a mutex is not taken by others for ever.        *)
Fairness ==
  /\ \A t \in Trx : WF_vars(Session(t))
  /\ WF_vars(Rotate)

FairSpec == Spec /\ Fairness

(* The same server when a transaction may also have changed nothing        *)
(* transactional: its statement had ignorable errors, both participants    *)
(* are read-write, and the transaction cache is empty.                     *)
IgnorableNext ==
  \/ Next
  \/ \E t \in Trx : Begin(t, {"stmt"}) \/ LogNothing(t)

IgnorableSpec == Init /\ [][IgnorableNext]_vars
=============================================================================
