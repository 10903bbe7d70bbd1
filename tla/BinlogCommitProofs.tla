------------------------- MODULE BinlogCommitProofs -------------------------
(***************************************************************************)
(* Proofs, for any number of transactions, crashes and rotations, of what  *)
(* recovery relies on (InLastFile), of the agreement of engine and binary  *)
(* log, and of the refinement of AtomicCommit.                             *)
(***************************************************************************)
EXTENDS BinlogCommitProperties, FiniteSetTheorems, TLAPS

(* What holds of one transaction, by where its session is.                 *)
TrxInv(t) ==
  /\ prepare_lsn[t] <= lsn /\ commit_lsn[t] <= lsn /\ rollback_lsn[t] <= lsn
  /\ xid_pos[t] <= log_end
  /\ xid_pos[t] > log_synced <=> pc[t] = "sync"
  /\ commit_lsn[t] > 0 => Logged(t)
  /\ Logged(t) => /\ prepare_lsn[t] > 0 /\ prepare_lsn[t] <= flushed_lsn
                  /\ rollback_lsn[t] = 0
  /\ phase # "running" => /\ pc[t] \in {"idle", "done", "gone"}
                          /\ commit_lsn[t] <= flushed_lsn
  /\ pc[t] \in {"idle", "prepare"} => prepare_lsn[t] = 0 /\ rollback_lsn[t] = 0
  /\ pc[t] \in {"idle", "prepare", "prepared", "log", "rotate_log", "rollback", "error"} =>
       ~Logged(t)
  /\ pc[t] \in {"prepare", "prepared", "log", "rotate_log"} => "trx" \in cache[t]
  /\ pc[t] \in {"prepared", "log", "rotate_log", "sync", "commit"} =>
       /\ prepare_lsn[t] > 0 /\ prepare_lsn[t] <= flushed_lsn
       /\ commit_lsn[t] = 0 /\ rollback_lsn[t] = 0
  /\ pc[t] = "sync" => Logged(t) /\ LOCK_log = t /\ rotation = "no"
  /\ pc[t] = "commit" => Logged(t)
  /\ pc[t] = "flush" => commit_lsn[t] > 0
  /\ pc[t] \in {"unlog", "unlogged", "rotate_unlog", "ok"} => Durable(t)
  /\ phase = "running" /\ pc[t] \in {"done", "gone"} => (Logged(t) => Durable(t))
  /\ told[t] # "nothing" <=> pc[t] = "done"
  /\ told[t] = "ok" => Durable(t)
  /\ told[t] = "error" => ~Logged(t)
  /\ Logged(t) /\ ~Durable(t) => xid_pos[t] > last_start /\ in_use

(* The rotation, recovery, and the mutex they need.                        *)
RotationInv ==
  /\ phase # "running" => LOCK_log = Nobody /\ rotation = "no"
  /\ rotation # "no" => LOCK_log # Nobody
  /\ rotation = "open" => ~in_use /\ log_synced = log_end
  /\ phase = "running" /\ rotation # "open" => in_use
  /\ phase = "recover" =>
       commit_list = IF in_use THEN {t \in Trx : xid_pos[t] > last_start} ELSE {}

(* prepared_xids is the number of transactions whose Xid_log_event has     *)
(* been written and that have not been through unlog().                    *)
Counted == {t \in Trx : pc[t] \in {"commit", "flush", "unlog"}}
CountInv == prepared_xids = Cardinality(Counted)

CommitInv == TypeOK /\ (\A t \in Trx : TrxInv(t)) /\ RotationInv /\ CountInv

-----------------------------------------------------------------------------
(* A transaction is one of finitely many, so Counted has a cardinality.    *)
LEMMA CountedFinite == IsFiniteSet(Counted)
<1>1. Counted \subseteq Trx
  BY DEF Counted
<1>. QED BY <1>1, TrxFinite, FS_Subset

(* With prepared_xids = 0 no transaction is between write() and unlog().   *)
LEMMA NoneCounted ==
  ASSUME CommitInv, prepared_xids = 0
  PROVE  Counted = {}
BY CountedFinite, FS_EmptySet DEF CommitInv, CountInv

(* COMMIT begins.                                                          *)
LEMMA BeginStep ==
  ASSUME CommitInv, NEW t \in Trx, NEW c \in {{"trx"}, {"stmt", "trx"}}, Begin(t, c)
  PROVE  CommitInv'
<1>. USE DEF Begin, Goto, session, redo, binlog, locks, server, PCs
<1>1. TypeOK'
  BY DEF CommitInv, TypeOK
<1>2. \A u \in Trx : TrxInv(u)'
  <2>. TAKE u \in Trx
  <2>. QED BY DEF CommitInv, TypeOK, TrxInv, RotationInv, Logged, Durable
<1>3. RotationInv'
  BY DEF CommitInv, TypeOK, TrxInv, RotationInv
<1>4. CountInv'
  <2>1. Counted' = Counted
    BY DEF CommitInv, TypeOK, Counted
  <2>. QED BY <2>1 DEF CommitInv, CountInv
<1>. QED BY <1>1, <1>2, <1>3, <1>4 DEF CommitInv

(* The COMMIT lock is refused.                                             *)
LEMMA RefuseStep ==
  ASSUME CommitInv, NEW t \in Trx, Refuse(t)
  PROVE  CommitInv'
<1>. USE DEF Refuse, Goto, session, redo, binlog, locks, server, PCs
<1>1. TypeOK'
  BY DEF CommitInv, TypeOK
<1>2. \A u \in Trx : TrxInv(u)'
  <2>. TAKE u \in Trx
  <2>. QED BY DEF CommitInv, TypeOK, TrxInv, RotationInv, Logged, Durable
<1>3. RotationInv'
  BY DEF CommitInv, TypeOK, TrxInv, RotationInv
<1>4. CountInv'
  <2>1. Counted' = Counted
    BY DEF CommitInv, TypeOK, Counted
  <2>. QED BY <2>1 DEF CommitInv, CountInv
<1>. QED BY <1>1, <1>2, <1>3, <1>4 DEF CommitInv

(* innobase_xa_prepare(): the prepared state is durable.                   *)
LEMMA PrepareStep ==
  ASSUME CommitInv, NEW t \in Trx, Prepare(t)
  PROVE  CommitInv'
<1>. USE DEF Prepare, Goto, session, redo, binlog, locks, server, PCs
<1>1. TypeOK'
  BY DEF CommitInv, TypeOK
<1>2. \A u \in Trx : TrxInv(u)'
  <2>. TAKE u \in Trx
  <2>. QED BY DEF CommitInv, TypeOK, TrxInv, RotationInv, Logged, Durable
<1>3. RotationInv'
  BY DEF CommitInv, TypeOK, TrxInv, RotationInv
<1>4. CountInv'
  <2>1. Counted' = Counted
    BY DEF CommitInv, TypeOK, Counted
  <2>. QED BY <2>1 DEF CommitInv, CountInv
<1>. QED BY <1>1, <1>2, <1>3, <1>4 DEF CommitInv

(* innobase_xa_prepare(): the mutex.                                       *)
LEMMA LockPrepareCommitStep ==
  ASSUME CommitInv, NEW t \in Trx, LockPrepareCommit(t)
  PROVE  CommitInv'
<1>. USE DEF LockPrepareCommit, Goto, session, redo, binlog, locks, server, PCs
<1>1. TypeOK'
  BY DEF CommitInv, TypeOK
<1>2. \A u \in Trx : TrxInv(u)'
  <2>. TAKE u \in Trx
  <2>. QED BY DEF CommitInv, TypeOK, TrxInv, RotationInv, Logged, Durable
<1>3. RotationInv'
  BY DEF CommitInv, TypeOK, TrxInv, RotationInv
<1>4. CountInv'
  <2>1. Counted' = Counted
    BY DEF CommitInv, TypeOK, Counted
  <2>. QED BY <2>1 DEF CommitInv, CountInv
<1>. QED BY <1>1, <1>2, <1>3, <1>4 DEF CommitInv

(* The statement cache goes to the log.                                    *)
LEMMA LogStmtStep ==
  ASSUME CommitInv, NEW t \in Trx, LogStmt(t)
  PROVE  CommitInv'
<1>. USE DEF LogStmt, RotateOrUnlock, Goto, session, redo, binlog, locks, server, PCs
<1>1. TypeOK'
  BY OwnersDistinct DEF CommitInv, TypeOK
<1>2. \A u \in Trx : TrxInv(u)'
  <2>. TAKE u \in Trx
  <2>. QED BY OwnersDistinct DEF CommitInv, TypeOK, TrxInv, RotationInv, Logged, Durable
<1>3. RotationInv'
  BY OwnersDistinct DEF CommitInv, TypeOK, TrxInv, RotationInv
<1>4. CountInv'
  <2>1. Counted' = Counted
    BY DEF CommitInv, TypeOK, Counted
  <2>. QED BY <2>1 DEF CommitInv, CountInv
<1>. QED BY <1>1, <1>2, <1>3, <1>4 DEF CommitInv

(* The Xid_log_event is in the last file, which is in use.                 *)
LEMMA WriteXidStep ==
  ASSUME CommitInv, NEW t \in Trx, WriteXid(t)
  PROVE  CommitInv'
<1>. USE DEF WriteXid, Goto, session, redo, binlog, locks, server, PCs
<1>1. TypeOK'
  BY OwnersDistinct DEF CommitInv, TypeOK
<1>2. \A u \in Trx : TrxInv(u)'
  <2>. TAKE u \in Trx
  <2>. QED BY OwnersDistinct DEF CommitInv, TypeOK, TrxInv, RotationInv, Logged, Durable
<1>3. RotationInv'
  BY OwnersDistinct DEF CommitInv, TypeOK, TrxInv, RotationInv
<1>4. CountInv'
  <2>1. Counted' = Counted
    BY DEF CommitInv, TypeOK, Counted
  <2>. QED BY <2>1 DEF CommitInv, CountInv
<1>. QED BY <1>1, <1>2, <1>3, <1>4 DEF CommitInv

(* It is on disk, and the transaction is counted.                          *)
LEMMA SyncXidStep ==
  ASSUME CommitInv, NEW t \in Trx, SyncXid(t)
  PROVE  CommitInv'
<1>. USE DEF SyncXid, Goto, session, redo, binlog, locks, server, PCs
<1>1. TypeOK'
  BY DEF CommitInv, TypeOK
<1>2. \A u \in Trx : TrxInv(u)'
  <2>. TAKE u \in Trx
  <2>. QED BY DEF CommitInv, TypeOK, TrxInv, RotationInv, Logged, Durable
<1>3. RotationInv'
  BY DEF CommitInv, TypeOK, TrxInv, RotationInv
<1>4. CountInv'
  <2>1. Counted' = Counted \cup {t} /\ t \notin Counted
    BY DEF CommitInv, TypeOK, Counted
  <2>2. Cardinality(Counted') = Cardinality(Counted) + 1
    BY <2>1, CountedFinite, FS_AddElement
  <2>. QED BY <2>2 DEF CommitInv, CountInv
<1>. QED BY <1>1, <1>2, <1>3, <1>4 DEF CommitInv

(* write() fails.                                                          *)
LEMMA WriteFailsStep ==
  ASSUME CommitInv, NEW t \in Trx, WriteFails(t)
  PROVE  CommitInv'
<1>. USE DEF WriteFails, Goto, session, redo, binlog, locks, server, PCs
<1>1. TypeOK'
  BY DEF CommitInv, TypeOK
<1>2. \A u \in Trx : TrxInv(u)'
  <2>. TAKE u \in Trx
  <2>. QED BY DEF CommitInv, TypeOK, TrxInv, RotationInv, Logged, Durable
<1>3. RotationInv'
  BY DEF CommitInv, TypeOK, TrxInv, RotationInv
<1>4. CountInv'
  <2>1. Counted' = Counted
    BY DEF CommitInv, TypeOK, Counted
  <2>. QED BY <2>1 DEF CommitInv, CountInv
<1>. QED BY <1>1, <1>2, <1>3, <1>4 DEF CommitInv

(* innobase_commit(), not durable yet.                                     *)
LEMMA CommitStep ==
  ASSUME CommitInv, NEW t \in Trx, Commit(t)
  PROVE  CommitInv'
<1>. USE DEF Commit, Prepared, Goto, session, redo, binlog, locks, server, PCs
<1>1. TypeOK'
  BY DEF CommitInv, TypeOK
<1>2. \A u \in Trx : TrxInv(u)'
  <2>. TAKE u \in Trx
  <2>. QED BY DEF CommitInv, TypeOK, TrxInv, RotationInv, Logged, Durable
<1>3. RotationInv'
  BY DEF CommitInv, TypeOK, TrxInv, RotationInv
<1>4. CountInv'
  <2>1. Counted' = Counted
    BY DEF CommitInv, TypeOK, Counted
  <2>. QED BY <2>1 DEF CommitInv, CountInv
<1>. QED BY <1>1, <1>2, <1>3, <1>4 DEF CommitInv

(* The commit is durable.                                                  *)
LEMMA FlushLogStep ==
  ASSUME CommitInv, NEW t \in Trx, FlushLog(t)
  PROVE  CommitInv'
<1>. USE DEF FlushLog, Goto, session, redo, binlog, locks, server, PCs
<1>1. TypeOK'
  BY DEF CommitInv, TypeOK
<1>2. \A u \in Trx : TrxInv(u)'
  <2>. TAKE u \in Trx
  <2>. QED BY DEF CommitInv, TypeOK, TrxInv, RotationInv, Logged, Durable
<1>3. RotationInv'
  BY DEF CommitInv, TypeOK, TrxInv, RotationInv
<1>4. CountInv'
  <2>1. Counted' = Counted
    BY DEF CommitInv, TypeOK, Counted
  <2>. QED BY <2>1 DEF CommitInv, CountInv
<1>. QED BY <1>1, <1>2, <1>3, <1>4 DEF CommitInv

(* unlog() gives the count back, which is not 0.                           *)
LEMMA UnlogStep ==
  ASSUME CommitInv, NEW t \in Trx, Unlog(t)
  PROVE  CommitInv'
<1>. USE DEF Unlog, Goto, session, redo, binlog, locks, server, PCs
<1>1. TypeOK'
  BY DEF CommitInv, TypeOK
<1>2. \A u \in Trx : TrxInv(u)'
  <2>. TAKE u \in Trx
  <2>. QED BY DEF CommitInv, TypeOK, TrxInv, RotationInv, Logged, Durable
<1>3. RotationInv'
  BY DEF CommitInv, TypeOK, TrxInv, RotationInv
<1>4. CountInv'
  <2>1. Counted' = Counted \ {t} /\ t \in Counted
    BY DEF CommitInv, TypeOK, Counted
  <2>2. Cardinality(Counted') = Cardinality(Counted) - 1
    BY <2>1, CountedFinite, FS_RemoveElement
  <2>3. Cardinality(Counted) \in Nat
    BY CountedFinite, FS_CardinalityType
  <2>4. Cardinality(Counted) # 0
    BY <2>1, CountedFinite, FS_EmptySet
  <2>. QED BY <2>2, <2>3, <2>4 DEF CommitInv, CountInv
<1>. QED BY <1>1, <1>2, <1>3, <1>4 DEF CommitInv

(* unlog() may rotate.                                                     *)
LEMMA UnlogRotateStep ==
  ASSUME CommitInv, NEW t \in Trx, UnlogRotate(t)
  PROVE  CommitInv'
<1>. USE DEF UnlogRotate, RotateOrUnlock, Goto, session, redo, binlog, locks, server, PCs
<1>1. TypeOK'
  BY OwnersDistinct DEF CommitInv, TypeOK
<1>2. \A u \in Trx : TrxInv(u)'
  <2>. TAKE u \in Trx
  <2>. QED BY OwnersDistinct DEF CommitInv, TypeOK, TrxInv, RotationInv, Logged, Durable
<1>3. RotationInv'
  BY OwnersDistinct DEF CommitInv, TypeOK, TrxInv, RotationInv
<1>4. CountInv'
  <2>1. Counted' = Counted
    BY DEF CommitInv, TypeOK, Counted
  <2>. QED BY <2>1 DEF CommitInv, CountInv
<1>. QED BY <1>1, <1>2, <1>3, <1>4 DEF CommitInv

(* Nothing of a transaction that is rolled back is logged.                 *)
LEMMA RollbackStep ==
  ASSUME CommitInv, NEW t \in Trx, Rollback(t)
  PROVE  CommitInv'
<1>. USE DEF Rollback, Prepared, Goto, session, redo, binlog, locks, server, PCs
<1>1. TypeOK'
  BY DEF CommitInv, TypeOK
<1>2. \A u \in Trx : TrxInv(u)'
  <2>. TAKE u \in Trx
  <2>. QED BY DEF CommitInv, TypeOK, TrxInv, RotationInv, Logged, Durable
<1>3. RotationInv'
  BY DEF CommitInv, TypeOK, TrxInv, RotationInv
<1>4. CountInv'
  <2>1. Counted' = Counted
    BY DEF CommitInv, TypeOK, Counted
  <2>. QED BY <2>1 DEF CommitInv, CountInv
<1>. QED BY <1>1, <1>2, <1>3, <1>4 DEF CommitInv

(* The client is told.                                                     *)
LEMMA AnswerStep ==
  ASSUME CommitInv, NEW t \in Trx, Answer(t)
  PROVE  CommitInv'
<1>. USE DEF Answer, Goto, session, redo, binlog, locks, server, PCs
<1>1. TypeOK'
  BY DEF CommitInv, TypeOK
<1>2. \A u \in Trx : TrxInv(u)'
  <2>. TAKE u \in Trx
  <2>. QED BY DEF CommitInv, TypeOK, TrxInv, RotationInv, Logged, Durable
<1>3. RotationInv'
  BY DEF CommitInv, TypeOK, TrxInv, RotationInv
<1>4. CountInv'
  <2>1. Counted' = Counted
    BY DEF CommitInv, TypeOK, Counted
  <2>. QED BY <2>1 DEF CommitInv, CountInv
<1>. QED BY <1>1, <1>2, <1>3, <1>4 DEF CommitInv

(* Nobody is counted, so what is logged is durable.                        *)
LEMMA RotateCloseStep ==
  ASSUME CommitInv, RotateClose
  PROVE  CommitInv'
<1>. USE DEF RotateClose, session, redo, binlog, locks, server, PCs
<1>a. \A u \in Trx : Logged(u) => Durable(u)
  <2>1. \A u \in Trx : pc[u] \notin {"commit", "flush", "unlog"}
    BY NoneCounted DEF Counted
  <2>. QED BY <2>1 DEF CommitInv, TypeOK, TrxInv, RotationInv
<1>1. TypeOK'
  <2>1. in_use' \in BOOLEAN
    BY Zenon
  <2>. QED BY <2>1 DEF CommitInv, TypeOK, RotationInv
<1>2. \A u \in Trx : TrxInv(u)'
  <2>. TAKE u \in Trx
  <2>. QED BY <1>a DEF CommitInv, TypeOK, TrxInv, RotationInv, Logged, Durable
<1>3. RotationInv'
  BY DEF CommitInv, TypeOK, TrxInv, RotationInv
<1>4. CountInv'
  <2>1. Counted' = Counted
    BY DEF CommitInv, TypeOK, Counted
  <2>. QED BY <2>1 DEF CommitInv, CountInv
<1>. QED BY <1>1, <1>2, <1>3, <1>4 DEF CommitInv

(* The file that is closed holds durable transactions only.                *)
LEMMA RotateOpenStep ==
  ASSUME CommitInv, RotateOpen
  PROVE  CommitInv'
<1>. USE DEF RotateOpen, session, redo, binlog, locks, server, PCs
<1>1. TypeOK'
  <2>1. in_use' \in BOOLEAN
    BY Zenon
  <2>. QED BY <2>1 DEF CommitInv, TypeOK, RotationInv
<1>2. \A u \in Trx : TrxInv(u)'
  <2>. TAKE u \in Trx
  <2>. QED BY OwnersDistinct DEF CommitInv, TypeOK, TrxInv, RotationInv, Logged, Durable
<1>3. RotationInv'
  BY DEF CommitInv, TypeOK, TrxInv, RotationInv
<1>4. CountInv'
  <2>1. Counted' = Counted
    BY DEF CommitInv, TypeOK, Counted
  <2>. QED BY <2>1 DEF CommitInv, CountInv
<1>. QED BY <1>1, <1>2, <1>3, <1>4 DEF CommitInv

(* FLUSH LOGS.                                                             *)
LEMMA FlushLogsStep ==
  ASSUME CommitInv, FlushLogs
  PROVE  CommitInv'
<1>. USE DEF FlushLogs, session, redo, binlog, locks, server, PCs
<1>1. TypeOK'
  BY DEF CommitInv, TypeOK
<1>2. \A u \in Trx : TrxInv(u)'
  <2>. TAKE u \in Trx
  <2>. QED BY OwnersDistinct DEF CommitInv, TypeOK, TrxInv, RotationInv, Logged, Durable
<1>3. RotationInv'
  BY OwnersDistinct DEF CommitInv, TypeOK, TrxInv, RotationInv
<1>4. CountInv'
  <2>1. Counted' = Counted
    BY DEF CommitInv, TypeOK, Counted
  <2>. QED BY <2>1 DEF CommitInv, CountInv
<1>. QED BY <1>1, <1>2, <1>3, <1>4 DEF CommitInv

(* A write of another session.                                             *)
LEMMA WriteOtherStep ==
  ASSUME CommitInv, WriteOther
  PROVE  CommitInv'
<1>. USE DEF WriteOther, RotateOrUnlock, session, redo, binlog, locks, server, PCs
<1>1. TypeOK'
  BY DEF CommitInv, TypeOK
<1>2. \A u \in Trx : TrxInv(u)'
  <2>. TAKE u \in Trx
  <2>. QED BY OwnersDistinct DEF CommitInv, TypeOK, TrxInv, RotationInv, Logged, Durable
<1>3. RotationInv'
  BY OwnersDistinct DEF CommitInv, TypeOK, TrxInv, RotationInv
<1>4. CountInv'
  <2>1. Counted' = Counted
    BY DEF CommitInv, TypeOK, Counted
  <2>. QED BY <2>1 DEF CommitInv, CountInv
<1>. QED BY <1>1, <1>2, <1>3, <1>4 DEF CommitInv

(* Whatever prefix of the logs a crash leaves, it contains what is durable. *)
LEMMA CrashStep ==
  ASSUME CommitInv, Crash
  PROVE  CommitInv'
<1>. USE DEF Crash, Upto, session, redo, binlog, locks, server, PCs
<1>1. TypeOK'
  BY DEF CommitInv, TypeOK
<1>2. \A u \in Trx : TrxInv(u)'
  <2>. TAKE u \in Trx
  <2>. QED BY DEF CommitInv, TypeOK, TrxInv, RotationInv, Logged, Durable
<1>3. RotationInv'
  BY DEF CommitInv, TypeOK, TrxInv, RotationInv
<1>4. CountInv'
  <2>1. Counted' = {}
    BY DEF CommitInv, TypeOK, Counted
  <2>. QED BY <2>1, FS_EmptySet DEF CountInv
<1>. QED BY <1>1, <1>2, <1>3, <1>4 DEF CommitInv

(* A clean shutdown.                                                       *)
LEMMA ShutdownStep ==
  ASSUME CommitInv, Shutdown
  PROVE  CommitInv'
<1>. USE DEF Shutdown, session, redo, binlog, locks, server, PCs
<1>1. TypeOK'
  <2>1. in_use' \in BOOLEAN
    BY Zenon
  <2>. QED BY <2>1 DEF CommitInv, TypeOK, RotationInv
<1>2. \A u \in Trx : TrxInv(u)'
  <2>. TAKE u \in Trx
  <2>. QED BY DEF CommitInv, TypeOK, TrxInv, RotationInv, Logged, Durable
<1>3. RotationInv'
  BY DEF CommitInv, TypeOK, TrxInv, RotationInv
<1>4. CountInv'
  <2>1. Counted' = Counted
    BY DEF CommitInv, TypeOK, Counted
  <2>. QED BY <2>1 DEF CommitInv, CountInv
<1>. QED BY <1>1, <1>2, <1>3, <1>4 DEF CommitInv

(* The scan of the last file.                                              *)
LEMMA OpenTcLogStep ==
  ASSUME CommitInv, OpenTcLog
  PROVE  CommitInv'
<1>. USE DEF OpenTcLog, session, redo, binlog, locks, server, PCs
<1>1. TypeOK'
  BY DEF CommitInv, TypeOK
<1>2. \A u \in Trx : TrxInv(u)'
  <2>. TAKE u \in Trx
  <2>. QED BY DEF CommitInv, TypeOK, TrxInv, RotationInv, Logged, Durable
<1>3. RotationInv'
  BY DEF CommitInv, TypeOK, TrxInv, RotationInv
<1>4. CountInv'
  <2>1. Counted' = Counted
    BY DEF CommitInv, TypeOK, Counted
  <2>. QED BY <2>1 DEF CommitInv, CountInv
<1>. QED BY <1>1, <1>2, <1>3, <1>4 DEF CommitInv

(* Recovery commits what is logged, and only that.                         *)
LEMMA RecoverTrxStep ==
  ASSUME CommitInv, NEW t \in Trx, RecoverTrx(t)
  PROVE  CommitInv'
<1>. USE DEF RecoverTrx, Prepared, session, redo, binlog, locks, server, PCs
<1>1. TypeOK'
  BY DEF CommitInv, TypeOK
<1>2. \A u \in Trx : TrxInv(u)'
  <2>. TAKE u \in Trx
  <2>. QED BY DEF CommitInv, TypeOK, TrxInv, RotationInv, Logged, Durable
<1>3. RotationInv'
  BY DEF CommitInv, TypeOK, TrxInv, RotationInv
<1>4. CountInv'
  <2>1. Counted' = Counted
    BY DEF CommitInv, TypeOK, Counted
  <2>. QED BY <2>1 DEF CommitInv, CountInv
<1>. QED BY <1>1, <1>2, <1>3, <1>4 DEF CommitInv

(* After recovery everything that is logged is durable.                    *)
LEMMA StartStep ==
  ASSUME CommitInv, Start
  PROVE  CommitInv'
<1>. USE DEF Start, Prepared, session, redo, binlog, locks, server, PCs
<1>1. TypeOK'
  BY DEF CommitInv, TypeOK
<1>2. \A u \in Trx : TrxInv(u)'
  <2>. TAKE u \in Trx
  <2>. QED BY DEF CommitInv, TypeOK, TrxInv, RotationInv, Logged, Durable
<1>3. RotationInv'
  BY DEF CommitInv, TypeOK, TrxInv, RotationInv
<1>4. CountInv'
  <2>1. Counted' = Counted
    BY DEF CommitInv, TypeOK, Counted
  <2>. QED BY <2>1 DEF CommitInv, CountInv
<1>. QED BY <1>1, <1>2, <1>3, <1>4 DEF CommitInv

-----------------------------------------------------------------------------
LEMMA InitInv == Init => CommitInv
<1>. SUFFICES ASSUME Init PROVE CommitInv
  OBVIOUS
<1>1. TypeOK
  <2>1. in_use \in BOOLEAN
    BY Zenon DEF Init
  <2>. QED BY <2>1 DEF Init, TypeOK, PCs
<1>2. \A t \in Trx : TrxInv(t)
  BY DEF Init, TrxInv, Logged, Durable
<1>3. RotationInv
  BY DEF Init, RotationInv
<1>4. CountInv
  <2>1. Counted = {}
    BY DEF Init, Counted
  <2>. QED BY <2>1, FS_EmptySet DEF Init, CountInv
<1>. QED BY <1>1, <1>2, <1>3, <1>4 DEF CommitInv

LEMMA StutterInv ==
  ASSUME CommitInv, UNCHANGED vars
  PROVE  CommitInv'
<1>. USE DEF vars, session, redo, binlog, locks, server
<1>1. Counted' = Counted
  BY DEF Counted
<1>. QED BY <1>1 DEF CommitInv, TypeOK, TrxInv, RotationInv, CountInv, Logged, Durable

LEMMA NextInv == CommitInv /\ [Next]_vars => CommitInv'
<1>. SUFFICES ASSUME CommitInv, [Next]_vars PROVE CommitInv'
  OBVIOUS
<1>1. ASSUME NEW t \in Trx,
             \/ \E c \in {{"trx"}, {"stmt", "trx"}} : Begin(t, c)
             \/ Refuse(t) \/ WriteFails(t)
             \/ Session(t)
             \/ RecoverTrx(t)
      PROVE  CommitInv'
  BY <1>1, BeginStep, RefuseStep, PrepareStep, LockPrepareCommitStep, LogStmtStep,
     WriteXidStep, SyncXidStep, WriteFailsStep, CommitStep, FlushLogStep, UnlogStep,
     UnlogRotateStep, RollbackStep, AnswerStep, RecoverTrxStep DEF Session
<1>2. ASSUME Rotate \/ FlushLogs \/ WriteOther \/ Crash \/ Shutdown \/ OpenTcLog \/ Start
      PROVE  CommitInv'
  BY <1>2, RotateCloseStep, RotateOpenStep, FlushLogsStep, WriteOtherStep, CrashStep,
     ShutdownStep, OpenTcLogStep, StartStep DEF Rotate
<1>. QED BY <1>1, <1>2, StutterInv DEF Next

(* The inductive invariant of commit, rotation, crash and recovery: it     *)
(* ties each step of ha_commit_trans() to what of it is in the two logs,   *)
(* and prepared_xids to the transactions a rotation has to wait for.       *)
THEOREM CommitInvariant == Spec => []CommitInv
BY InitInv, NextInv, PTL DEF Spec

(* Every variable keeps its type, and the last file begins within what of  *)
(* the binary log is synced.                                               *)
THEOREM CommitTypeCorrectness == Spec => []TypeOK
<1>1. CommitInv => TypeOK
  BY DEF CommitInv
<1>. QED BY <1>1, CommitInvariant, PTL

(* The scan of the last file in TC_LOG_BINLOG::open() is enough: whenever  *)
(* the server crashes, a logged transaction that is not durable in the     *)
(* engine is in the last file, and the file is marked in use.              *)
THEOREM LastFileSuffices == Spec => []InLastFile
<1>1. CommitInv => InLastFile
  BY DEF CommitInv, TrxInv, InLastFile
<1>. QED BY <1>1, CommitInvariant, PTL

(* Engine and binary log agree on every transaction that has ended, after  *)
(* any number of crashes and recoveries.                                   *)
THEOREM EngineAndLogAgree == Spec => []Agreement
<1>1. CommitInv => Agreement
  BY DEF CommitInv, TypeOK, TrxInv, Agreement, Ended, Durable, Logged
<1>. QED BY <1>1, CommitInvariant, PTL

-----------------------------------------------------------------------------
(* The order of commits.                                                   *)

(* prepare_commit_mutex is held from the end of prepare to the commit, so  *)
(* a logged transaction that is not committed is the last in the log.      *)
OrderInv ==
  \A t \in Trx :
    /\ pc[t] \in {"log", "rotate_log", "sync", "commit"} => prepare_commit_mutex = t
    /\ pc[t] \in {"sync", "commit"} => \A u \in Trx : xid_pos[u] <= xid_pos[t]

LEMMA SessionOrder ==
  ASSUME CommitInv, OrderInv, NEW t \in Trx, Session(t) \/ Refuse(t) \/ WriteFails(t)
  PROVE  OrderInv'
<1>. USE DEF CommitInv, OrderInv, TypeOK, TrxInv, Logged, Goto, PCs,
             session, redo, binlog, locks, server
<1>1. CASE Prepare(t) \/ Refuse(t) \/ WriteFails(t) \/ LogStmt(t)
  BY <1>1 DEF Prepare, Refuse, WriteFails, LogStmt
<1>2. CASE LockPrepareCommit(t)
  BY <1>2, OwnersDistinct DEF LockPrepareCommit
<1>3. CASE WriteXid(t)
  BY <1>3 DEF WriteXid
<1>4. CASE SyncXid(t)
  BY <1>4 DEF SyncXid
<1>5. CASE Commit(t)
  BY <1>5 DEF Commit
<1>6. CASE Rollback(t)
  BY <1>6 DEF Rollback
<1>7. CASE FlushLog(t) \/ Unlog(t) \/ UnlogRotate(t) \/ Answer(t)
  BY <1>7 DEF FlushLog, Unlog, UnlogRotate, Answer
<1>. QED BY <1>1, <1>2, <1>3, <1>4, <1>5, <1>6, <1>7 DEF Session

LEMMA NextOrder == CommitInv /\ OrderInv /\ [Next]_vars => OrderInv'
<1>. SUFFICES ASSUME CommitInv, OrderInv, [Next]_vars PROVE OrderInv'
  OBVIOUS
<1>. USE DEF CommitInv, OrderInv, TypeOK, TrxInv, Goto, PCs,
             session, redo, binlog, locks, server
<1>1. CASE \E t \in Trx : Session(t) \/ Refuse(t) \/ WriteFails(t)
  BY <1>1, SessionOrder
<1>2. CASE \E t \in Trx : RecoverTrx(t) \/ \E c \in {{"trx"}, {"stmt", "trx"}} : Begin(t, c)
  BY <1>2 DEF RecoverTrx, Begin
<1>3. CASE Rotate
  BY <1>3 DEF Rotate, RotateClose, RotateOpen
<1>4. CASE FlushLogs \/ WriteOther \/ Shutdown \/ OpenTcLog \/ Start
  BY <1>4 DEF FlushLogs, WriteOther, Shutdown, OpenTcLog, Start
<1>5. CASE Crash
  BY <1>5 DEF Crash
<1>6. CASE UNCHANGED vars
  BY <1>6 DEF vars
<1>. QED BY <1>1, <1>2, <1>3, <1>4, <1>5, <1>6 DEF Next

(* A running engine has the changes of a prefix of the binary log: the     *)
(* order of transactions in binlog and InnoDB is the same, for any number  *)
(* of sessions that commit at once.                                        *)
THEOREM SameOrder == Spec => []CommittedPrefix
<1>1. Init => OrderInv
  BY DEF Init, OrderInv
<1>2. CommitInv /\ OrderInv => CommittedPrefix
  BY DEF CommitInv, OrderInv, TypeOK, PCs, TrxInv, CommittedPrefix, Logged, Durable
<1>. QED BY <1>1, <1>2, NextOrder, CommitInvariant, PTL DEF Spec

-----------------------------------------------------------------------------
(* The refinement of AtomicCommit.                                         *)

OnDisk(t) == xid_pos[t] > 0 /\ xid_pos[t] <= log_synced
Over(t) == pc[t] \in {"error", "done", "gone"}
Applied == {t \in Trx : commit_lsn[t] > 0}

LEMMA DecisionValue ==
  Decision = [t \in Trx |-> IF OnDisk(t) THEN "committed"
                            ELSE IF Over(t) THEN "aborted" ELSE "undecided"]
BY DEF Decision, OnDisk, Over, Logged

LEMMA DecisionValuePrimed ==
  Decision' = [t \in Trx |-> IF OnDisk(t)' THEN "committed"
                             ELSE IF Over(t)' THEN "aborted" ELSE "undecided"]
BY DEF Decision, OnDisk, Over, Logged

(* A step that changes none of the three is a stuttering step.             *)
LEMMA Stutters ==
  ASSUME \A t \in Trx : (OnDisk(t)' <=> OnDisk(t)) /\ (~OnDisk(t) => (Over(t)' <=> Over(t))),
         Applied' = Applied, told' = told
  PROVE  UNCHANGED Abstract!vars
<1>1. Decision' = Decision
  BY DecisionValue, DecisionValuePrimed
<1>. QED BY <1>1 DEF Abstract!vars, Applied

(* The steps of a COMMIT that decide nothing.                              *)
LEMMA SilentSession ==
  ASSUME CommitInv, NEW t \in Trx,
         \/ \E c \in {{"trx"}, {"stmt", "trx"}} : Begin(t, c)
         \/ Refuse(t) \/ WriteFails(t) \/ Prepare(t) \/ LockPrepareCommit(t)
         \/ LogStmt(t) \/ WriteXid(t) \/ FlushLog(t) \/ Unlog(t) \/ UnlogRotate(t)
  PROVE  UNCHANGED Abstract!vars
<1>. USE DEF CommitInv, TypeOK, PCs, TrxInv, Goto, Logged, OnDisk, Over, Applied,
             session, redo, binlog, locks, server
<1>1. \A u \in Trx : (OnDisk(u)' <=> OnDisk(u)) /\ (~OnDisk(u) => (Over(u)' <=> Over(u)))
  <2>. TAKE u \in Trx
  <2>1. CASE LogStmt(t)
    BY <2>1, OwnersDistinct DEF LogStmt
  <2>2. CASE WriteXid(t)
    BY <2>2 DEF WriteXid
  <2>3. CASE UnlogRotate(t)
    BY <2>3 DEF UnlogRotate
  <2>. QED BY <2>1, <2>2, <2>3
         DEF Begin, Refuse, WriteFails, Prepare, LockPrepareCommit, FlushLog, Unlog
<1>2. commit_lsn' = commit_lsn /\ told' = told
  BY DEF Begin, Refuse, WriteFails, Prepare, LockPrepareCommit, LogStmt, WriteXid,
         FlushLog, Unlog, UnlogRotate
<1>. QED BY <1>1, <1>2, Stutters

(* Rotation, the other session, shutdown and start decide nothing.         *)
LEMMA SilentServer ==
  ASSUME CommitInv,
         Rotate \/ FlushLogs \/ WriteOther \/ Shutdown \/ OpenTcLog \/ Start
  PROVE  UNCHANGED Abstract!vars
<1>. USE DEF CommitInv, TypeOK, PCs, TrxInv, RotationInv, Goto, Logged, OnDisk, Over, Applied,
             session, redo, binlog, locks, server
<1>1. \A u \in Trx : (OnDisk(u)' <=> OnDisk(u)) /\ (~OnDisk(u) => (Over(u)' <=> Over(u)))
  <2>. TAKE u \in Trx
  <2>1. CASE RotateClose
    BY <2>1 DEF RotateClose
  <2>2. CASE RotateOpen
    BY <2>2 DEF RotateOpen
  <2>3. CASE WriteOther
    BY <2>3, OwnersDistinct DEF WriteOther
  <2>4. CASE Shutdown \/ Start
    BY <2>4 DEF Shutdown, Start
  <2>. QED BY <2>1, <2>2, <2>3, <2>4 DEF Rotate, FlushLogs, OpenTcLog
<1>2. commit_lsn' = commit_lsn /\ told' = told
  BY DEF Rotate, RotateClose, RotateOpen, FlushLogs, WriteOther, Shutdown, OpenTcLog, Start
<1>. QED BY <1>1, <1>2, Stutters

(* The Xid_log_event reaches the disk: the transaction is committed.       *)
LEMMA SyncXidDecides ==
  ASSUME CommitInv, NEW t \in Trx, SyncXid(t)
  PROVE  Abstract!Decide(t)
<1>. USE DEF CommitInv, TypeOK, PCs, TrxInv, Goto, Logged, OnDisk, Over,
             SyncXid, session, redo, binlog, locks, server
<1>1. ~OnDisk(t) /\ ~Over(t) /\ OnDisk(t)'
  OBVIOUS
<1>2. \A u \in Trx \ {t} : (OnDisk(u)' <=> OnDisk(u)) /\ (Over(u)' <=> Over(u))
  OBVIOUS
<1>3. Decision[t] = "undecided"
  BY <1>1, DecisionValue
<1>4. Decision' = [Decision EXCEPT ![t] = "committed"]
  BY <1>1, <1>2, DecisionValue, DecisionValuePrimed
<1>. QED BY <1>3, <1>4 DEF Abstract!Decide

(* The end of a rollback decides the transaction too.                      *)
LEMMA RollbackDecides ==
  ASSUME CommitInv, NEW t \in Trx, Rollback(t)
  PROVE  Abstract!Decide(t)
<1>. USE DEF CommitInv, TypeOK, PCs, TrxInv, Goto, Logged, OnDisk, Over,
             Rollback, session, redo, binlog, locks, server
<1>1. ~OnDisk(t) /\ ~Over(t) /\ ~OnDisk(t)' /\ Over(t)'
  OBVIOUS
<1>2. \A u \in Trx \ {t} : (OnDisk(u)' <=> OnDisk(u)) /\ (Over(u)' <=> Over(u))
  OBVIOUS
<1>3. Decision[t] = "undecided"
  BY <1>1, DecisionValue
<1>4. Decision' = [Decision EXCEPT ![t] = "aborted"]
  BY <1>1, <1>2, DecisionValue, DecisionValuePrimed
<1>. QED BY <1>3, <1>4 DEF Abstract!Decide

(* innobase_commit() applies a transaction that is decided.                *)
LEMMA CommitApplies ==
  ASSUME CommitInv, NEW t \in Trx, Commit(t)
  PROVE  Abstract!Apply(t)
<1>. USE DEF CommitInv, TypeOK, PCs, TrxInv, Goto, Logged, OnDisk, Over,
             Commit, Prepared, session, redo, binlog, locks, server
<1>1. OnDisk(t)
  OBVIOUS
<1>2. \A u \in Trx : (OnDisk(u)' <=> OnDisk(u)) /\ (~OnDisk(u) => (Over(u)' <=> Over(u)))
  BY <1>1
<1>3. Decision' = Decision /\ Decision[t] = "committed"
  BY <1>1, <1>2, DecisionValue, DecisionValuePrimed
<1>4. {u \in Trx : commit_lsn'[u] > 0} = {u \in Trx : commit_lsn[u] > 0} \cup {t}
  OBVIOUS
<1>. QED BY <1>3, <1>4 DEF Abstract!Apply

(* So does recovery; or it rolls back what was decided by the crash.       *)
LEMMA RecoverTrxApplies ==
  ASSUME CommitInv, NEW t \in Trx, RecoverTrx(t)
  PROVE  Abstract!Apply(t) \/ UNCHANGED Abstract!vars
<1>. USE DEF CommitInv, TypeOK, PCs, TrxInv, RotationInv, Goto, Logged, OnDisk, Over,
             RecoverTrx, Prepared, session, redo, binlog, locks, server
<1>1. \A u \in Trx : (OnDisk(u)' <=> OnDisk(u)) /\ (~OnDisk(u) => (Over(u)' <=> Over(u)))
  OBVIOUS
<1>2. CASE t \in commit_list
  <2>1. OnDisk(t)
    BY <1>2
  <2>2. Decision' = Decision /\ Decision[t] = "committed"
    BY <1>1, <2>1, DecisionValue, DecisionValuePrimed
  <2>3. {u \in Trx : commit_lsn'[u] > 0} = {u \in Trx : commit_lsn[u] > 0} \cup {t}
    BY <1>2
  <2>. QED BY <2>2, <2>3 DEF Abstract!Apply
<1>3. CASE t \notin commit_list
  BY <1>1, <1>3, Stutters DEF Applied
<1>. QED BY <1>2, <1>3

(* The client is told what has been decided.                               *)
LEMMA AnswerTells ==
  ASSUME CommitInv, NEW t \in Trx, Answer(t)
  PROVE  Abstract!Tell(t)
<1>. USE DEF CommitInv, TypeOK, PCs, TrxInv, Goto, Logged, Durable, OnDisk, Over,
             Answer, session, redo, binlog, locks, server
<1>1. \A u \in Trx : (OnDisk(u)' <=> OnDisk(u)) /\ (~OnDisk(u) => (Over(u)' <=> Over(u)))
  OBVIOUS
<1>2. Decision' = Decision
  BY <1>1, DecisionValue, DecisionValuePrimed
<1>3. CASE pc[t] = "ok"
  <2>1. OnDisk(t) /\ commit_lsn[t] > 0
    BY <1>3
  <2>2. Decision[t] = "committed"
    BY <2>1, DecisionValue
  <2>. QED BY <1>2, <1>3, <2>1, <2>2 DEF Abstract!Tell
<1>4. CASE pc[t] = "error"
  <2>1. ~OnDisk(t) /\ Over(t)
    BY <1>4
  <2>2. Decision[t] = "aborted"
    BY <2>1, DecisionValue
  <2>. QED BY <1>2, <1>4, <2>2 DEF Abstract!Tell
<1>. QED BY <1>3, <1>4

(* A crash decides what was under way, by what is left of the binary log,  *)
(* and takes no commit back that a client has heard of.                    *)
LEMMA CrashCrashes ==
  ASSUME CommitInv, Crash
  PROVE  Abstract!Crash
<1>. USE DEF CommitInv, TypeOK, PCs, TrxInv, Logged, Durable, OnDisk, Over,
             Crash, Upto, session, redo, binlog, locks, server
<1>1. \A t \in Trx : OnDisk(t) => OnDisk(t)'
  OBVIOUS
<1>2. \A t \in Trx : ~OnDisk(t) /\ Over(t) => ~OnDisk(t)' /\ Over(t)'
  OBVIOUS
<1>3. Decision' \in [Trx -> {"undecided", "committed", "aborted"}]
  BY DecisionValuePrimed
<1>4. \A t \in Trx : Decision[t] # "undecided" => Decision'[t] = Decision[t]
  BY <1>1, <1>2, DecisionValue, DecisionValuePrimed
<1>5. {t \in Trx : commit_lsn'[t] > 0} \in SUBSET {t \in Trx : commit_lsn[t] > 0}
  OBVIOUS
<1>6. \A t \in Trx : commit_lsn[t] > 0 /\ told[t] = "ok" => commit_lsn'[t] > 0
  OBVIOUS
<1>. QED BY <1>3, <1>4, <1>5, <1>6 DEF Abstract!Crash

LEMMA NextRefines == CommitInv /\ [Next]_vars => [Abstract!Next]_(Abstract!vars)
<1>. SUFFICES ASSUME CommitInv, [Next]_vars PROVE [Abstract!Next]_(Abstract!vars)
  OBVIOUS
<1>1. CASE UNCHANGED vars
  BY <1>1, Stutters
     DEF vars, session, redo, binlog, OnDisk, Over, Applied
<1>2. ASSUME NEW t \in Trx,
             \/ \E c \in {{"trx"}, {"stmt", "trx"}} : Begin(t, c)
             \/ Refuse(t) \/ WriteFails(t)
             \/ Session(t)
             \/ RecoverTrx(t)
      PROVE  [Abstract!Next]_(Abstract!vars)
  BY <1>2, SilentSession, SyncXidDecides, RollbackDecides, CommitApplies,
     RecoverTrxApplies, AnswerTells DEF Session, Abstract!Next
<1>3. CASE Crash
  BY <1>3, CrashCrashes DEF Abstract!Next
<1>4. CASE Rotate \/ FlushLogs \/ WriteOther \/ Shutdown \/ OpenTcLog \/ Start
  BY <1>4, SilentServer
<1>. QED BY <1>1, <1>2, <1>3, <1>4 DEF Next

(* Two-phase commit with the binary log implements atomic commit: nothing  *)
(* a client was told is undone, no transaction is decided twice, and the   *)
(* engine never shows an undecided one, whatever crashes and rotates.      *)
THEOREM CommitIsAtomic == Spec => ImplementsAtomicCommit
<1>1. Init => Abstract!Init
  <2>. SUFFICES ASSUME Init PROVE Abstract!Init
    OBVIOUS
  <2>1. \A t \in Trx : ~OnDisk(t) /\ ~Over(t)
    BY DEF Init, OnDisk, Over
  <2>2. Decision = [t \in Trx |-> "undecided"]
    BY <2>1, DecisionValue
  <2>3. {t \in Trx : commit_lsn[t] > 0} = {}
    BY DEF Init
  <2>. QED BY <2>2, <2>3 DEF Init, Abstract!Init
<1>. QED BY <1>1, NextRefines, CommitInvariant, PTL
         DEF Spec, ImplementsAtomicCommit, Abstract!Spec
=============================================================================
