----------------------- MODULE BinlogCommitProperties -----------------------
(***************************************************************************)
(* What two-phase commit with the binary log guarantees.                   *)
(***************************************************************************)
EXTENDS BinlogCommit

Ended(t) == pc[t] \in {"done", "gone"}
Durable(t) == commit_lsn[t] > 0 /\ commit_lsn[t] <= flushed_lsn
Logged(t) == xid_pos[t] > 0

(* Master and slaves agree: once a transaction has ended and the server    *)
(* runs (again), its changes are in the engine exactly if they are in the  *)
(* binary log the slaves read, whatever crashed in between                 *)
(* (TC_LOG_BINLOG::recover()).                                             *)
Agreement ==
  phase = "running" => \A t \in Trx : Ended(t) => (Logged(t) <=> commit_lsn[t] > 0)

(* The comment in new_file_impl(): "be sure all xids are "unlogged", so    *)
(* that on recover we only need to scan one - latest - binlog file": a     *)
(* transaction that is in the binary log and that a crash may still find   *)
(* prepared is in the last file, and that file is marked in use.           *)
InLastFile ==
  \A t \in Trx : Logged(t) /\ ~Durable(t) => xid_pos[t] > last_start /\ in_use

(* innobase_xa_prepare(): "the order of transactions in binlog and InnoDB  *)
(* must be the same".  The engine has the changes of a prefix of the       *)
(* transactions in the binary log, so a physical copy of it corresponds to *)
(* one binary log position.  Recovery commits in any order, but ends with  *)
(* a prefix again.                                                         *)
CommittedPrefix ==
  phase = "running" =>
    \A t, u \in Trx :
      Logged(t) /\ xid_pos[t] < xid_pos[u] /\ commit_lsn[u] > 0 => commit_lsn[t] > 0

(* No COMMIT is stuck: prepare_commit_mutex, LOCK_log and the wait for     *)
(* prepared_xids = 0 in a rotation never block each other, and every error *)
(* path gives its mutex back.                                              *)
CommitEnds == \A t \in Trx : pc[t] = "prepare" ~> Ended(t)

-----------------------------------------------------------------------------
(* The refinement of AtomicCommit: a transaction is decided by its         *)
(* Xid_log_event reaching the disk.                                        *)
Decision == [t \in Trx |->
  CASE Logged(t) /\ xid_pos[t] <= log_synced -> "committed"
    [] ~(Logged(t) /\ xid_pos[t] <= log_synced) /\ pc[t] \in {"error", "done", "gone"} -> "aborted"
    [] OTHER -> "undecided"]

Abstract == INSTANCE AtomicCommit WITH
  decision <- Decision, applied <- {t \in Trx : commit_lsn[t] > 0}

(* ha_commit_trans() with TC_LOG_BINLOG, rotation, crashes and recovery    *)
(* implements the atomic commit that clients and slaves rely on.           *)
ImplementsAtomicCommit == Abstract!Spec
=============================================================================
