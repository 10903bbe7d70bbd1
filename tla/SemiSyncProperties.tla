------------------------- MODULE SemiSyncProperties -------------------------
(***************************************************************************)
(* What semi-synchronous replication promises a client, and what keeps its *)
(* waits short.                                                            *)
(***************************************************************************)
EXTENDS SemiSync

(* A commit that counts as a yes transaction (Rpl_semi_sync_master_yes_tx) *)
(* is in the relay log of some slave: it survives the loss of the master.  *)
YesOnSlave ==
  \A c \in Sessions : answer[c] = "yes" => \E s \in Slaves : got[s] >= pos[c]

(* The assertion at the end of commitTrx(): "At this point, the binlog     *)
(* file and position of this transaction must have been removed from       *)
(* ActiveTranx."                                                           *)
ReturnedRemoved ==
  \A c \in Sessions : pc[c] = "idle" => pos[c] \notin m.active

(* No wakeup is lost: a session whose transaction is acknowledged, or that *)
(* waits although semi-sync is off, has been reached by a broadcast or is  *)
(* about to be; it does not have to wait for its timeout                   *)
(* (reportReplyBinlog() broadcasts after it has released the mutex).       *)
NoLostWakeup ==
  \A c \in Waiting \ notified :
    m.state = FALSE \/ (m.reply_inited /\ m.reply >= pos[c]) =>
      \E s \in Slaves : at[s] = "broadcast"

(* The state the mutex LOCK_binlog_ protects is what its owners assume     *)
(* when they take it: well formed, without the transactions of sessions    *)
(* that have returned, and without a session that nobody will wake.        *)
Consistent == TypeOK /\ ReturnedRemoved /\ NoLostWakeup

(* updateSyncHeader() does not ask for a reply to every event.  When a     *)
(* session waits for a transaction of ActiveTranx, every connected slave   *)
(* still has to be sent that transaction or a later one of the list, or    *)
(* has been asked for a reply that will cover it.  (Disabling the plugin   *)
(* empties the list and wakes the sessions; one that looks only after the  *)
(* plugin is enabled again is not meant here.)                             *)
AckAsked ==
  \A c \in Waiting \ notified, s \in Slaves :
    /\ pos[c] \in m.active
    /\ at[s] = "ready"
    => \E p \in m.active : p > sent[s] /\ p >= pos[c]

(* Every commit returns to its client, whatever the slaves do, unless the  *)
(* server dies (commitTrx(): "transactions would not wait indefintely").   *)
CommitReturns ==
  \A c \in Sessions : pc[c] = "written" ~> pc[c] = "idle" \/ crashed
=============================================================================
