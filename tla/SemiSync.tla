------------------------------ MODULE SemiSync ------------------------------
(***************************************************************************)
(* The master side of semi-synchronous replication:                        *)
(* plugin/semisync/semisync_master.cc with the hooks of                    *)
(* semisync_master_plugin.cc, the sessions that commit, the binlog dump    *)
(* threads, and the slaves as the master sees them.                        *)
(*                                                                         *)
(* A session writes its transaction to the binary log and, after the       *)
(* engine commit, waits until some slave has acknowledged it, semi-sync is *)
(* switched off, or its wait times out.  A timeout switches semi-sync off  *)
(* for everyone; a slave that catches up switches it on again.             *)
(*                                                                         *)
(* A binary log position is the number of a transaction.  One action is    *)
(* one critical section of LOCK_binlog_ (the record m is what it           *)
(* protects), or one message.                                              *)
(***************************************************************************)
EXTENDS Naturals, FiniteSets

CONSTANTS
  Sessions,     \* sessions that commit
  Slaves,       \* semi-sync slaves
  MaxPos,       \* bound on the transactions that are written
  MaxConnects,  \* bound on the connections of slaves
  MaxToggles    \* bound on changes of rpl_semi_sync_master_enabled

ASSUME BoundsAssumption ==
  MaxPos \in Nat /\ MaxConnects \in Nat /\ MaxToggles \in Nat
ASSUME FiniteAssumption == IsFiniteSet(Sessions) /\ IsFiniteSet(Slaves)

VARIABLES
  m,          \* ReplSemiSyncMaster, protected by LOCK_binlog_
  log_end,    \* the last position of the binary log
  pc,         \* Sessions -> where it is
  pos,        \* Sessions -> the position its transaction ends at
  notified,   \* the sessions in cond_timewait() that a broadcast has reached
  answer,     \* Sessions -> "yes" if its last commit counted as acknowledged
  at,         \* Slaves -> where its dump thread is
  sent,       \* Slaves -> the last position its dump thread has sent
  got,        \* Slaves -> the last position in its relay log
  crashed,    \* the server has called a method of a null ActiveTranx
  connects, toggles   \* counters for the bounds

session == <<log_end, pc, pos, notified, answer>>
dump == <<at, sent, got, connects>>
vars == <<m, session, dump, crashed, toggles>>

Positions == 0 .. MaxPos

TypeOK ==
  /\ m \in [enabled : BOOLEAN, state : BOOLEAN,
            reply_inited : BOOLEAN, reply : Positions,
            wait_inited : BOOLEAN, wait : Positions,
            commit_inited : BOOLEAN, commit : Positions,
            active : SUBSET Positions, wait_sessions : 0 .. Cardinality(Sessions),
            clients : 0 .. Cardinality(Slaves)]
  /\ log_end \in Positions
  /\ pc \in [Sessions -> {"idle", "written", "waiting"}]
  /\ pos \in [Sessions -> Positions]
  /\ notified \in SUBSET Sessions
  /\ answer \in [Sessions -> {"yes", "no"}]
  /\ at \in [Slaves -> {"off", "report", "broadcast", "ready", "net"}]
  /\ sent \in [Slaves -> Positions]
  /\ got \in [Slaves -> Positions]
  /\ crashed \in BOOLEAN
  /\ connects \in 0 .. MaxConnects
  /\ toggles \in 0 .. MaxToggles

(* The plugin starts disabled and enableMaster() runs at its installation. *)
Init ==
  /\ m = [enabled |-> TRUE, state |-> TRUE, reply_inited |-> FALSE, reply |-> 0,
          wait_inited |-> FALSE, wait |-> 0, commit_inited |-> FALSE, commit |-> 0,
          active |-> {}, wait_sessions |-> 0, clients |-> 0]
  /\ log_end = 0
  /\ pc = [c \in Sessions |-> "idle"]
  /\ pos = [c \in Sessions |-> 0]
  /\ notified = {}
  /\ answer = [c \in Sessions |-> "no"]
  /\ at = [s \in Slaves |-> "off"]
  /\ sent = [s \in Slaves |-> 0]
  /\ got = [s \in Slaves |-> 0]
  /\ crashed = FALSE
  /\ connects = 0
  /\ toggles = 0

-----------------------------------------------------------------------------
(* The private operations of ReplSemiSyncMaster, on its state x.           *)

Waiting == {c \in Sessions : pc[c] = "waiting"}

(* ActiveTranx keeps the positions in a list, in the order of the binary   *)
(* log, and in a hash table.                                               *)
insert_tranx_node(x, p) == [x EXCEPT !.active = @ \cup {p}]
is_tranx_end_pos(x, p) == p \in x.active
clear_active_tranx_nodes(x, p) == [x EXCEPT !.active = {q \in @ : q > p}]

(* switch_off(): every caller also broadcasts to the waiting sessions.     *)
switch_off(x) ==
  [clear_active_tranx_nodes(x, MaxPos) EXCEPT
     !.state = FALSE, !.wait_inited = FALSE, !.reply_inited = FALSE]

try_switch_on(x, p) ==
  IF x.commit_inited /\ p < x.commit THEN x ELSE [x EXCEPT !.state = TRUE]

(* reportReplyBinlog() copies the position unless it is behind, and        *)
(* removes the transactions up to it from ActiveTranx.                     *)
copy_reply(x, p) ==
  IF x.reply_inited /\ p < x.reply THEN x
  ELSE [clear_active_tranx_nodes(x, p) EXCEPT !.reply = p, !.reply_inited = TRUE]

(* The waiting sessions are released if the reply reaches wait_file_pos_,  *)
(* which keeps its old value when it is not inited.                        *)
can_release(x) == x.wait_sessions > 0 /\ x.reply >= x.wait

(* writeTranxInBinlog() keeps the largest position seen.                   *)
update_commit(x, p) ==
  IF x.commit_inited /\ p <= x.commit THEN x
  ELSE [x EXCEPT !.commit = p, !.commit_inited = TRUE]

(* Mutant: the largest position that is waited for is registered.          *)
update_wait_Largest(x, p) ==
  IF x.wait_inited /\ p < x.wait THEN x
  ELSE [x EXCEPT !.wait = p, !.wait_inited = TRUE]

(* commitTrx() registers the smallest position that is waited for.         *)
update_wait(x, p) ==
  IF x.wait_inited /\ p > x.wait THEN x
  ELSE [x EXCEPT !.wait = p, !.wait_inited = TRUE]

(* Mutant: no reply is asked for at the position that is waited for.       *)
sync_PastWait(x, p) ==
  /\ x.enabled
  /\ IF x.state
     THEN /\ ~(x.reply_inited /\ p <= x.reply)
          /\ ~(x.wait_inited /\ p <= x.wait)
          /\ is_tranx_end_pos(x, p)
     ELSE x.commit_inited => p >= x.commit

(* updateSyncHeader(): does the event that ends at p ask for a reply?      *)
sync(x, p) ==
  /\ x.enabled
  /\ IF x.state
     THEN /\ ~(x.reply_inited /\ p <= x.reply)
          /\ ~(x.wait_inited /\ p < x.wait)
          /\ is_tranx_end_pos(x, p)
     ELSE x.commit_inited => p >= x.commit

-----------------------------------------------------------------------------
(* Sessions.                                                               *)

(* MYSQL_BIN_LOG::write() and its after_flush hook, writeTranxInBinlog(),  *)
(* under LOCK_log, which the dump threads need to read the event.  The     *)
(* node of ActiveTranx may fail to be allocated.                           *)
Write(c) ==
  /\ pc[c] = "idle"
  /\ log_end < MaxPos
  /\ log_end' = log_end + 1
  /\ pos' = [pos EXCEPT ![c] = log_end + 1]
  /\ pc' = [pc EXCEPT ![c] = "written"]
  /\ answer' = [answer EXCEPT ![c] = "no"]
  /\ LET x == update_commit(m, log_end + 1)
     IN \/ /\ ~m.enabled
           /\ UNCHANGED <<m, notified>>
        \/ /\ m.enabled /\ m.state
           /\ m' = insert_tranx_node(x, log_end + 1)
           /\ UNCHANGED notified
        \/ /\ m.enabled /\ m.state
           /\ m' = switch_off(x)
           /\ notified' = Waiting
        \/ /\ m.enabled /\ ~m.state
           /\ m' = x
           /\ UNCHANGED notified
  /\ UNCHANGED <<dump, crashed, toggles>>

(* commitTrx() does not wait: the session counts as a yes or a no          *)
(* transaction.                                                            *)
Return(c, x) ==
  /\ m' = x
  /\ pc' = [pc EXCEPT ![c] = "idle"]
  /\ answer' = [answer EXCEPT ![c] = IF x.state THEN "yes" ELSE "no"]

(* commitTrx() goes into cond_timewait().                                  *)
Wait(c, x) ==
  /\ m' = [update_wait(x, pos[c]) EXCEPT !.wait_sessions = @ + 1]
  /\ pc' = [pc EXCEPT ![c] = "waiting"]
  /\ UNCHANGED answer

(* Mutant: the reply is compared with the smallest position waited for.    *)
Loop_MinPosition(c, x) ==
  IF x.state /\ ~(x.reply_inited /\ x.reply >= x.wait) THEN Wait(c, x) ELSE Return(c, x)

(* The loop of commitTrx(), from its condition to the next wait.           *)
Loop(c, x) ==
  IF x.state /\ ~(x.reply_inited /\ x.reply >= pos[c]) THEN Wait(c, x) ELSE Return(c, x)

(* The after_commit hook of the session, commitTrx(), when the plugin is   *)
(* enabled.                                                                *)
CommitTrx(c) ==
  /\ pc[c] = "written"
  /\ m.enabled
  /\ Loop(c, m)
  /\ UNCHANGED <<log_end, pos, notified, dump, crashed, toggles>>

(* The hook of a disabled plugin does nothing but, if it was disabled      *)
(* after the test without the mutex, count a no transaction.               *)
CommitPlain(c) ==
  /\ pc[c] = "written"
  /\ ~m.enabled
  /\ pc' = [pc EXCEPT ![c] = "idle"]
  /\ UNCHANGED <<m, log_end, pos, notified, answer, dump, crashed, toggles>>

(* A session that a broadcast has reached goes on in the loop.             *)
Wake(c) ==
  /\ pc[c] = "waiting"
  /\ c \in notified
  /\ Loop(c, [m EXCEPT !.wait_sessions = @ - 1])
  /\ notified' = notified \ {c}
  /\ UNCHANGED <<log_end, pos, dump, crashed, toggles>>

(* Mutant: a session whose wait has timed out looks for its reply again.   *)
Timeout_Retries(c) ==
  /\ pc[c] = "waiting"
  /\ m.enabled
  /\ Loop(c, [m EXCEPT !.wait_sessions = @ - 1])
  /\ notified' = notified \ {c}
  /\ UNCHANGED <<log_end, pos, dump, crashed, toggles>>

(* The wait times out and switch_off() runs; the reply may have come, and  *)
(* the plugin may have been disabled, before the session got the mutex     *)
(* back.  A disabled plugin has no ActiveTranx.                            *)
Timeout(c) ==
  /\ pc[c] = "waiting"
  /\ m.enabled
  /\ Return(c, switch_off([m EXCEPT !.wait_sessions = @ - 1]))
  /\ notified' = Waiting \ {c}
  /\ UNCHANGED <<log_end, pos, dump, crashed, toggles>>

TimeoutDisabled(c) ==
  /\ pc[c] = "waiting"
  /\ ~m.enabled
  /\ crashed' = TRUE
  /\ UNCHANGED <<m, session, dump, toggles>>

-----------------------------------------------------------------------------
(* Dump threads and slaves.                                                *)

(* A slave connects at the end of its relay log: binlog_dump_start hook,   *)
(* add_slave().                                                            *)
Connect(s) ==
  /\ at[s] = "off"
  /\ connects < MaxConnects
  /\ connects' = connects + 1
  /\ m' = [m EXCEPT !.clients = @ + 1]
  /\ sent' = [sent EXCEPT ![s] = got[s]]
  /\ at' = [at EXCEPT ![s] = "report"]
  /\ UNCHANGED <<session, got, crashed, toggles>>

(* reportReplyBinlog(), for the position the slave connected at or has     *)
(* acknowledged; the broadcast follows after the mutex is released.        *)
Report(s) ==
  /\ at[s] = "report"
  /\ LET x == copy_reply(IF m.state THEN m ELSE try_switch_on(m, sent[s]), sent[s])
     IN \/ /\ ~m.enabled
           /\ at' = [at EXCEPT ![s] = "ready"]
           /\ UNCHANGED m
        \/ /\ m.enabled /\ can_release(x)
           /\ m' = [x EXCEPT !.wait_inited = FALSE]
           /\ at' = [at EXCEPT ![s] = "broadcast"]
        \/ /\ m.enabled /\ ~can_release(x)
           /\ m' = x
           /\ at' = [at EXCEPT ![s] = "ready"]
  /\ UNCHANGED <<session, sent, got, connects, crashed, toggles>>

Broadcast(s) ==
  /\ at[s] = "broadcast"
  /\ notified' = Waiting
  /\ at' = [at EXCEPT ![s] = "ready"]
  /\ UNCHANGED <<m, log_end, pc, pos, answer, sent, got, connects, crashed, toggles>>

(* The dump thread sends the next event with the header of                 *)
(* updateSyncHeader(), and waits for the reply in readSlaveReply() if the  *)
(* header asks for one.                                                    *)
Send(s) ==
  /\ at[s] = "ready"
  /\ sent[s] < log_end
  /\ sent' = [sent EXCEPT ![s] = @ + 1]
  /\ at' = [at EXCEPT ![s] = IF sync(m, sent[s] + 1) THEN "net" ELSE "ready"]
  /\ UNCHANGED <<m, session, got, connects, crashed, toggles>>

(* The slave queues an event in its relay log, and then replies if the     *)
(* master has asked for it.                                                *)
Receive(s) ==
  /\ got[s] < sent[s]
  /\ got' = [got EXCEPT ![s] = @ + 1]
  /\ at' = [at EXCEPT ![s] = IF @ = "net" /\ got[s] + 1 = sent[s] THEN "report" ELSE @]
  /\ UNCHANGED <<m, session, sent, connects, crashed, toggles>>

(* The connection is lost with what was on its way, and the dump thread    *)
(* ends: binlog_dump_end hook, remove_slave().  wait_no_slave is           *)
(* rpl_semi_sync_master_wait_no_slave at that moment.                      *)
Disconnect(s, wait_no_slave) ==
  /\ at[s] \in {"ready", "net"}
  /\ at' = [at EXCEPT ![s] = "off"]
  /\ sent' = [sent EXCEPT ![s] = got[s]]
  /\ LET x == [m EXCEPT !.clients = @ - 1]
         off == m.enabled /\ m.state /\ ~wait_no_slave /\ x.clients = 0
     IN /\ m' = IF off THEN switch_off(x) ELSE x
        /\ notified' = IF off THEN Waiting ELSE notified
  /\ UNCHANGED <<log_end, pc, pos, answer, got, connects, crashed, toggles>>

-----------------------------------------------------------------------------
(* SET GLOBAL rpl_semi_sync_master_enabled.                                *)

EnableMaster ==
  /\ toggles < MaxToggles
  /\ toggles' = toggles + 1
  /\ ~m.enabled
  /\ m' = [m EXCEPT !.enabled = TRUE, !.state = TRUE, !.active = {},
                    !.commit_inited = FALSE, !.reply_inited = FALSE,
                    !.wait_inited = FALSE]
  /\ UNCHANGED <<session, dump, crashed>>

DisableMaster ==
  /\ toggles < MaxToggles
  /\ toggles' = toggles + 1
  /\ m.enabled
  /\ m' = [switch_off(m) EXCEPT !.enabled = FALSE, !.commit_inited = FALSE]
  /\ notified' = Waiting
  /\ UNCHANGED <<log_end, pc, pos, answer, dump, crashed>>

-----------------------------------------------------------------------------
Session(c) == CommitTrx(c) \/ CommitPlain(c) \/ Wake(c) \/ Timeout(c) \/ TimeoutDisabled(c)

Next ==
  /\ ~crashed
  /\ \/ \E c \in Sessions : Write(c) \/ Session(c)
     \/ \E s \in Slaves :
          \/ Connect(s) \/ Report(s) \/ Broadcast(s) \/ Send(s) \/ Receive(s)
          \/ \E w \in BOOLEAN : Disconnect(s, w)
     \/ EnableMaster \/ DisableMaster

Spec == Init /\ [][Next]_vars

(* A session that has written its transaction goes on, and rpl_semi_sync_  *)
(* master_timeout is finite: its wait ends.  Nothing is assumed of the     *)
(* slaves.                                                                 *)
Fairness ==
  \A c \in Sessions : WF_vars(~crashed /\ Session(c))

FairSpec == Spec /\ Fairness
=============================================================================
