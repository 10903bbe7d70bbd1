--------------------------- MODULE SemiSyncProofs ---------------------------
(***************************************************************************)
(* Proofs, for any number of sessions and slaves, that a commit that       *)
(* counts as acknowledged is in the relay log of some slave, that no       *)
(* session is left waiting with nobody to wake it, and that the reply it   *)
(* waits for has been or will be asked for.                                *)
(***************************************************************************)
EXTENDS SemiSyncProperties, Integers, FiniteSetTheorems, TLAPS

(* The state of ReplSemiSyncMaster; nothing is said here of its counters.  *)
Master == [enabled : BOOLEAN, state : BOOLEAN,
           reply_inited : BOOLEAN, reply : Nat,
           wait_inited : BOOLEAN, wait : Nat,
           commit_inited : BOOLEAN, commit : Nat,
           active : SUBSET Nat, wait_sessions : Int, clients : Int]

Types ==
  /\ m \in Master
  /\ log_end \in Nat
  /\ pc \in [Sessions -> {"idle", "written", "waiting"}]
  /\ pos \in [Sessions -> Nat]
  /\ answer \in [Sessions -> {"yes", "no"}]
  /\ at \in [Slaves -> {"off", "report", "broadcast", "ready", "net"}]
  /\ sent \in [Slaves -> Nat]
  /\ got \in [Slaves -> Nat]

(* Some slave has received everything up to p.                             *)
Received(p) == \E s \in Slaves : got[s] >= p

(* A reply that reportReplyBinlog() is called for, or has stored, is for   *)
(* what the slave has in its relay log.                                    *)
ReplyInv ==
  /\ \A s \in Slaves : at[s] = "report" => got[s] >= sent[s]
  /\ m.reply_inited => Received(m.reply)

AckInv == Types /\ ReplyInv /\ YesOnSlave

-----------------------------------------------------------------------------
(* The private operations of ReplSemiSyncMaster keep its type, and only    *)
(* copy_reply() sets the reply.                                            *)
LEMMA InsertNode ==
  ASSUME NEW x \in Master, NEW p \in Nat
  PROVE  /\ insert_tranx_node(x, p) \in Master
         /\ insert_tranx_node(x, p).reply_inited = x.reply_inited
         /\ insert_tranx_node(x, p).reply = x.reply
<1>1. insert_tranx_node(x, p) \in Master
  BY DEF insert_tranx_node, Master
<1>2. /\ insert_tranx_node(x, p).reply_inited = x.reply_inited
      /\ insert_tranx_node(x, p).reply = x.reply
  BY DEF insert_tranx_node, Master
<1>. QED BY <1>1, <1>2

LEMMA TrySwitchOn ==
  ASSUME NEW x \in Master, NEW p \in Nat
  PROVE  /\ try_switch_on(x, p) \in Master
         /\ try_switch_on(x, p).reply_inited = x.reply_inited
         /\ try_switch_on(x, p).reply = x.reply
<1>1. try_switch_on(x, p) \in Master
  BY DEF try_switch_on, Master
<1>2. /\ try_switch_on(x, p).reply_inited = x.reply_inited
      /\ try_switch_on(x, p).reply = x.reply
  BY DEF try_switch_on, Master
<1>. QED BY <1>1, <1>2

LEMMA UpdateCommit ==
  ASSUME NEW x \in Master, NEW p \in Nat
  PROVE  /\ update_commit(x, p) \in Master
         /\ update_commit(x, p).reply_inited = x.reply_inited
         /\ update_commit(x, p).reply = x.reply
<1>1. update_commit(x, p) \in Master
  BY DEF update_commit, Master
<1>2. /\ update_commit(x, p).reply_inited = x.reply_inited
      /\ update_commit(x, p).reply = x.reply
  BY DEF update_commit, Master
<1>. QED BY <1>1, <1>2

LEMMA UpdateWait ==
  ASSUME NEW x \in Master, NEW p \in Nat
  PROVE  /\ update_wait(x, p) \in Master
         /\ update_wait(x, p).reply_inited = x.reply_inited
         /\ update_wait(x, p).reply = x.reply
<1>1. update_wait(x, p) \in Master
  BY DEF update_wait, Master
<1>2. /\ update_wait(x, p).reply_inited = x.reply_inited
      /\ update_wait(x, p).reply = x.reply
  BY DEF update_wait, Master
<1>. QED BY <1>1, <1>2

LEMMA SwitchOff ==
  ASSUME NEW x \in Master
  PROVE  switch_off(x) \in Master /\ ~switch_off(x).reply_inited /\ ~switch_off(x).state
BY BoundsAssumption DEF Master, clear_active_tranx_nodes, switch_off

LEMMA CopyReply ==
  ASSUME NEW x \in Master, NEW p \in Nat
  PROVE  /\ copy_reply(x, p) \in Master
         /\ copy_reply(x, p).reply # p
              => (x.reply_inited /\ copy_reply(x, p).reply = x.reply)
<1>1. copy_reply(x, p) \in Master
  BY DEF copy_reply, clear_active_tranx_nodes, Master
<1>2. copy_reply(x, p).reply # p => (x.reply_inited /\ copy_reply(x, p).reply = x.reply)
  BY DEF copy_reply, clear_active_tranx_nodes, Master
<1>. QED BY <1>1, <1>2

-----------------------------------------------------------------------------
(* A reply stays received: a slave never loses what is in its relay log.   *)
LEMMA ReceivedStays ==
  ASSUME Types, Types', NEW p \in Nat, Received(p),
         \A s \in Slaves : got'[s] >= got[s]
  PROVE  Received(p)'
BY DEF Types, Received

(* The initial state.                                                      *)
LEMMA InitAckInv == Init => AckInv
BY DEF Init, AckInv, Types, Master, ReplyInv, YesOnSlave

(* writeTranxInBinlog().                                                   *)
LEMMA WriteKeeps == ASSUME AckInv, NEW c \in Sessions, Write(c) PROVE AckInv'
<1>. USE DEF AckInv
<1>. DEFINE p == log_end + 1
            x == update_commit(m, p)
<1>1. p \in Nat
  BY DEF Types
<1>2. /\ x \in Master
      /\ x.reply_inited = m.reply_inited
      /\ x.reply = m.reply
  BY <1>1, UpdateCommit DEF Types
<1>. HIDE DEF x, p
<1>3. \/ m' = m
      \/ m' = insert_tranx_node(x, p)
      \/ m' = switch_off(x)
      \/ m' = x
  BY DEF Write, x, p
<1>4. m' \in Master /\ (m'.reply_inited => (m.reply_inited /\ m'.reply = m.reply))
  <2>1. CASE m' = m
    BY <2>1 DEF Types
  <2>2. CASE m' = insert_tranx_node(x, p)
    BY <1>1, <1>2, <2>2, InsertNode
  <2>3. CASE m' = switch_off(x)
    BY <1>2, <2>3, SwitchOff
  <2>4. CASE m' = x
    BY <1>2, <2>4
  <2>. QED BY <1>3, <2>1, <2>2, <2>3, <2>4
<1>5. UNCHANGED <<at, sent, got>>
  BY DEF Write, dump
<1>6. Types'
  BY <1>1, <1>4, <1>5 DEF Write, Types, p
<1>7. ReplyInv'
  BY <1>4, <1>5 DEF ReplyInv, Received
<1>8. YesOnSlave'
  BY <1>5 DEF YesOnSlave, Write, Types
<1>. QED BY <1>6, <1>7, <1>8

(* One round of the loop of commitTrx(), on a state x with the reply of m. *)
LEMMA LoopKeeps ==
  ASSUME AckInv, NEW c \in Sessions, NEW x \in Master,
         x.reply_inited = m.reply_inited, x.reply = m.reply,
         Loop(c, x), UNCHANGED <<log_end, pos, at, sent, got>>
  PROVE  AckInv'
<1>. USE DEF AckInv
<1>1. pos[c] \in Nat
  BY DEF Types
<1>2. CASE Wait(c, x)
  <2>. DEFINE y == update_wait(x, pos[c])
  <2>1. y \in Master /\ y.reply_inited = m.reply_inited /\ y.reply = m.reply
    BY <1>1, UpdateWait
  <2>2. m' = [y EXCEPT !.wait_sessions = @ + 1]
    BY <1>2 DEF Wait
  <2>. HIDE DEF y
  <2>3. m' \in Master /\ m'.reply_inited = m.reply_inited /\ m'.reply = m.reply
    BY <2>1, <2>2 DEF Master
  <2>4. Types'
    BY <1>2, <2>3 DEF Wait, Types
  <2>5. ReplyInv' /\ YesOnSlave'
    BY <1>2, <2>3 DEF Wait, ReplyInv, Received, YesOnSlave
  <2>. QED BY <2>4, <2>5
<1>3. CASE Return(c, x) /\ (x.state => (x.reply_inited /\ x.reply >= pos[c]))
  <2>1. Types'
    BY <1>3 DEF Return, Types
  <2>2. ReplyInv'
    BY <1>3 DEF Return, ReplyInv, Received
  <2>3. ASSUME x.state PROVE \E s \in Slaves : got[s] >= pos[c]
    <3>1. m.reply \in Nat /\ m.reply >= pos[c] /\ Received(m.reply)
      BY <1>3, <2>3 DEF ReplyInv, Types, Master
    <3>. QED BY <1>1, <3>1 DEF Received, Types
  <2>4. answer' = [answer EXCEPT ![c] = IF x.state THEN "yes" ELSE "no"]
    BY <1>3 DEF Return
  <2>5. YesOnSlave'
    BY <2>3, <2>4 DEF YesOnSlave, Types
  <2>. QED BY <2>1, <2>2, <2>5
<1>. QED BY <1>2, <1>3 DEF Loop

(* commitTrx() when the wait times out.                                    *)
LEMMA TimeoutKeeps == ASSUME AckInv, NEW c \in Sessions, Timeout(c) PROVE AckInv'
<1>. USE DEF AckInv
<1>. DEFINE x == [m EXCEPT !.wait_sessions = @ - 1]
<1>1. x \in Master
  BY DEF Types, Master
<1>2. switch_off(x) \in Master /\ ~switch_off(x).reply_inited /\ ~switch_off(x).state
  BY <1>1, SwitchOff
<1>3. Return(c, switch_off(x)) /\ UNCHANGED <<log_end, pos, at, sent, got>>
  BY DEF Timeout, dump
<1>. HIDE DEF x
<1>4. Types'
  BY <1>2, <1>3 DEF Return, Types
<1>5. ReplyInv'
  BY <1>2, <1>3 DEF Return, ReplyInv, Received
<1>6. YesOnSlave'
  BY <1>2, <1>3 DEF Return, YesOnSlave, Types
<1>. QED BY <1>4, <1>5, <1>6

(* reportReplyBinlog() stores what the slave has acknowledged.             *)
LEMMA ReportKeeps == ASSUME AckInv, NEW s \in Slaves, Report(s) PROVE AckInv'
<1>. USE DEF AckInv
<1>. DEFINE y == IF m.state THEN m ELSE try_switch_on(m, sent[s])
            x == copy_reply(y, sent[s])
<1>1. sent[s] \in Nat /\ got[s] >= sent[s]
  BY DEF Types, ReplyInv, Report
<1>2. y \in Master /\ y.reply_inited = m.reply_inited /\ y.reply = m.reply
  BY <1>1, TrySwitchOn DEF Types
<1>3. x \in Master /\ (x.reply # sent[s] => (m.reply_inited /\ x.reply = m.reply))
  <2>. HIDE DEF y
  <2>. QED BY <1>1, <1>2, CopyReply
<1>4. m' = m \/ m' = x \/ m' = [x EXCEPT !.wait_inited = FALSE]
  BY DEF Report
<1>. HIDE DEF x
<1>5. /\ m' \in Master
      /\ m'.reply_inited
           => (m'.reply = sent[s] \/ (m.reply_inited /\ m'.reply = m.reply))
  BY <1>3, <1>4 DEF Master, Types
<1>6. /\ UNCHANGED <<log_end, pc, pos, answer, sent, got>>
      /\ \E l \in {"ready", "broadcast"} : at' = [at EXCEPT ![s] = l]
  BY DEF Report, session
<1>7. Types'
  BY <1>5, <1>6 DEF Types
<1>8. ReplyInv'
  <2>1. m'.reply_inited => Received(m'.reply)
    BY <1>1, <1>5 DEF ReplyInv, Received
  <2>. QED BY <1>6, <2>1 DEF ReplyInv, Received, Types
<1>9. YesOnSlave'
  BY <1>6 DEF YesOnSlave
<1>. QED BY <1>7, <1>8, <1>9

(* A slave queues an event and may reply.                                  *)
LEMMA ReceiveKeeps == ASSUME AckInv, NEW s \in Slaves, Receive(s) PROVE AckInv'
<1>. USE DEF AckInv
<1>1. UNCHANGED <<m, log_end, pc, pos, answer, sent>>
  BY DEF Receive, session
<1>2. Types'
  BY <1>1 DEF Receive, Types
<1>3. \A q \in Slaves : got'[q] >= got[q]
  BY DEF Receive, Types
<1>4. \A q \in Slaves : at'[q] = "report" => got'[q] >= sent'[q]
  BY <1>1 DEF Receive, Types, ReplyInv
<1>5. m'.reply_inited => Received(m.reply)'
  BY <1>1, <1>2, <1>3, ReceivedStays DEF ReplyInv, Types, Master
<1>6. YesOnSlave'
  BY <1>1, <1>3, <1>2 DEF YesOnSlave, Types
<1>. QED BY <1>1, <1>2, <1>4, <1>5, <1>6 DEF ReplyInv, Received

(* The other steps of the dump threads.                                    *)
LEMMA DumpKeeps ==
  ASSUME AckInv, NEW s \in Slaves, NEW w \in BOOLEAN,
         Connect(s) \/ Broadcast(s) \/ Send(s) \/ Disconnect(s, w)
  PROVE  AckInv'
<1>. USE DEF AckInv
<1>. DEFINE x == [m EXCEPT !.clients = @ - 1]
<1>1. x \in Master /\ x.reply_inited = m.reply_inited /\ x.reply = m.reply
  BY DEF Types, Master
<1>2. m' = m \/ m' = [m EXCEPT !.clients = @ + 1] \/ m' = x \/ m' = switch_off(x)
  BY DEF Connect, Broadcast, Send, Disconnect
<1>3. m' \in Master /\ (m'.reply_inited => (m.reply_inited /\ m'.reply = m.reply))
  <2>1. CASE m' = [m EXCEPT !.clients = @ + 1]
    BY <2>1 DEF Types, Master
  <2>. HIDE DEF x
  <2>. QED BY <1>1, <1>2, <2>1, SwitchOff DEF Types
<1>4. UNCHANGED <<log_end, pc, pos, answer, got>>
  BY DEF Connect, Broadcast, Send, Disconnect, session
<1>5. /\ at' \in [Slaves -> {"off", "report", "broadcast", "ready", "net"}]
      /\ sent' \in [Slaves -> Nat]
  BY DEF Connect, Broadcast, Send, Disconnect, Types
<1>6. \A q \in Slaves : at'[q] = "report" => got[q] >= sent'[q]
  BY DEF Connect, Broadcast, Send, Disconnect, Types, ReplyInv
<1>7. Types'
  BY <1>3, <1>4, <1>5 DEF Types
<1>8. ReplyInv' /\ YesOnSlave'
  BY <1>3, <1>4, <1>6 DEF ReplyInv, Received, YesOnSlave
<1>. QED BY <1>7, <1>8

(* rpl_semi_sync_master_enabled.                                           *)
LEMMA ToggleKeeps == ASSUME AckInv, EnableMaster \/ DisableMaster PROVE AckInv'
<1>. USE DEF AckInv
<1>1. UNCHANGED <<log_end, pc, pos, answer, at, sent, got>>
  BY DEF EnableMaster, DisableMaster, session, dump
<1>2. m' \in Master /\ ~m'.reply_inited
  <2>1. CASE EnableMaster
    BY <2>1 DEF EnableMaster, Types, Master
  <2>2. CASE DisableMaster
    <3>. DEFINE x == switch_off(m)
    <3>1. x \in Master /\ ~x.reply_inited
      BY SwitchOff DEF Types
    <3>2. m' = [x EXCEPT !.enabled = FALSE, !.commit_inited = FALSE]
      BY <2>2 DEF DisableMaster
    <3>. HIDE DEF x
    <3>. QED BY <3>1, <3>2 DEF Master
  <2>. QED BY <2>1, <2>2
<1>3. Types'
  BY <1>1, <1>2 DEF Types
<1>. QED BY <1>1, <1>2, <1>3 DEF ReplyInv, Received, YesOnSlave

-----------------------------------------------------------------------------
(* The acknowledgement invariant holds whatever the sessions, the slaves,  *)
(* the network and the administrator do, for any number of them.           *)
THEOREM AckInvariant == Spec => []AckInv
<1>1. ASSUME AckInv, [Next]_vars PROVE AckInv'
  <2>1. ASSUME NEW c \in Sessions, Write(c) PROVE AckInv'
    BY <1>1, <2>1, WriteKeeps
  <2>2. ASSUME NEW c \in Sessions, CommitTrx(c) PROVE AckInv'
    BY <1>1, <2>2, LoopKeeps DEF CommitTrx, AckInv, Types, dump
  <2>3. ASSUME NEW c \in Sessions, CommitPlain(c) PROVE AckInv'
    BY <1>1, <2>3 DEF CommitPlain, dump, AckInv, Types, ReplyInv, Received, YesOnSlave
  <2>4. ASSUME NEW c \in Sessions, Wake(c) PROVE AckInv'
    <3>. DEFINE x == [m EXCEPT !.wait_sessions = @ - 1]
    <3>1. x \in Master /\ x.reply_inited = m.reply_inited /\ x.reply = m.reply
      BY <1>1 DEF AckInv, Types, Master
    <3>2. Loop(c, x) /\ UNCHANGED <<log_end, pos, at, sent, got>>
      BY <2>4 DEF Wake, dump
    <3>. HIDE DEF x
    <3>. QED BY <1>1, <3>1, <3>2, LoopKeeps
  <2>5. ASSUME NEW c \in Sessions, Timeout(c) PROVE AckInv'
    BY <1>1, <2>5, TimeoutKeeps
  <2>6. ASSUME NEW c \in Sessions, TimeoutDisabled(c) PROVE AckInv'
    BY <1>1, <2>6 DEF TimeoutDisabled, session, dump, AckInv, Types, ReplyInv, Received,
                      YesOnSlave
  <2>7. ASSUME NEW s \in Slaves, Report(s) PROVE AckInv'
    BY <1>1, <2>7, ReportKeeps
  <2>8. ASSUME NEW s \in Slaves, Receive(s) PROVE AckInv'
    BY <1>1, <2>8, ReceiveKeeps
  <2>9. ASSUME NEW s \in Slaves, NEW w \in BOOLEAN,
               Connect(s) \/ Broadcast(s) \/ Send(s) \/ Disconnect(s, w)
        PROVE  AckInv'
    BY <1>1, <2>9, DumpKeeps
  <2>10. CASE EnableMaster \/ DisableMaster
    BY <1>1, <2>10, ToggleKeeps
  <2>11. CASE UNCHANGED vars
    BY <1>1, <2>11 DEF vars, session, dump, AckInv, Types, ReplyInv, Received, YesOnSlave
  <2>. QED BY <1>1, <2>1, <2>2, <2>3, <2>4, <2>5, <2>6, <2>7, <2>8, <2>9, <2>10, <2>11
       DEF Next, Session
<1>. QED BY <1>1, InitAckInv, PTL DEF Spec

(* A commit that counts as acknowledged is in the relay log of some slave, *)
(* whatever timeouts, lost connections and changes of the variable happen. *)
THEOREM AcknowledgedIsReceived == Spec => []YesOnSlave
<1>1. AckInv => YesOnSlave
  BY DEF AckInv
<1>. QED BY <1>1, AckInvariant, PTL
-----------------------------------------------------------------------------
(* The second invariant: what LOCK_binlog_ protects is what its owners     *)
(* assume.                                                                 *)

Connected == {s \in Slaves : at[s] # "off"}

(* ReplSemiSyncMaster with positions of the binary log.                    *)
PosMaster == [enabled : BOOLEAN, state : BOOLEAN,
              reply_inited : BOOLEAN, reply : Positions,
              wait_inited : BOOLEAN, wait : Positions,
              commit_inited : BOOLEAN, commit : Positions,
              active : SUBSET Positions, wait_sessions : Int, clients : Int]

TypeInv ==
  /\ m \in PosMaster
  /\ log_end \in Positions
  /\ pc \in [Sessions -> {"idle", "written", "waiting"}]
  /\ pos \in [Sessions -> Positions]
  /\ notified \in SUBSET Waiting
  /\ answer \in [Sessions -> {"yes", "no"}]
  /\ at \in [Slaves -> {"off", "report", "broadcast", "ready", "net"}]
  /\ sent \in [Slaves -> Positions]
  /\ got \in [Slaves -> Positions]
  /\ crashed \in BOOLEAN
  /\ connects \in 0 .. MaxConnects
  /\ toggles \in 0 .. MaxToggles

(* The two counters of ReplSemiSyncMaster count.                           *)
CountInv ==
  /\ m.wait_sessions = Cardinality(Waiting)
  /\ m.clients = Cardinality(Connected)

(* Nobody is ahead of the binary log.                                      *)
LogInv ==
  /\ \A c \in Sessions : pos[c] <= log_end
  /\ \A s \in Slaves : got[s] <= sent[s] /\ sent[s] <= log_end
  /\ m.reply <= log_end /\ m.wait <= log_end

(* ActiveTranx has, without a gap, the end of the binary log behind what   *)
(* is acknowledged, and nothing while semi-sync is off.                    *)
ActiveInv ==
  /\ ~m.enabled => ~m.state
  /\ ~m.state => m.active = {}
  /\ \A q \in m.active : q <= log_end /\ (m.reply_inited => m.reply < q)
  /\ \A q \in m.active : \A r \in Positions : q <= r /\ r <= log_end => r \in m.active

(* A session that nobody will wake is one whose position wait_file_pos_    *)
(* covers, so that the reply it waits for releases it.                     *)
WaitInv ==
  /\ ~m.state => Waiting \subseteq notified
  /\ \A c \in Waiting \ notified :
       \/ \E s \in Slaves : at[s] = "broadcast"
       \/ /\ m.wait_inited /\ m.wait <= pos[c]
          /\ m.reply_inited => m.reply < pos[c]

(* A dump thread that has sent the last transaction was asked for a reply, *)
(* or it is not in ActiveTranx.                                            *)
AskInv ==
  m.active # {} =>
    \A s \in Slaves : at[s] \in {"ready", "broadcast"} => sent[s] < log_end

SyncInv ==
  TypeInv /\ CountInv /\ LogInv /\ ActiveInv /\ ReturnedRemoved /\ WaitInv /\ AskInv

-----------------------------------------------------------------------------
(* What the private operations change.                                     *)
LEMMA InsertNodeFields ==
  ASSUME NEW x \in PosMaster, NEW p \in Positions
  PROVE  /\ insert_tranx_node(x, p) \in PosMaster
         /\ insert_tranx_node(x, p).enabled = x.enabled
         /\ insert_tranx_node(x, p).state = x.state
         /\ insert_tranx_node(x, p).reply_inited = x.reply_inited
         /\ insert_tranx_node(x, p).reply = x.reply
         /\ insert_tranx_node(x, p).wait_inited = x.wait_inited
         /\ insert_tranx_node(x, p).wait = x.wait
         /\ insert_tranx_node(x, p).wait_sessions = x.wait_sessions
         /\ insert_tranx_node(x, p).clients = x.clients
         /\ insert_tranx_node(x, p).active = x.active \union {p}
<1>1. insert_tranx_node(x, p) \in PosMaster
  BY BoundsAssumption DEF insert_tranx_node, PosMaster, Positions
<1>2. /\ insert_tranx_node(x, p).enabled = x.enabled
      /\ insert_tranx_node(x, p).state = x.state
      /\ insert_tranx_node(x, p).reply_inited = x.reply_inited
      /\ insert_tranx_node(x, p).reply = x.reply
      /\ insert_tranx_node(x, p).wait_inited = x.wait_inited
      /\ insert_tranx_node(x, p).wait = x.wait
      /\ insert_tranx_node(x, p).wait_sessions = x.wait_sessions
      /\ insert_tranx_node(x, p).clients = x.clients
      /\ insert_tranx_node(x, p).active = x.active \union {p}
  BY BoundsAssumption DEF insert_tranx_node, PosMaster, Positions
<1>. QED BY <1>1, <1>2

LEMMA SwitchOffFields ==
  ASSUME NEW x \in PosMaster, NEW p \in Positions
  PROVE  /\ switch_off(x) \in PosMaster
         /\ switch_off(x).enabled = x.enabled
         /\ switch_off(x).reply = x.reply
         /\ switch_off(x).wait = x.wait
         /\ switch_off(x).wait_sessions = x.wait_sessions
         /\ switch_off(x).clients = x.clients
         /\ switch_off(x).active = {}
         /\ ~switch_off(x).state /\ ~switch_off(x).reply_inited /\ ~switch_off(x).wait_inited
<1>1. switch_off(x) \in PosMaster
  BY BoundsAssumption DEF switch_off, clear_active_tranx_nodes, PosMaster, Positions
<1>2. /\ switch_off(x).enabled = x.enabled
      /\ switch_off(x).reply = x.reply
      /\ switch_off(x).wait = x.wait
      /\ switch_off(x).wait_sessions = x.wait_sessions
      /\ switch_off(x).clients = x.clients
      /\ switch_off(x).active = {}
      /\ ~switch_off(x).state /\ ~switch_off(x).reply_inited /\ ~switch_off(x).wait_inited
  BY BoundsAssumption DEF switch_off, clear_active_tranx_nodes, PosMaster, Positions
<1>. QED BY <1>1, <1>2

LEMMA TrySwitchOnFields ==
  ASSUME NEW x \in PosMaster, NEW p \in Positions
  PROVE  /\ try_switch_on(x, p) \in PosMaster
         /\ try_switch_on(x, p).enabled = x.enabled
         /\ try_switch_on(x, p).reply_inited = x.reply_inited
         /\ try_switch_on(x, p).reply = x.reply
         /\ try_switch_on(x, p).wait_inited = x.wait_inited
         /\ try_switch_on(x, p).wait = x.wait
         /\ try_switch_on(x, p).active = x.active
         /\ try_switch_on(x, p).wait_sessions = x.wait_sessions
         /\ try_switch_on(x, p).clients = x.clients
         /\ x.state => try_switch_on(x, p).state
<1>1. try_switch_on(x, p) \in PosMaster
  BY BoundsAssumption DEF try_switch_on, PosMaster, Positions
<1>2. /\ try_switch_on(x, p).enabled = x.enabled
      /\ try_switch_on(x, p).reply_inited = x.reply_inited
      /\ try_switch_on(x, p).reply = x.reply
      /\ try_switch_on(x, p).wait_inited = x.wait_inited
      /\ try_switch_on(x, p).wait = x.wait
      /\ try_switch_on(x, p).active = x.active
      /\ try_switch_on(x, p).wait_sessions = x.wait_sessions
      /\ try_switch_on(x, p).clients = x.clients
      /\ x.state => try_switch_on(x, p).state
  BY BoundsAssumption DEF try_switch_on, PosMaster, Positions
<1>. QED BY <1>1, <1>2

LEMMA UpdateCommitFields ==
  ASSUME NEW x \in PosMaster, NEW p \in Positions
  PROVE  /\ update_commit(x, p) \in PosMaster
         /\ update_commit(x, p).enabled = x.enabled
         /\ update_commit(x, p).state = x.state
         /\ update_commit(x, p).reply_inited = x.reply_inited
         /\ update_commit(x, p).reply = x.reply
         /\ update_commit(x, p).wait_inited = x.wait_inited
         /\ update_commit(x, p).wait = x.wait
         /\ update_commit(x, p).active = x.active
         /\ update_commit(x, p).wait_sessions = x.wait_sessions
         /\ update_commit(x, p).clients = x.clients
<1>1. update_commit(x, p) \in PosMaster
  BY BoundsAssumption DEF update_commit, PosMaster, Positions
<1>2. /\ update_commit(x, p).enabled = x.enabled
      /\ update_commit(x, p).state = x.state
      /\ update_commit(x, p).reply_inited = x.reply_inited
      /\ update_commit(x, p).reply = x.reply
      /\ update_commit(x, p).wait_inited = x.wait_inited
      /\ update_commit(x, p).wait = x.wait
      /\ update_commit(x, p).active = x.active
      /\ update_commit(x, p).wait_sessions = x.wait_sessions
      /\ update_commit(x, p).clients = x.clients
  BY BoundsAssumption DEF update_commit, PosMaster, Positions
<1>. QED BY <1>1, <1>2

LEMMA UpdateWaitFields ==
  ASSUME NEW x \in PosMaster, NEW p \in Positions
  PROVE  /\ update_wait(x, p) \in PosMaster
         /\ update_wait(x, p).enabled = x.enabled
         /\ update_wait(x, p).state = x.state
         /\ update_wait(x, p).reply_inited = x.reply_inited
         /\ update_wait(x, p).reply = x.reply
         /\ update_wait(x, p).active = x.active
         /\ update_wait(x, p).wait_sessions = x.wait_sessions
         /\ update_wait(x, p).clients = x.clients
         /\ update_wait(x, p).wait_inited /\ update_wait(x, p).wait <= p
         /\ update_wait(x, p).wait = p \/ (update_wait(x, p).wait = x.wait /\ x.wait_inited)
         /\ x.wait_inited => update_wait(x, p).wait <= x.wait
<1>1. update_wait(x, p) \in PosMaster
  BY BoundsAssumption DEF update_wait, PosMaster, Positions
<1>2. /\ update_wait(x, p).enabled = x.enabled
      /\ update_wait(x, p).state = x.state
      /\ update_wait(x, p).reply_inited = x.reply_inited
      /\ update_wait(x, p).reply = x.reply
      /\ update_wait(x, p).active = x.active
      /\ update_wait(x, p).wait_sessions = x.wait_sessions
      /\ update_wait(x, p).clients = x.clients
      /\ update_wait(x, p).wait_inited /\ update_wait(x, p).wait <= p
      /\ update_wait(x, p).wait = p \/ (update_wait(x, p).wait = x.wait /\ x.wait_inited)
      /\ x.wait_inited => update_wait(x, p).wait <= x.wait
  BY BoundsAssumption DEF update_wait, PosMaster, Positions
<1>. QED BY <1>1, <1>2

LEMMA CopyReplyFields ==
  ASSUME NEW x \in PosMaster, NEW p \in Positions
  PROVE  /\ copy_reply(x, p) \in PosMaster
         /\ copy_reply(x, p).enabled = x.enabled
         /\ copy_reply(x, p).state = x.state
         /\ copy_reply(x, p).wait_inited = x.wait_inited
         /\ copy_reply(x, p).wait = x.wait
         /\ copy_reply(x, p).wait_sessions = x.wait_sessions
         /\ copy_reply(x, p).clients = x.clients
         /\ copy_reply(x, p).reply_inited /\ p <= copy_reply(x, p).reply
         /\ copy_reply(x, p).reply = p \/ copy_reply(x, p).reply = x.reply
         /\ x.reply_inited => x.reply <= copy_reply(x, p).reply
         /\ \/ copy_reply(x, p) = x
            \/ /\ copy_reply(x, p).reply = p
               /\ copy_reply(x, p).active = {q \in x.active : q > p}
<1>1. copy_reply(x, p) \in PosMaster
  BY BoundsAssumption DEF copy_reply, clear_active_tranx_nodes, PosMaster, Positions
<1>2. /\ copy_reply(x, p).enabled = x.enabled
      /\ copy_reply(x, p).state = x.state
      /\ copy_reply(x, p).wait_inited = x.wait_inited
      /\ copy_reply(x, p).wait = x.wait
      /\ copy_reply(x, p).wait_sessions = x.wait_sessions
      /\ copy_reply(x, p).clients = x.clients
      /\ copy_reply(x, p).reply_inited /\ p <= copy_reply(x, p).reply
      /\ copy_reply(x, p).reply = p \/ copy_reply(x, p).reply = x.reply
      /\ x.reply_inited => x.reply <= copy_reply(x, p).reply
      /\ \/ copy_reply(x, p) = x
         \/ /\ copy_reply(x, p).reply = p
            /\ copy_reply(x, p).active = {q \in x.active : q > p}
  BY BoundsAssumption DEF copy_reply, clear_active_tranx_nodes, PosMaster, Positions
<1>. QED BY <1>1, <1>2

(* An assignment to one field.                                             *)
LEMMA SetWaitSessions ==
  ASSUME NEW x \in PosMaster, NEW v \in Int, NEW y, y = [x EXCEPT !.wait_sessions = v]
  PROVE  /\ y \in PosMaster /\ y.wait_sessions = v
         /\ y.enabled = x.enabled /\ y.state = x.state
         /\ y.reply_inited = x.reply_inited /\ y.reply = x.reply
         /\ y.wait_inited = x.wait_inited /\ y.wait = x.wait
         /\ y.active = x.active /\ y.clients = x.clients
BY DEF PosMaster

LEMMA SetClients ==
  ASSUME NEW x \in PosMaster, NEW v \in Int, NEW y, y = [x EXCEPT !.clients = v]
  PROVE  /\ y \in PosMaster /\ y.clients = v
         /\ y.enabled = x.enabled /\ y.state = x.state
         /\ y.reply_inited = x.reply_inited /\ y.reply = x.reply
         /\ y.wait_inited = x.wait_inited /\ y.wait = x.wait
         /\ y.active = x.active /\ y.wait_sessions = x.wait_sessions
BY DEF PosMaster

LEMMA SetWaitInited ==
  ASSUME NEW x \in PosMaster, NEW v \in BOOLEAN, NEW y, y = [x EXCEPT !.wait_inited = v]
  PROVE  /\ y \in PosMaster /\ y.wait_inited = v
         /\ y.enabled = x.enabled /\ y.state = x.state
         /\ y.reply_inited = x.reply_inited /\ y.reply = x.reply
         /\ y.wait = x.wait /\ y.active = x.active
         /\ y.wait_sessions = x.wait_sessions /\ y.clients = x.clients
BY DEF PosMaster

(* The sets that are counted are finite.                                   *)
LEMMA CountedFinite == IsFiniteSet(Waiting) /\ IsFiniteSet(Connected)
<1>1. Waiting \subseteq Sessions /\ Connected \subseteq Slaves
  BY DEF Waiting, Connected
<1>. QED BY <1>1, FiniteAssumption, FS_Subset

(* The initial state.                                                      *)
LEMMA InitSyncInv == Init => SyncInv
<1>. SUFFICES ASSUME Init PROVE SyncInv
  OBVIOUS
<1>1. Waiting = {} /\ Connected = {}
  BY DEF Init, Waiting, Connected
<1>2. TypeInv
  <2>1. m \in PosMaster /\ 0 \in Positions
    BY BoundsAssumption DEF Init, PosMaster, Positions
  <2>2. /\ pos \in [Sessions -> Positions] /\ sent \in [Slaves -> Positions]
        /\ got \in [Slaves -> Positions] /\ log_end \in Positions
    BY <2>1 DEF Init
  <2>3. /\ pc \in [Sessions -> {"idle", "written", "waiting"}]
        /\ answer \in [Sessions -> {"yes", "no"}]
        /\ at \in [Slaves -> {"off", "report", "broadcast", "ready", "net"}]
    BY DEF Init
  <2>4. notified \in SUBSET Waiting /\ crashed \in BOOLEAN
    BY DEF Init
  <2>5. connects \in 0 .. MaxConnects /\ toggles \in 0 .. MaxToggles
    BY BoundsAssumption DEF Init
  <2>. QED BY <2>1, <2>2, <2>3, <2>4, <2>5 DEF TypeInv
<1>3. CountInv
  BY <1>1, FS_EmptySet DEF Init, CountInv
<1>. QED BY <1>1, <1>2, <1>3
     DEF Init, SyncInv, LogInv, ActiveInv, ReturnedRemoved, WaitInv, AskInv

(* writeTranxInBinlog()                                                    *)
LEMMA WriteSync == ASSUME SyncInv, NEW c \in Sessions, Write(c) PROVE SyncInv'
<1>. DEFINE n == log_end + 1
            x == update_commit(m, n)
<1>. USE DEF SyncInv
<1>1. n \in Positions /\ n > log_end /\ log_end' = n
  BY BoundsAssumption DEF Write, TypeInv, Positions
<1>2. x \in PosMaster /\ x.enabled = m.enabled /\ x.state = m.state
      /\ x.reply_inited = m.reply_inited /\ x.reply = m.reply
      /\ x.wait_inited = m.wait_inited /\ x.wait = m.wait /\ x.active = m.active
      /\ x.wait_sessions = m.wait_sessions /\ x.clients = m.clients
  BY <1>1, UpdateCommitFields DEF TypeInv
<1>3. \/ ~m.enabled /\ m' = m /\ notified' = notified
      \/ m.enabled /\ m.state /\ m' = insert_tranx_node(x, n) /\ notified' = notified
      \/ m.enabled /\ m.state /\ m' = switch_off(x) /\ notified' = Waiting
      \/ m.enabled /\ ~m.state /\ m' = x /\ notified' = notified
  BY DEF Write
<1>4. /\ pc[c] = "idle" /\ pc' = [pc EXCEPT ![c] = "written"]
      /\ pos' = [pos EXCEPT ![c] = n]
      /\ answer' = [answer EXCEPT ![c] = "no"]
      /\ UNCHANGED <<at, sent, got, connects, crashed, toggles>>
  BY DEF Write, dump
<1>. HIDE DEF n, x
<1>5. Waiting' = Waiting /\ Connected' = Connected /\ c \notin Waiting
  BY <1>4 DEF Waiting, Connected, TypeInv
<1>6. /\ m' \in PosMaster /\ m'.enabled = m.enabled /\ m'.reply = m.reply
      /\ m'.wait = m.wait /\ m'.wait_sessions = m.wait_sessions /\ m'.clients = m.clients
      /\ m'.reply_inited => m.reply_inited
      /\ \/ m'.state = m.state /\ m'.wait_inited = m.wait_inited
            /\ m'.reply_inited = m.reply_inited /\ notified' = notified
            /\ m'.active = IF m.state THEN m.active \union {n} ELSE {}
         \/ ~m'.state /\ m'.active = {} /\ notified' = Waiting
  <2>1. CASE ~m.enabled /\ m' = m /\ notified' = notified
    BY <2>1 DEF TypeInv, ActiveInv
  <2>2. CASE m.state /\ m' = insert_tranx_node(x, n) /\ notified' = notified
    BY <1>1, <1>2, <2>2, InsertNodeFields
  <2>3. CASE m' = switch_off(x) /\ notified' = Waiting
    BY <1>1, <1>2, <2>3, SwitchOffFields
  <2>4. CASE ~m.state /\ m' = x /\ notified' = notified
    BY <1>2, <2>4 DEF ActiveInv
  <2>. QED BY <1>3, <2>1, <2>2, <2>3, <2>4
<1>7. TypeInv'
  BY <1>1, <1>4, <1>5, <1>6 DEF TypeInv
<1>8. CountInv'
  BY <1>5, <1>6 DEF CountInv
<1>9. LogInv'
  BY <1>1, <1>4, <1>6 DEF LogInv, TypeInv, PosMaster, Positions
<1>10. ActiveInv'
  <2>1. ASSUME NEW q \in m'.active
        PROVE  /\ q <= log_end' /\ (m'.reply_inited => m'.reply < q)
               /\ \A r \in Positions : q <= r /\ r <= log_end' => r \in m'.active
    <3>1. m.state /\ m'.active = m.active \union {n} /\ m'.reply_inited = m.reply_inited
      BY <1>6, <2>1
    <3>2. q \in m.active \/ q = n
      BY <2>1, <3>1
    <3>3. \A r \in Positions : r <= log_end' /\ ~(r <= log_end) => r = n
      BY <1>1 DEF n, TypeInv, Positions
    <3>. QED BY <1>1, <1>6, <3>1, <3>2, <3>3
         DEF ActiveInv, LogInv, TypeInv, PosMaster, Positions
  <2>. QED BY <1>6, <2>1 DEF ActiveInv
<1>11. ReturnedRemoved'
  BY <1>1, <1>4, <1>6 DEF ReturnedRemoved, ActiveInv, LogInv, TypeInv, PosMaster, Positions
<1>12. WaitInv'
  BY <1>4, <1>5, <1>6 DEF WaitInv, TypeInv
<1>13. AskInv'
  BY <1>1, <1>4, <1>6 DEF AskInv, LogInv, TypeInv, Positions
<1>. QED BY <1>7, <1>8, <1>9, <1>10, <1>11, <1>12, <1>13

(* One round of the loop of commitTrx() for a session that is not counted  *)
(* as waiting in x.                                                        *)
LEMMA LoopSync ==
  ASSUME SyncInv, NEW c \in Sessions, NEW x \in PosMaster, Loop(c, x),
         x = [m EXCEPT !.wait_sessions = x.wait_sessions],
         x.wait_sessions = Cardinality(Waiting \ {c}), pc[c] # "idle",
         notified' = notified \ {c},
         UNCHANGED <<log_end, pos, at, sent, got, connects, crashed, toggles>>
  PROVE  SyncInv'
<1>. USE DEF SyncInv
<1>1. /\ x.enabled = m.enabled /\ x.state = m.state /\ x.active = m.active
      /\ x.reply_inited = m.reply_inited /\ x.reply = m.reply
      /\ x.wait_inited = m.wait_inited /\ x.wait = m.wait /\ x.clients = m.clients
  BY DEF TypeInv, PosMaster
<1>2. Connected' = Connected /\ pos[c] \in Positions
  BY DEF Connected, TypeInv
<1>3. CASE Wait(c, x) /\ x.state /\ ~(x.reply_inited /\ x.reply >= pos[c])
  <2>. DEFINE y == update_wait(x, pos[c])
  <2>1. /\ y \in PosMaster /\ y.enabled = m.enabled /\ y.state = m.state
        /\ y.active = m.active /\ y.reply_inited = m.reply_inited /\ y.reply = m.reply
        /\ y.clients = m.clients /\ y.wait_sessions = x.wait_sessions
        /\ y.wait_inited /\ y.wait <= pos[c]
        /\ y.wait = pos[c] \/ y.wait = m.wait
        /\ m.wait_inited => y.wait <= m.wait
    BY <1>1, <1>2, UpdateWaitFields
  <2>2. /\ m' = [y EXCEPT !.wait_sessions = @ + 1]
        /\ pc' = [pc EXCEPT ![c] = "waiting"] /\ UNCHANGED answer
    BY <1>3 DEF Wait
  <2>. HIDE DEF y
  <2>3. /\ m' \in PosMaster /\ m'.enabled = m.enabled /\ m'.state = m.state
        /\ m'.active = m.active /\ m'.reply_inited = m.reply_inited /\ m'.reply = m.reply
        /\ m'.clients = m.clients /\ m'.wait_sessions = x.wait_sessions + 1
        /\ m'.wait_inited /\ m'.wait <= pos[c]
        /\ m'.wait = pos[c] \/ m'.wait = m.wait
        /\ m.wait_inited => m'.wait <= m.wait
    <3>1. y.wait_sessions + 1 \in Int /\ m' = [y EXCEPT !.wait_sessions = y.wait_sessions + 1]
      BY <2>1, <2>2 DEF PosMaster
    <3>. QED BY <2>1, <3>1, SetWaitSessions
  <2>4. Waiting' = (Waiting \ {c}) \union {c}
    BY <2>2 DEF Waiting, TypeInv
  <2>5. IsFiniteSet(Waiting \ {c}) /\ c \notin Waiting \ {c}
    BY CountedFinite, FS_Subset
  <2>6. CountInv'
    <3>1. Cardinality((Waiting \ {c}) \union {c}) = Cardinality(Waiting \ {c}) + 1
      BY <2>5, FS_AddElement
    <3>. QED BY <1>2, <2>3, <2>4, <3>1 DEF CountInv
  <2>7. TypeInv'
    BY <2>2, <2>3, <2>4 DEF TypeInv
  <2>8. LogInv'
    BY <1>2, <2>3 DEF LogInv, TypeInv, PosMaster, Positions
  <2>9. ActiveInv' /\ ReturnedRemoved' /\ AskInv'
    BY <2>2, <2>3 DEF ActiveInv, ReturnedRemoved, AskInv, TypeInv
  <2>10. WaitInv'
    <3>1. ~(m.reply_inited /\ m.reply >= pos[c]) /\ m.state
      BY <1>1, <1>3
    <3>2. ASSUME NEW d \in Waiting' \ notified', ~\E s \in Slaves : at[s] = "broadcast"
          PROVE  /\ m'.wait_inited /\ m'.wait <= pos[d]
                 /\ m'.reply_inited => m'.reply < pos[d]
      <4>1. CASE d = c
        BY <2>3, <3>1, <4>1, <1>2 DEF TypeInv, PosMaster, Positions
      <4>2. CASE d # c
        <5>1. d \in Waiting \ notified /\ pos[d] \in Positions
          BY <2>4, <4>2, <3>2 DEF Waiting, TypeInv
        <5>2. m.wait_inited /\ m.wait <= pos[d] /\ (m.reply_inited => m.reply < pos[d])
          BY <5>1, <3>2 DEF WaitInv
        <5>. QED BY <2>3, <5>1, <5>2 DEF TypeInv, PosMaster, Positions
      <4>. QED BY <4>1, <4>2
    <3>. QED BY <2>3, <3>1, <3>2 DEF WaitInv
  <2>. QED BY <2>6, <2>7, <2>8, <2>9, <2>10
<1>4. CASE Return(c, x) /\ (x.state => (x.reply_inited /\ x.reply >= pos[c]))
  <2>1. /\ m' = x /\ pc' = [pc EXCEPT ![c] = "idle"]
        /\ answer' \in [Sessions -> {"yes", "no"}]
    BY <1>4 DEF Return, TypeInv
  <2>2. Waiting' = Waiting \ {c}
    BY <2>1 DEF Waiting, TypeInv
  <2>3. TypeInv'
    BY <2>1, <2>2 DEF TypeInv
  <2>4. CountInv'
    BY <1>1, <1>2, <2>1, <2>2 DEF CountInv
  <2>5. LogInv' /\ ActiveInv' /\ AskInv'
    BY <1>1, <2>1 DEF LogInv, ActiveInv, AskInv
  <2>6. pos[c] \notin m.active
    BY <1>1, <1>2, <1>4 DEF ActiveInv, TypeInv, PosMaster, Positions
  <2>7. ReturnedRemoved'
    BY <1>1, <2>1, <2>6 DEF ReturnedRemoved, TypeInv
  <2>8. WaitInv'
    BY <1>1, <2>1, <2>2 DEF WaitInv
  <2>. QED BY <2>3, <2>4, <2>5, <2>7, <2>8
<1>. QED BY <1>3, <1>4 DEF Loop

(* The start of commitTrx() and a wakeup.                                  *)
LEMMA CommitTrxSync ==
  ASSUME SyncInv, NEW c \in Sessions, CommitTrx(c) \/ Wake(c)
  PROVE  SyncInv'
<1>. USE DEF SyncInv
<1>1. CASE CommitTrx(c)
  <2>1. Waiting \ {c} = Waiting /\ c \notin notified
    BY <1>1 DEF CommitTrx, Waiting, TypeInv
  <2>2. m = [m EXCEPT !.wait_sessions = m.wait_sessions] /\ m \in PosMaster
        /\ m.wait_sessions = Cardinality(Waiting \ {c})
    BY <2>1 DEF TypeInv, PosMaster, CountInv
  <2>3. /\ Loop(c, m) /\ pc[c] # "idle" /\ notified' = notified \ {c}
        /\ UNCHANGED <<log_end, pos, at, sent, got, connects, crashed, toggles>>
    BY <1>1, <2>1 DEF CommitTrx, dump
  <2>. QED BY <2>2, <2>3, LoopSync
<1>2. CASE Wake(c)
  <2>. DEFINE x == [m EXCEPT !.wait_sessions = @ - 1]
  <2>1. c \in Waiting
    BY <1>2 DEF Wake, Waiting
  <2>2. Cardinality(Waiting \ {c}) = Cardinality(Waiting) - 1
    BY <2>1, CountedFinite, FS_RemoveElement
  <2>3. x \in PosMaster /\ x = [m EXCEPT !.wait_sessions = x.wait_sessions]
        /\ x.wait_sessions = Cardinality(Waiting \ {c})
    BY <2>2 DEF TypeInv, PosMaster, CountInv
  <2>4. /\ Loop(c, x) /\ pc[c] # "idle" /\ notified' = notified \ {c}
        /\ UNCHANGED <<log_end, pos, at, sent, got, connects, crashed, toggles>>
    BY <1>2 DEF Wake, dump
  <2>. HIDE DEF x
  <2>. QED BY <2>3, <2>4, LoopSync
<1>. QED BY <1>1, <1>2

(* A step that leaves semi-sync off and reaches every waiting session.     *)
LEMMA OffSync ==
  ASSUME SyncInv, TypeInv', CountInv', ~m'.state, m'.active = {},
         m'.reply = m.reply, m'.wait = m.wait, Waiting' \subseteq notified',
         \A s \in Slaves : got'[s] <= sent'[s] /\ sent'[s] <= log_end,
         UNCHANGED <<log_end, pos>>
  PROVE  SyncInv'
<1>1. LogInv'
  BY DEF SyncInv, LogInv
<1>2. ActiveInv' /\ ReturnedRemoved' /\ WaitInv' /\ AskInv'
  BY DEF ActiveInv, ReturnedRemoved, WaitInv, AskInv
<1>. QED BY <1>1, <1>2 DEF SyncInv

(* commitTrx() of a disabled plugin, and a timeout that finds it disabled. *)
LEMMA CommitPlainSync ==
  ASSUME SyncInv, NEW c \in Sessions, CommitPlain(c) \/ TimeoutDisabled(c)
  PROVE  SyncInv'
<1>. USE DEF SyncInv
<1>1. m' = m /\ ~m.enabled
      /\ UNCHANGED <<log_end, pos, notified, answer, at, sent, got, connects, toggles>>
  BY DEF CommitPlain, TimeoutDisabled, session, dump
<1>2. m.active = {} /\ ~m.state
  BY <1>1 DEF ActiveInv
<1>3. Waiting' = Waiting /\ Connected' = Connected
      /\ pc' \in [Sessions -> {"idle", "written", "waiting"}] /\ crashed' \in BOOLEAN
  BY <1>1 DEF CommitPlain, TimeoutDisabled, session, dump, Waiting, Connected, TypeInv
<1>4. TypeInv'
  BY <1>1, <1>3 DEF TypeInv
<1>5. CountInv' /\ LogInv'
  BY <1>1, <1>3 DEF CountInv, LogInv
<1>6. ActiveInv' /\ ReturnedRemoved' /\ AskInv'
  BY <1>1, <1>2 DEF ActiveInv, ReturnedRemoved, AskInv
<1>7. WaitInv'
  BY <1>1, <1>3 DEF WaitInv
<1>. QED BY <1>4, <1>5, <1>6, <1>7

(* A timeout switches semi-sync off.                                       *)
LEMMA TimeoutSync == ASSUME SyncInv, NEW c \in Sessions, Timeout(c) PROVE SyncInv'
<1>. DEFINE x == [m EXCEPT !.wait_sessions = @ - 1]
<1>. USE DEF SyncInv
<1>1. c \in Waiting
  BY DEF Timeout, Waiting
<1>2. Cardinality(Waiting \ {c}) = Cardinality(Waiting) - 1
  BY <1>1, CountedFinite, FS_RemoveElement
<1>3. m \in PosMaster /\ m.wait_sessions - 1 \in Int
      /\ x = [m EXCEPT !.wait_sessions = m.wait_sessions - 1]
  BY DEF TypeInv, PosMaster
<1>4. m' = switch_off(x) /\ pc' = [pc EXCEPT ![c] = "idle"]
      /\ answer' \in [Sessions -> {"yes", "no"}]
      /\ notified' = Waiting \ {c}
      /\ UNCHANGED <<log_end, pos, at, sent, got, connects, crashed, toggles>>
  BY DEF Timeout, Return, TypeInv, dump
<1>. HIDE DEF x
<1>5. /\ x \in PosMaster /\ x.wait_sessions = m.wait_sessions - 1
      /\ x.reply = m.reply /\ x.wait = m.wait /\ x.clients = m.clients
  BY <1>3, SetWaitSessions
<1>6. /\ m' \in PosMaster /\ m'.wait_sessions = m.wait_sessions - 1
      /\ m'.reply = m.reply /\ m'.wait = m.wait /\ m'.clients = m.clients
      /\ ~m'.state /\ m'.active = {}
  <2>1. 0 \in Positions
    BY BoundsAssumption DEF Positions
  <2>. QED BY <1>4, <1>5, <2>1, SwitchOffFields
<1>7. Waiting' = Waiting \ {c} /\ Connected' = Connected
  BY <1>4 DEF Waiting, Connected, TypeInv
<1>8. TypeInv'
  BY <1>4, <1>6, <1>7 DEF TypeInv
<1>9. CountInv'
  BY <1>2, <1>6, <1>7 DEF CountInv
<1>10. \A s \in Slaves : got'[s] <= sent'[s] /\ sent'[s] <= log_end
  BY <1>4 DEF LogInv
<1>. QED BY <1>4, <1>6, <1>7, <1>8, <1>9, <1>10, OffSync

(* SET GLOBAL rpl_semi_sync_master_enabled.                                *)
LEMMA ToggleSync == ASSUME SyncInv, EnableMaster \/ DisableMaster PROVE SyncInv'
<1>. USE DEF SyncInv
<1>1. UNCHANGED <<log_end, pc, pos, answer, at, sent, got, connects, crashed>>
      /\ toggles' \in 0 .. MaxToggles
  BY BoundsAssumption DEF EnableMaster, DisableMaster, session, dump, TypeInv
<1>2. Waiting' = Waiting /\ Connected' = Connected
  BY <1>1 DEF Waiting, Connected
<1>3. CASE EnableMaster
  <2>1. /\ m' \in PosMaster /\ m'.enabled /\ m'.active = {}
        /\ m'.wait_sessions = m.wait_sessions /\ m'.clients = m.clients
        /\ m'.reply = m.reply /\ m'.wait = m.wait
    <3>1. m' \in PosMaster
      BY <1>3 DEF EnableMaster, TypeInv, PosMaster
    <3>2. /\ m'.enabled /\ m'.active = {}
          /\ m'.wait_sessions = m.wait_sessions /\ m'.clients = m.clients
          /\ m'.reply = m.reply /\ m'.wait = m.wait
      BY <1>3 DEF EnableMaster, TypeInv, PosMaster
    <3>. QED BY <3>1, <3>2
  <2>2. Waiting \subseteq notified /\ notified' = notified
    BY <1>3 DEF EnableMaster, session, ActiveInv, WaitInv
  <2>3. TypeInv'
    BY <1>1, <1>2, <2>1, <2>2 DEF TypeInv
  <2>4. CountInv' /\ LogInv'
    BY <1>1, <1>2, <2>1 DEF CountInv, LogInv
  <2>5. ActiveInv' /\ ReturnedRemoved' /\ AskInv'
    BY <2>1 DEF ActiveInv, ReturnedRemoved, AskInv
  <2>6. WaitInv'
    BY <1>2, <2>2 DEF WaitInv
  <2>. QED BY <2>3, <2>4, <2>5, <2>6
<1>4. CASE DisableMaster
  <2>. DEFINE y == switch_off(m)
  <2>1. /\ y \in PosMaster /\ y.wait_sessions = m.wait_sessions /\ y.clients = m.clients
        /\ y.reply = m.reply /\ y.wait = m.wait /\ ~y.state /\ y.active = {}
    <3>1. 0 \in Positions
      BY BoundsAssumption DEF Positions
    <3>. QED BY <3>1, SwitchOffFields DEF TypeInv
  <2>2. m' = [y EXCEPT !.enabled = FALSE, !.commit_inited = FALSE] /\ notified' = Waiting
    BY <1>4 DEF DisableMaster
  <2>. HIDE DEF y
  <2>3. m' \in PosMaster
    BY <2>1, <2>2 DEF PosMaster
  <2>4. /\ m'.wait_sessions = m.wait_sessions /\ m'.clients = m.clients
        /\ m'.reply = m.reply /\ m'.wait = m.wait /\ ~m'.state /\ m'.active = {}
    BY <2>1, <2>2 DEF PosMaster
  <2>5. TypeInv'
    BY <1>1, <1>2, <2>2, <2>3 DEF TypeInv
  <2>6. CountInv'
    BY <1>2, <2>4 DEF CountInv
  <2>7. \A s \in Slaves : got'[s] <= sent'[s] /\ sent'[s] <= log_end
    BY <1>1 DEF LogInv
  <2>. QED BY <1>1, <1>2, <2>2, <2>4, <2>5, <2>6, <2>7, OffSync
<1>. QED BY <1>3, <1>4

(* add_slave()                                                             *)
LEMMA ConnectSync == ASSUME SyncInv, NEW s \in Slaves, Connect(s) PROVE SyncInv'
<1>. USE DEF SyncInv
<1>1. /\ at[s] = "off" /\ at' = [at EXCEPT ![s] = "report"]
      /\ sent' = [sent EXCEPT ![s] = got[s]] /\ connects' \in 0 .. MaxConnects
      /\ UNCHANGED <<log_end, pc, pos, notified, answer, got, crashed, toggles>>
  BY BoundsAssumption DEF Connect, session, TypeInv
<1>2. m' = [m EXCEPT !.clients = m.clients + 1] /\ m \in PosMaster /\ m.clients + 1 \in Int
  BY DEF Connect, TypeInv, PosMaster
<1>3. /\ m' \in PosMaster /\ m'.clients = m.clients + 1
      /\ m'.enabled = m.enabled /\ m'.state = m.state /\ m'.reply_inited = m.reply_inited
      /\ m'.reply = m.reply /\ m'.wait_inited = m.wait_inited /\ m'.wait = m.wait
      /\ m'.active = m.active /\ m'.wait_sessions = m.wait_sessions
  BY <1>2, SetClients
<1>4. Waiting' = Waiting /\ Connected' = Connected \union {s} /\ s \notin Connected
  BY <1>1 DEF Waiting, Connected, TypeInv
<1>5. TypeInv'
  BY <1>1, <1>3, <1>4 DEF TypeInv
<1>6. CountInv'
  <2>1. Cardinality(Connected \union {s}) = Cardinality(Connected) + 1
    BY <1>4, CountedFinite, FS_AddElement
  <2>. QED BY <1>3, <1>4, <2>1 DEF CountInv
<1>7. LogInv'
  BY <1>1, <1>3 DEF LogInv, TypeInv, Positions
<1>8. ActiveInv' /\ ReturnedRemoved'
  BY <1>1, <1>3 DEF ActiveInv, ReturnedRemoved
<1>9. WaitInv'
  BY <1>1, <1>3, <1>4 DEF WaitInv, TypeInv
<1>10. AskInv'
  BY <1>1, <1>3 DEF AskInv, TypeInv
<1>. QED BY <1>5, <1>6, <1>7, <1>8, <1>9, <1>10

(* remove_slave()                                                          *)
LEMMA DisconnectSync ==
  ASSUME SyncInv, NEW s \in Slaves, NEW w \in BOOLEAN, Disconnect(s, w)
  PROVE  SyncInv'
<1>. DEFINE x == [m EXCEPT !.clients = @ - 1]
<1>. USE DEF SyncInv
<1>1. /\ at[s] \in {"ready", "net"} /\ at' = [at EXCEPT ![s] = "off"]
      /\ sent' = [sent EXCEPT ![s] = got[s]]
      /\ UNCHANGED <<log_end, pc, pos, answer, got, connects, crashed, toggles>>
  BY DEF Disconnect
<1>2. x = [m EXCEPT !.clients = m.clients - 1] /\ m \in PosMaster /\ m.clients - 1 \in Int
  BY DEF TypeInv, PosMaster
<1>3. \/ m' = x /\ notified' = notified
      \/ m' = switch_off(x) /\ notified' = Waiting
  BY DEF Disconnect
<1>. HIDE DEF x
<1>4. /\ x \in PosMaster /\ x.clients = m.clients - 1
      /\ x.enabled = m.enabled /\ x.state = m.state /\ x.reply_inited = m.reply_inited
      /\ x.reply = m.reply /\ x.wait_inited = m.wait_inited /\ x.wait = m.wait
      /\ x.active = m.active /\ x.wait_sessions = m.wait_sessions
  BY <1>2, SetClients
<1>5. Waiting' = Waiting /\ Connected' = Connected \ {s} /\ s \in Connected
  BY <1>1 DEF Waiting, Connected, TypeInv
<1>6. Cardinality(Connected \ {s}) = Cardinality(Connected) - 1
  BY <1>5, CountedFinite, FS_RemoveElement
<1>7. \A t \in Slaves : got'[t] <= sent'[t] /\ sent'[t] <= log_end
  BY <1>1 DEF LogInv, TypeInv, Positions
<1>8. CASE m' = x /\ notified' = notified
  <2>1. TypeInv'
    BY <1>1, <1>4, <1>5, <1>8 DEF TypeInv
  <2>2. CountInv' /\ LogInv'
    BY <1>1, <1>4, <1>5, <1>6, <1>7, <1>8 DEF CountInv, LogInv
  <2>3. ActiveInv' /\ ReturnedRemoved'
    BY <1>1, <1>4, <1>8 DEF ActiveInv, ReturnedRemoved
  <2>4. WaitInv'
    BY <1>1, <1>4, <1>5, <1>8 DEF WaitInv, TypeInv
  <2>5. AskInv'
    BY <1>1, <1>4, <1>8 DEF AskInv, TypeInv
  <2>. QED BY <2>1, <2>2, <2>3, <2>4, <2>5
<1>9. CASE m' = switch_off(x) /\ notified' = Waiting
  <2>1. /\ m' \in PosMaster /\ m'.clients = m.clients - 1
        /\ m'.wait_sessions = m.wait_sessions
        /\ m'.reply = m.reply /\ m'.wait = m.wait /\ ~m'.state /\ m'.active = {}
    <3>1. 0 \in Positions
      BY BoundsAssumption DEF Positions
    <3>. QED BY <1>4, <1>9, <3>1, SwitchOffFields
  <2>2. TypeInv'
    BY <1>1, <1>5, <1>9, <2>1 DEF TypeInv
  <2>3. CountInv'
    BY <1>5, <1>6, <2>1 DEF CountInv
  <2>. QED BY <1>1, <1>5, <1>7, <1>9, <2>1, <2>2, <2>3, OffSync
<1>. QED BY <1>3, <1>8, <1>9

(* The broadcast, an event that is sent and an event that is received.     *)
LEMMA BroadcastSync == ASSUME SyncInv, NEW s \in Slaves, Broadcast(s) PROVE SyncInv'
<1>. USE DEF SyncInv
<1>1. /\ at[s] = "broadcast" /\ at' = [at EXCEPT ![s] = "ready"] /\ notified' = Waiting
      /\ UNCHANGED <<m, log_end, pc, pos, answer, sent, got, connects, crashed, toggles>>
  BY DEF Broadcast
<1>2. Waiting' = Waiting /\ Connected' = Connected
  BY <1>1 DEF Waiting, Connected, TypeInv
<1>3. TypeInv'
  BY <1>1, <1>2 DEF TypeInv
<1>4. CountInv' /\ LogInv' /\ ActiveInv' /\ ReturnedRemoved'
  BY <1>1, <1>2 DEF CountInv, LogInv, ActiveInv, ReturnedRemoved
<1>5. WaitInv'
  BY <1>1, <1>2 DEF WaitInv
<1>6. AskInv'
  BY <1>1 DEF AskInv, TypeInv
<1>. QED BY <1>3, <1>4, <1>5, <1>6

(* The last event of the binary log asks for a reply while it is in        *)
(* ActiveTranx: wait_file_pos_ and reply_file_pos_ are not behind it.      *)
LEMMA LastAsks == ASSUME SyncInv, m.active # {} PROVE sync(m, log_end)
<1>. USE DEF SyncInv
<1>1. m.state /\ m.enabled
  BY DEF ActiveInv
<1>2. log_end \in m.active
  BY DEF ActiveInv, TypeInv, PosMaster, Positions
<1>3. ~(m.reply_inited /\ log_end <= m.reply) /\ ~(m.wait_inited /\ log_end < m.wait)
  BY <1>2 DEF ActiveInv, LogInv, TypeInv, PosMaster, Positions
<1>. QED BY <1>1, <1>2, <1>3 DEF sync, is_tranx_end_pos

LEMMA SendSync == ASSUME SyncInv, NEW s \in Slaves, Send(s) PROVE SyncInv'
<1>. USE DEF SyncInv
<1>1. /\ at[s] = "ready" /\ sent[s] < log_end
      /\ sent' = [sent EXCEPT ![s] = sent[s] + 1]
      /\ at' = [at EXCEPT ![s] = IF sync(m, sent[s] + 1) THEN "net" ELSE "ready"]
      /\ UNCHANGED <<m, log_end, pc, pos, notified, answer, got, connects, crashed, toggles>>
  BY DEF Send, session
<1>2. Waiting' = Waiting /\ Connected' = Connected
  BY <1>1 DEF Waiting, Connected, TypeInv
<1>3. sent[s] + 1 \in Positions /\ sent[s] + 1 <= log_end
  BY <1>1, BoundsAssumption DEF TypeInv, Positions
<1>4. TypeInv'
  BY <1>1, <1>2, <1>3 DEF TypeInv
<1>5. CountInv' /\ ActiveInv' /\ ReturnedRemoved'
  BY <1>1, <1>2 DEF CountInv, ActiveInv, ReturnedRemoved
<1>6. LogInv'
  BY <1>1, <1>3 DEF LogInv, TypeInv, Positions
<1>7. WaitInv'
  BY <1>1, <1>2 DEF WaitInv, TypeInv
<1>8. AskInv'
  <2>. SUFFICES ASSUME m.active # {}, NEW t \in Slaves, at'[t] \in {"ready", "broadcast"}
                PROVE  sent'[t] < log_end
    BY <1>1 DEF AskInv
  <2>1. CASE t = s
    <3>1. sent[s] + 1 # log_end
      BY <1>1, <2>1, LastAsks DEF TypeInv
    <3>. QED BY <1>1, <1>3, <2>1, <3>1 DEF TypeInv, Positions
  <2>2. CASE t # s
    BY <1>1, <2>2 DEF AskInv, TypeInv
  <2>. QED BY <2>1, <2>2
<1>. QED BY <1>4, <1>5, <1>6, <1>7, <1>8

LEMMA ReceiveSync == ASSUME SyncInv, NEW s \in Slaves, Receive(s) PROVE SyncInv'
<1>. USE DEF SyncInv
<1>1. /\ got[s] < sent[s] /\ got' = [got EXCEPT ![s] = got[s] + 1]
      /\ \/ at' = at
         \/ at[s] = "net" /\ at' = [at EXCEPT ![s] = "report"]
      /\ UNCHANGED <<m, log_end, pc, pos, notified, answer, sent, connects, crashed, toggles>>
  BY DEF Receive, session, TypeInv
<1>2. Waiting' = Waiting /\ Connected' = Connected
  BY <1>1 DEF Waiting, Connected, TypeInv
<1>3. got[s] + 1 \in Positions /\ got[s] + 1 <= sent[s]
  BY <1>1, BoundsAssumption DEF TypeInv, Positions
<1>4. TypeInv'
  BY <1>1, <1>2, <1>3 DEF TypeInv
<1>5. CountInv' /\ ActiveInv' /\ ReturnedRemoved'
  BY <1>1, <1>2 DEF CountInv, ActiveInv, ReturnedRemoved
<1>6. LogInv'
  BY <1>1, <1>3 DEF LogInv, TypeInv
<1>7. WaitInv'
  BY <1>1, <1>2 DEF WaitInv, TypeInv
<1>8. AskInv'
  BY <1>1 DEF AskInv, TypeInv
<1>. QED BY <1>4, <1>5, <1>6, <1>7, <1>8

(* reportReplyBinlog(): a reply that covers a waiting session is followed  *)
(* by a broadcast.                                                         *)
LEMMA ReportSync == ASSUME SyncInv, NEW s \in Slaves, Report(s) PROVE SyncInv'
<1>. DEFINE p == sent[s]
            z == IF m.state THEN m ELSE try_switch_on(m, p)
            x == copy_reply(z, p)
<1>. USE DEF SyncInv
<1>1. /\ at[s] = "report" /\ p \in Positions /\ p <= log_end /\ m \in PosMaster
      /\ UNCHANGED <<log_end, pc, pos, notified, answer, sent, got, connects, crashed, toggles>>
  BY DEF Report, session, TypeInv, LogInv
<1>2. \/ ~m.enabled /\ m' = m /\ at' = [at EXCEPT ![s] = "ready"]
      \/ /\ m.enabled /\ can_release(x) /\ m' = [x EXCEPT !.wait_inited = FALSE]
         /\ at' = [at EXCEPT ![s] = "broadcast"]
      \/ m.enabled /\ ~can_release(x) /\ m' = x /\ at' = [at EXCEPT ![s] = "ready"]
  BY DEF Report
<1>3. /\ z \in PosMaster /\ z.enabled = m.enabled /\ (m.state => z = m)
      /\ z.reply_inited = m.reply_inited /\ z.reply = m.reply
      /\ z.wait_inited = m.wait_inited /\ z.wait = m.wait /\ z.active = m.active
      /\ z.wait_sessions = m.wait_sessions /\ z.clients = m.clients
  BY <1>1, TrySwitchOnFields
<1>. HIDE DEF z
<1>4. /\ x \in PosMaster /\ x.enabled = m.enabled /\ (m.state => x.state)
      /\ x.wait_inited = m.wait_inited /\ x.wait = m.wait
      /\ x.wait_sessions = m.wait_sessions /\ x.clients = m.clients
  BY <1>1, <1>3, CopyReplyFields
<1>5. /\ x.reply_inited /\ p <= x.reply /\ (x.reply = p \/ x.reply = m.reply)
      /\ x = z \/ (x.reply = p /\ x.active = {q \in m.active : q > p})
  BY <1>1, <1>3, CopyReplyFields
<1>. HIDE DEF x
<1>6. /\ x.active \subseteq m.active
      /\ \A q \in x.active : x.reply < q
      /\ \A q \in x.active : \A r \in Positions : q <= r /\ r <= log_end => r \in x.active
  <2>1. CASE x = z
    BY <1>3, <1>5, <2>1 DEF ActiveInv
  <2>2. CASE x.reply = p /\ x.active = {q \in m.active : q > p}
    BY <1>1, <2>2 DEF ActiveInv, TypeInv, PosMaster, Positions
  <2>. QED BY <1>5, <2>1, <2>2
<1>7. x.active # {} => p < log_end
  BY <1>1, <1>4, <1>5, <1>6 DEF ActiveInv, TypeInv, PosMaster, Positions
<1>. HIDE DEF p
<1>8. /\ m' \in PosMaster /\ m'.wait = m.wait /\ m'.enabled = m.enabled
      /\ m'.wait_sessions = m.wait_sessions /\ m'.clients = m.clients
      /\ \/ m' = m /\ ~m.enabled
         \/ /\ m.enabled /\ m'.reply_inited /\ m'.reply = x.reply /\ m'.active = x.active
            /\ m.state => m'.state
  <2>1. CASE m' = m /\ ~m.enabled
    BY <1>1, <2>1
  <2>2. CASE m.enabled /\ m' = [x EXCEPT !.wait_inited = FALSE]
    <3>1. FALSE \in BOOLEAN
      OBVIOUS
    <3>. QED BY <1>4, <1>5, <2>2, <3>1, SetWaitInited
  <2>3. CASE m.enabled /\ m' = x
    BY <1>4, <1>5, <2>3
  <2>. QED BY <1>2, <2>1, <2>2, <2>3
<1>9. /\ Waiting' = Waiting
      /\ at' \in [Slaves -> {"off", "report", "broadcast", "ready", "net"}]
      /\ at'[s] \in {"ready", "broadcast"} /\ \A t \in Slaves \ {s} : at'[t] = at[t]
  BY <1>1, <1>2 DEF Waiting, TypeInv
<1>10. Connected' = Connected
  BY <1>1, <1>9 DEF Connected
<1>11. TypeInv'
  BY <1>1, <1>8, <1>9 DEF TypeInv
<1>12. CountInv'
  BY <1>8, <1>9, <1>10 DEF CountInv
<1>13. LogInv'
  <2>1. m'.reply <= log_end
    BY <1>1, <1>5, <1>8 DEF LogInv
  <2>. QED BY <1>1, <1>8, <2>1 DEF LogInv
<1>14. m'.active \subseteq m.active
  BY <1>6, <1>8
<1>15. ActiveInv'
  <2>1. CASE m' = m /\ ~m.enabled
    BY <1>1, <2>1 DEF ActiveInv
  <2>2. CASE m.enabled /\ m'.reply = x.reply /\ m'.active = x.active /\ (m.state => m'.state)
    BY <1>1, <1>6, <1>8, <2>2 DEF ActiveInv
  <2>. QED BY <1>8, <2>1, <2>2
<1>16. ReturnedRemoved'
  BY <1>1, <1>14 DEF ReturnedRemoved
<1>17. WaitInv'
  <2>1. ~m'.state => Waiting' \subseteq notified'
    BY <1>1, <1>8, <1>9 DEF WaitInv
  <2>2. ASSUME NEW c \in Waiting' \ notified'
        PROVE  \/ \E t \in Slaves : at'[t] = "broadcast"
               \/ /\ m'.wait_inited /\ m'.wait <= pos'[c]
                  /\ m'.reply_inited => m'.reply < pos'[c]
    <3>1. c \in Waiting \ notified /\ m.enabled /\ pos[c] \in Positions
      BY <1>1, <1>9, <2>2 DEF WaitInv, ActiveInv, Waiting, TypeInv
    <3>2. CASE \E t \in Slaves : at[t] = "broadcast"
      BY <1>1, <1>9, <3>2
    <3>3. CASE can_release(x) /\ at' = [at EXCEPT ![s] = "broadcast"]
      BY <3>3 DEF TypeInv
    <3>4. CASE /\ ~can_release(x) /\ m' = x
               /\ m.wait_inited /\ m.wait <= pos[c]
      <4>1. m.wait_sessions > 0
        <5>1. Cardinality(Waiting) # 0 /\ Cardinality(Waiting) \in Nat
          BY <3>1, CountedFinite, FS_EmptySet, FS_CardinalityType
        <5>. QED BY <5>1 DEF CountInv
      <4>2. x.reply < x.wait
        BY <1>4, <3>4, <4>1 DEF can_release, PosMaster, Positions
      <4>3. x.reply \in Nat /\ x.wait \in Nat /\ pos[c] \in Nat
        BY <1>4, <3>1 DEF PosMaster, Positions
      <4>4. x.wait_inited /\ x.wait <= pos[c] /\ x.reply < pos[c]
        BY <1>4, <3>4, <4>2, <4>3
      <4>. QED BY <1>1, <3>4, <4>4
    <3>. QED BY <1>2, <3>1, <3>2, <3>3, <3>4 DEF WaitInv
  <2>. QED BY <2>1, <2>2 DEF WaitInv
<1>18. AskInv'
  <2>. SUFFICES ASSUME m'.active # {}, NEW t \in Slaves, at'[t] \in {"ready", "broadcast"}
                PROVE  sent'[t] < log_end'
    BY DEF AskInv
  <2>1. CASE t = s
    <3>1. m.active # {} /\ m.enabled
      BY <1>14 DEF ActiveInv
    <3>. QED BY <1>1, <1>7, <1>8, <2>1, <3>1 DEF p
  <2>2. CASE t # s
    BY <1>1, <1>9, <1>14, <2>2 DEF AskInv
  <2>. QED BY <2>1, <2>2
<1>. QED BY <1>11, <1>12, <1>13, <1>15, <1>16, <1>17, <1>18

(* The invariant holds in every reachable state.                           *)
THEOREM SyncInvariant == Spec => []SyncInv
<1>1. ASSUME SyncInv, [Next]_vars PROVE SyncInv'
  <2>1. ASSUME NEW c \in Sessions, Write(c) PROVE SyncInv'
    BY <1>1, <2>1, WriteSync
  <2>2. ASSUME NEW c \in Sessions, Session(c) PROVE SyncInv'
    BY <1>1, <2>2, CommitTrxSync, CommitPlainSync, TimeoutSync DEF Session
  <2>3. ASSUME NEW s \in Slaves, Connect(s) \/ Report(s) \/ Broadcast(s) PROVE SyncInv'
    BY <1>1, <2>3, ConnectSync, ReportSync, BroadcastSync
  <2>4. ASSUME NEW s \in Slaves, Send(s) \/ Receive(s) PROVE SyncInv'
    BY <1>1, <2>4, SendSync, ReceiveSync
  <2>5. ASSUME NEW s \in Slaves, NEW w \in BOOLEAN, Disconnect(s, w) PROVE SyncInv'
    BY <1>1, <2>5, DisconnectSync
  <2>6. CASE EnableMaster \/ DisableMaster
    BY <1>1, <2>6, ToggleSync
  <2>7. CASE UNCHANGED vars
    BY <1>1, <2>7 DEF vars, session, dump, SyncInv, TypeInv, CountInv, LogInv, ActiveInv,
                      ReturnedRemoved, WaitInv, AskInv, Waiting, Connected
  <2>. QED BY <1>1, <2>1, <2>2, <2>3, <2>4, <2>5, <2>6, <2>7 DEF Next
<1>. QED BY <1>1, InitSyncInv, PTL DEF Spec

(* What LOCK_binlog_ protects is well formed, the assertion at the end of  *)
(* commitTrx() holds, and no wakeup is lost, for any number of sessions    *)
(* and slaves.                                                             *)
THEOREM MasterConsistent == Spec => []Consistent
<1>1. ASSUME SyncInv PROVE Consistent
  <2>. USE <1>1 DEF SyncInv
  <2>1. Cardinality(Waiting) \in 0 .. Cardinality(Sessions)
    <3>1. Waiting \subseteq Sessions
      BY DEF Waiting
    <3>2. Cardinality(Waiting) \in Nat /\ Cardinality(Sessions) \in Nat
      BY CountedFinite, FiniteAssumption, FS_CardinalityType
    <3>. QED BY <3>1, <3>2, FiniteAssumption, FS_Subset
  <2>2. Cardinality(Connected) \in 0 .. Cardinality(Slaves)
    <3>1. Connected \subseteq Slaves
      BY DEF Connected
    <3>2. Cardinality(Connected) \in Nat /\ Cardinality(Slaves) \in Nat
      BY CountedFinite, FiniteAssumption, FS_CardinalityType
    <3>. QED BY <3>1, <3>2, FiniteAssumption, FS_Subset
  <2>3. m \in [enabled : BOOLEAN, state : BOOLEAN,
               reply_inited : BOOLEAN, reply : Positions,
               wait_inited : BOOLEAN, wait : Positions,
               commit_inited : BOOLEAN, commit : Positions,
               active : SUBSET Positions, wait_sessions : 0 .. Cardinality(Sessions),
               clients : 0 .. Cardinality(Slaves)]
    <3>1. /\ m.wait_sessions \in 0 .. Cardinality(Sessions)
          /\ m.clients \in 0 .. Cardinality(Slaves) /\ m \in PosMaster
      BY <2>1, <2>2 DEF CountInv, TypeInv
    <3>. QED BY <3>1 DEF PosMaster
  <2>4. TypeOK
    <3>1. notified \subseteq Sessions
      BY DEF TypeInv, Waiting
    <3>. QED BY <2>3, <3>1 DEF TypeInv, TypeOK
  <2>5. NoLostWakeup
    BY DEF WaitInv, NoLostWakeup, Waiting, TypeInv, PosMaster, Positions
  <2>. QED BY <2>4, <2>5 DEF Consistent
<1>. QED BY <1>1, SyncInvariant, PTL

(* updateSyncHeader() asks for every reply that a waiting session needs.   *)
THEOREM RepliesAreAsked == Spec => []AckAsked
<1>1. ASSUME SyncInv PROVE AckAsked
  <2>. SUFFICES ASSUME NEW c \in Waiting \ notified, NEW s \in Slaves,
                       pos[c] \in m.active, at[s] = "ready"
                PROVE  \E p \in m.active : p > sent[s] /\ p >= pos[c]
    BY DEF AckAsked
  <2>1. c \in Sessions /\ pos[c] <= log_end /\ log_end \in Positions
    BY <1>1 DEF SyncInv, LogInv, TypeInv, Waiting
  <2>2. log_end \in m.active
    BY <1>1, <2>1 DEF SyncInv, ActiveInv, Positions
  <2>3. sent[s] < log_end
    BY <1>1 DEF SyncInv, AskInv
  <2>. QED BY <1>1, <2>1, <2>2, <2>3 DEF SyncInv, TypeInv, Positions
<1>. QED BY <1>1, SyncInvariant, PTL
=============================================================================
