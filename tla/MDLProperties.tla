---------------------------- MODULE MDLProperties ---------------------------
(* What makes metadata locks correct. *)
EXTENDS MDL

\* A context between Enqueue() and the end of its wait.
Queued(c) == pc[c] \in {"queued", "search", "victim", "wait", "finish"}

\* Two connections never hold locks on one object that the matrix of
\* m_granted_incompatible excludes: not through the immediate grant of
\* try_acquire_lock_impl(), not through reschedule_waiters() however many
\* waiters it grants, not through an upgrade or a downgrade.
GrantedCompatible ==
  \A s, t \in granted :
    Ctx(s) # Ctx(t) /\ ticket[s].key = ticket[t].key =>
      ticket[s].type \notin GrantedIncompatible(Scoped(ticket[t].key), ticket[t].type)

\* The answer in the wait slot and the lists of the MDL_lock agree: a waiter
\* told GRANTED has its ticket in m_granted, any other has it in m_waiting.
\* timed_wait(), the deadlock detector, reschedule_waiters() and
\* abort_conflicting_lock_requests() race for the slot.
AnswerAgrees ==
  \A c \in Contexts : Queued(c) =>
    LET id == call[c].mine IN
      IF wait_status[c] = "GRANTED"
        THEN id \in granted
        ELSE id \notin granted /\ id \in WaitingOn(ticket[id].key)

\* Every ticket on a lock's list can still be found by the connection that owns
\* it: it is in one of its lists, or is that of its call in progress.  A ticket
\* that is not would block others for ever.
NoOrphan ==
  \A id \in TicketIds : ticket[id] # None =>
    \/ id \in granted /\ id \in Held(Ctx(id))
    \/ Queued(Ctx(id)) /\ call[Ctx(id)].mine = id

\* Nobody waits for a lock it could be granted: when no reschedule_waiters() is
\* under way on the object, every request that still waits for an answer is
\* blocked by a granted ticket or by a request of higher priority.
NoMissedGrant ==
  \A k \in Keys : rwlock[k] = None =>
    \A id \in WaitingOn(k) : wait_status[Ctx(id)] = "EMPTY" =>
      ~CanGrantLock(Ctx(id), k, ticket[id].type, FALSE)

\* Who stands in the way of c's request, whatever m_waiting_for says.
BlockedBy(c) ==
  LET t == ticket[call[c].mine]
  IN {Ctx(g) : g \in {g \in GrantedOn(t.key) :
        ticket[g].type \in GrantedIncompatible(Scoped(t.key), t.type)}}
     \cup
     {Ctx(w) : w \in {w \in WaitingOn(t.key) :
        ticket[w].type \in WaitingIncompatible(Scoped(t.key), t.type)}}

\* No set of connections sleeps in timed_wait() with each one blocked by another
\* of the set: find_deadlock() has broken every loop by the time the last of
\* them goes to sleep, also when it chose others as victims, was racing another
\* search, or the loop was closed by a request of higher priority.
NoUndetectedDeadlock ==
  LET sleeping == {c \in Contexts : pc[c] = "wait" /\ wait_status[c] = "EMPTY"}
  IN \A D \in (SUBSET sleeping) \ {{}} :
       \E c \in D : BlockedBy(c) \cap (D \ {c}) = {}

\* Only a context that waits is made a deadlock victim: lock_deadlock_victim()
\* keeps it from leaving its wait and starting another one between the search
\* and set_status(VICTIM).
VictimIsWaiting ==
  [][\A c \in Contexts :
       wait_status[c] # "VICTIM" /\ wait_status'[c] = "VICTIM" => waiting_for[c] # None]_vars

\* "There can be only one upgrader for a lock or we will have deadlock."
OneUpgrader ==
  \A c, d \in Contexts :
    call[c].op = "upgrade" /\ call[d].op = "upgrade" /\ c # d =>
      call[c].req.key # call[d].req.key

\* A savepoint stays a savepoint: the ticket that marks it is still in the list
\* it was taken from, so that release_locks_stored_before() stops there and
\* ROLLBACK TO SAVEPOINT never releases a lock taken before.
SavepointValid ==
  \A c \in Contexts : savepoint[c] # None /\ release[c] = <<>> =>
    /\ savepoint[c].transaction # None =>
         savepoint[c].transaction \in ToSet(m_tickets[c]["transaction"])
    /\ savepoint[c].statement = None

\* acquire_locks() is all or nothing, whatever its caller holds already and
\* whichever of its requests fails, for whatever reason: when it returns, the
\* caller has a lock for every request and still what it had, or, once
\* rollback_to_savepoint() has released what it is about to, exactly what it had.
AllOrNothing ==
  [][\A c \in Contexts : call[c].op = "batch" /\ call'[c].op # "batch" =>
       LET kept == Held(c)' \ ToSet(release'[c])
       IN \/ kept = call[c].held
          \/ /\ call[c].held \subseteq kept
             /\ \A r \in call[c].asked : \E id \in kept :
                  /\ ticket'[id].key = r.key
                  /\ HasStrongerOrEqualType(Scoped(r.key), ticket'[id].type, r.type)]_vars

\* The wait of c for a weak lock gets an answer, unless waits for locks never
\* stop timing out.
TimesOut(c) == wait_status[c] # "TIMEOUT" /\ wait_status'[c] = "TIMEOUT"
WeakAnswered(c) ==
  <>[][\A d \in Contexts : ~TimesOut(d)]_vars =>
    (/\ Queued(c)
     /\ wait_status[c] = "EMPTY"
     /\ ticket[call[c].mine].type \notin {"SNW", "SNRW", "X"})
      ~> wait_status[c] # "EMPTY"
=============================================================================
