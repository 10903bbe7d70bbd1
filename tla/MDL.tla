-------------------------------- MODULE MDL ---------------------------------
(***************************************************************************)
(* Metadata locks, sql/mdl.cc: the MDL_contexts of the connections, their  *)
(* tickets, the granted and waiting lists of every MDL_lock, the wait      *)
(* slots and the deadlock detector.                                        *)
(*                                                                         *)
(* MDLMap models how an MDL_lock is found, reused and freed; here a key    *)
(* stands for its MDL_lock.  One action is one critical section of         *)
(* MDL_lock::m_rwlock, MDL_wait::m_LOCK_wait_status or                     *)
(* MDL_context::m_LOCK_waiting_for together with the context-private work  *)
(* next to it.  reschedule_waiters() takes one step for each waiter, with  *)
(* m_rwlock held: wait slots change under it.                              *)
(***************************************************************************)
EXTENDS MDLTypes, MDLDeadlock, Lists, Sequences, SequencesExt

CONSTANTS
  Contexts,      \* the connections
  GlobalKeys,    \* the key of the GLOBAL namespace, if modelled
  ScopedKeys,    \* keys of GLOBAL, COMMIT and SCHEMA: MDL_scoped_lock
  ObjectKeys,    \* keys of tables and routines: MDL_object_lock
  KeyRank,       \* MDL_key::cmp(): the position of each key
  Requests,      \* the MDL_requests the connections make
  Batches,       \* the sets of requests they pass to acquire_locks()
  Calls,         \* the other calls of the MDL interface they make
  Interrupts,    \* TIMEOUT, KILLED: how a wait may end without an answer
  MaxTickets,    \* bound: tickets of one context
  MaxWriteLockCount,  \* max_write_lock_count; None: the default, out of reach
  MaxSearchDepth,     \* MAX_SEARCH_DEPTH
  None           \* the null pointer

Keys == ScopedKeys \cup ObjectKeys
TicketIds == Contexts \X (1 .. MaxTickets)   \* addresses of MDL_ticket objects
Ctx(id) == id[1]                             \* MDL_ticket::m_ctx

MDLTicket == [key : Keys, type : MDLTypeSet, nowait : BOOLEAN]
MDLSavepoints == [statement : TicketIds \cup {None}, transaction : TicketIds \cup {None}]
MDLRequest == [key : Keys, type : MDLTypeSet, dur : Durations, nowait : BOOLEAN]

\* The types that are requested in the namespace of k.
LockTypes(k) == IF k \in ScopedKeys THEN {"IX", "S", "X"} ELSE MDLTypeSet \ {"IX"}

ASSUME RequestsAssumption ==
  /\ GlobalKeys \subseteq ScopedKeys
  /\ ScopedKeys \cap ObjectKeys = {}
  /\ Requests \subseteq MDLRequest
  /\ \A r \in Requests : r.type \in LockTypes(r.key)
  /\ Batches \subseteq SUBSET Requests
  /\ KeyRank \in [Keys -> Nat]
  /\ Interrupts \subseteq {"TIMEOUT", "KILLED"}

ASSUME BoundsAssumption ==
  /\ MaxTickets \in Nat
  /\ MaxWriteLockCount \in Nat \cup {None}
  /\ MaxSearchDepth \in Nat \ {0}

\* The null pointer is none of the objects.
ASSUME NoneAssumption ==
  None \notin Contexts \cup Keys \cup TicketIds \cup MDLTicket \cup MDLSavepoints

VARIABLES
  ticket,       \* TicketIds -> [key, type, nowait], or None when not allocated
  granted,      \* the tickets in the m_granted lists
  waiting,      \* Keys -> MDL_lock::m_waiting, oldest first
  hog,          \* Keys -> MDL_lock::m_hog_lock_count
  rwlock,       \* Keys -> the context inside reschedule_waiters(), or None
  loop,         \* Contexts -> its loop: waiters to visit, skip_high_priority
  m_tickets,    \* Contexts -> Durations -> its tickets, newest first
  wait_status,  \* Contexts -> MDL_wait::m_wait_status
  waiting_for,  \* Contexts -> MDL_context::m_waiting_for
  victim,       \* Contexts -> the victim its search found and pinned
  savepoint,    \* Contexts -> the MDL_savepoint its caller keeps, or None
  release,      \* Contexts -> tickets release_locks_stored_before() still has
  call,         \* Contexts -> the acquire call in progress
  pc            \* Contexts -> where it is

lock == <<granted, waiting, hog, rwlock>>
graph == <<wait_status, waiting_for, victim>>
own == <<m_tickets, savepoint, release>>
vars == <<ticket, lock, loop, own, graph, call, pc>>

\* asked and held are history: what acquire_locks() was asked for, and the
\* tickets its caller had before.
NoCall == [op |-> "none", req |-> None, mine |-> None, rest |-> {},
           target |-> None, svp |-> None, asked |-> {}, held |-> {}]
NoLoop == [key |-> None, rest |-> <<>>, skip |-> FALSE]

Labels == {"run", "ask", "mark", "queued", "search", "victim", "wait",
           "finish", "merge", "resched"}

TypeOK ==
  /\ ticket \in [TicketIds -> MDLTicket \cup {None}]
  /\ granted \in SUBSET TicketIds
  /\ waiting \in [Keys -> Seq(TicketIds)]
  /\ hog \in [Keys -> Nat]
  /\ rwlock \in [Keys -> Contexts \cup {None}]
  /\ loop \in [Contexts ->
       [key : Keys \cup {None}, rest : Seq(TicketIds), skip : BOOLEAN]]
  /\ m_tickets \in [Contexts -> [Durations -> Seq(TicketIds)]]
  /\ wait_status \in [Contexts -> WaitStatuses]
  /\ waiting_for \in [Contexts -> TicketIds \cup {None}]
  /\ victim \in [Contexts -> Contexts \cup {None}]
  /\ release \in [Contexts -> Seq(TicketIds)]
  /\ pc \in [Contexts -> Labels]

Init ==
  /\ ticket = [id \in TicketIds |-> None]
  /\ granted = {}
  /\ waiting = [k \in Keys |-> <<>>]
  /\ hog = [k \in Keys |-> 0]
  /\ rwlock = [k \in Keys |-> None]
  /\ loop = [c \in Contexts |-> NoLoop]
  /\ m_tickets = [c \in Contexts |-> [d \in Durations |-> <<>>]]
  /\ wait_status = [c \in Contexts |-> "EMPTY"]
  /\ waiting_for = [c \in Contexts |-> None]
  /\ victim = [c \in Contexts |-> None]
  /\ savepoint = [c \in Contexts |-> None]
  /\ release = [c \in Contexts |-> <<>>]
  /\ call = [c \in Contexts |-> NoCall]
  /\ pc = [c \in Contexts |-> "run"]

At(c, label) == pc[c] = label
Goto(c, label) == pc' = [pc EXCEPT ![c] = label]

\* The context executes its own code and has nothing left to release.
Idle(c) == At(c, "run") /\ release[c] = <<>>

-----------------------------------------------------------------------------
(* MDL_lock: what its lists allow *)

Scoped(k) == k \in ScopedKeys
GrantedOn(k) == {id \in granted : ticket[id].key = k}
WaitingOn(k) == ToSet(waiting[k])
IsEmpty(k) == GrantedOn(k) = {} /\ waiting[k] = <<>>
WaitingTypes(k) == {ticket[id].type : id \in WaitingOn(k)}   \* m_waiting.bitmap()

\* Mutant: a waiting request is checked against the waiting requests only.
CanGrantLock_WaitingOnly(c, k, type, ignorePriority) ==
  WaitingTypes(k) \cap WaitingIncompatible(Scoped(k), type) = {}

\* can_grant_lock(): no waiting request has priority, and every incompatible
\* granted ticket is the requestor's own.
CanGrantLock(c, k, type, ignorePriority) ==
  /\ ignorePriority \/ WaitingTypes(k) \cap WaitingIncompatible(Scoped(k), type) = {}
  /\ \A id \in GrantedOn(k) :
       Ctx(id) = c \/ ticket[id].type \notin GrantedIncompatible(Scoped(k), type)

\* has_no_wait_context(): some other context was granted a NO_WAIT ticket.
HasNoWaitContext(c, k) == \E id \in GrantedOn(k) : Ctx(id) # c /\ ticket[id].nowait

\* MDL_wait::set_status(): the first answer stays.
SetStatus(contexts, status) ==
  wait_status' = [c \in Contexts |->
    IF c \in contexts /\ wait_status[c] = "EMPTY" THEN status ELSE wait_status[c]]

\* Some waiter is not of a type that may hog the lock.
WeakAmong(k, waiters) ==
  \E id \in ToSet(waiters) : ticket[id].type \notin HogTypes(Scoped(k))

\* m_hog_lock_count >= max_write_lock_count
HogLimitReached(k) == MaxWriteLockCount # None /\ hog[k] >= MaxWriteLockCount

\* Mutant: strong locks are not counted.
IncHog_Never(n) == n

\* m_hog_lock_count++, saturating where the code stops telling values apart.
IncHog(n) == IF MaxWriteLockCount = None \/ n = MaxWriteLockCount THEN n ELSE n + 1

\* find_or_insert() for an empty k: the MDL_lock is new, or one from the cache,
\* whose reset() keeps the m_hog_lock_count another key left in it.
FirstUse(k) ==
  IF IsEmpty(k) /\ k \in ObjectKeys
    THEN \/ hog' = [hog EXCEPT ![k] = 0]
         \/ \E j \in ObjectKeys :
              IsEmpty(j) /\ hog' = [hog EXCEPT ![k] = hog[j], ![j] = hog[k]]
    ELSE hog' = hog

\* The start of reschedule_waiters() for k with m_rwlock held by c: strong
\* requests give way once enough were granted while weak ones wait.
StartLoop(c, k, waiters) ==
  /\ rwlock' = [rwlock EXCEPT ![k] = c]
  /\ loop' = [loop EXCEPT ![c] =
       [key |-> k, rest |-> waiters,
        skip |-> HogLimitReached(k) /\ WeakAmong(k, waiters)]]
  /\ Goto(c, "resched")

\* MDL_lock::remove_ticket() and MDL_ticket::destroy(): an MDL_lock left empty
\* goes back to the map as it is, any other is rescheduled.
RemoveTicket(c, id) ==
  LET k == ticket[id].key
      others == RemoveFirst(waiting[k], id)
  IN /\ rwlock[k] = None
     /\ granted' = granted \ {id}
     /\ waiting' = [waiting EXCEPT ![k] = others]
     /\ ticket' = [ticket EXCEPT ![id] = None]
     /\ IF GrantedOn(k) \ {id} = {} /\ others = <<>>
          THEN Goto(c, "run") /\ UNCHANGED <<rwlock, loop>>
          ELSE StartLoop(c, k, others)
     /\ UNCHANGED hog

-----------------------------------------------------------------------------
(* reschedule_waiters() *)

\* The next waiter is granted if the lists allow it and its slot is EMPTY.
RescheduleNext(c) ==
  LET k == loop[c].key
      id == Head(loop[c].rest)
      strong == ticket[id].type \in HogTypes(Scoped(k))
  IN /\ At(c, "resched")
     /\ loop[c].rest # <<>>
     /\ loop' = [loop EXCEPT ![c].rest = Tail(@)]
     /\ IF /\ ~(loop[c].skip /\ strong)
           /\ CanGrantLock(Ctx(id), k, ticket[id].type, loop[c].skip)
           /\ wait_status[Ctx(id)] = "EMPTY"
          THEN /\ SetStatus({Ctx(id)}, "GRANTED")
               /\ waiting' = [waiting EXCEPT ![k] = RemoveFirst(@, id)]
               /\ granted' = granted \cup {id}
               /\ hog' = IF strong THEN [hog EXCEPT ![k] = IncHog(@)] ELSE hog
          ELSE UNCHANGED <<wait_status, waiting, granted, hog>>
     /\ UNCHANGED <<ticket, rwlock, own, waiting_for, victim, call, pc>>

\* Mutant: the count is decremented instead of reset.
RescheduleEnd_Decrements(c) ==
  LET k == loop[c].key
  IN /\ At(c, "resched")
     /\ loop[c].rest = <<>>
     /\ hog' = IF WeakAmong(k, waiting[k]) THEN hog ELSE [hog EXCEPT ![k] = @ - 1]
     /\ rwlock' = [rwlock EXCEPT ![k] = None]
     /\ loop' = [loop EXCEPT ![c] = NoLoop]
     /\ Goto(c, "run")
     /\ UNCHANGED <<ticket, granted, waiting, own, graph, call>>

\* The count starts again when no weak request is left waiting; m_rwlock is
\* unlocked and the context goes on with what it was doing.
RescheduleEnd(c) ==
  LET k == loop[c].key
  IN /\ At(c, "resched")
     /\ loop[c].rest = <<>>
     /\ hog' = IF WeakAmong(k, waiting[k]) THEN hog ELSE [hog EXCEPT ![k] = 0]
     /\ rwlock' = [rwlock EXCEPT ![k] = None]
     /\ loop' = [loop EXCEPT ![c] = NoLoop]
     /\ Goto(c, "run")
     /\ UNCHANGED <<ticket, granted, waiting, own, graph, call>>

-----------------------------------------------------------------------------
(* MDL_context: its tickets *)

Held(c) == UNION {ToSet(m_tickets[c][d]) : d \in Durations}

\* An MDL_ticket not allocated: the one new() returns.
Free(c) == {i \in 1 .. MaxTickets : ticket[<<c, i>>] = None}
NewTicket(c) == <<c, CHOOSE i \in Free(c) : \A j \in Free(c) : i <= j>>

DurationNo == [statement |-> 0, transaction |-> 1, explicit |-> 2]
DurationAt(n) == CHOOSE d \in Durations : DurationNo[d] = n

\* Positions in list d of the tickets that satisfy a request for type on k.
Matches(c, d, k, type) ==
  {i \in DOMAIN m_tickets[c][d] :
     LET t == ticket[m_tickets[c][d][i]]
     IN t.key = k /\ HasStrongerOrEqualType(Scoped(k), t.type, type)}

\* is_lock_owner()
IsLockOwner(c, k, type) == \E d \in Durations : Matches(c, d, k, type) # {}

\* find_ticket(): the list of the requested duration is searched first.
FoundDuration(c, r) ==
  LET dur(i) == DurationAt((DurationNo[r.dur] + i) % 3)
      hits == {i \in 0 .. 2 : Matches(c, dur(i), r.key, r.type) # {}}
  IN dur(CHOOSE i \in hits : \A j \in hits : i <= j)

FindTicket(c, r) ==
  LET d == FoundDuration(c, r)
      hits == Matches(c, d, r.key, r.type)
  IN m_tickets[c][d][CHOOSE i \in hits : \A j \in hits : i <= j]

PushFront(c, d, id) == m_tickets' = [m_tickets EXCEPT ![c][d] = <<id>> \o @]

\* mdl_savepoint(): the newest statement and transaction tickets.
FrontOf(list) == IF list = <<>> THEN None ELSE Head(list)
MDLSavepoint(c) == [statement |-> FrontOf(m_tickets[c]["statement"]),
                    transaction |-> FrontOf(m_tickets[c]["transaction"])]

\* The tickets release_locks_stored_before() visits: all if it never meets the
\* sentinel.
StoredBefore(list, sentinel) ==
  IF sentinel \in ToSet(list)
    THEN SubSeq(list, 1, SelectInSeq(list, LAMBDA id : id = sentinel) - 1)
    ELSE list

\* rollback_to_savepoint()
AcquiredAfter(c, svp) ==
  StoredBefore(m_tickets[c]["statement"], svp.statement)
    \o StoredBefore(m_tickets[c]["transaction"], svp.transaction)

\* has_lock(): the ticket is older than the savepoint, or explicit.
HasLock(c, svp, id) == id \notin ToSet(AcquiredAfter(c, svp))

-----------------------------------------------------------------------------
(* acquire_lock(), try_acquire_lock(), acquire_locks() *)

\* "type != MDL_EXCLUSIVE || is_lock_owner(GLOBAL, IX)"
MayRequest(c, r) ==
  r.type = "X" => \A g \in GlobalKeys : IsLockOwner(c, g, "IX")

\* my_qsort() by key: the requests that may come first.
First(requests) ==
  {r \in requests : \A q \in requests : KeyRank[r.key] <= KeyRank[q.key]}

\* The call cl of c is satisfied by ticket id: return, ask for the next lock of
\* acquire_locks(), or go on in upgrade_shared_lock_to_exclusive().
Satisfied(c, cl, id) ==
  CASE cl.op = "upgrade" ->
         call' = [call EXCEPT ![c] = [cl EXCEPT !.mine = id]] /\ Goto(c, "merge")
    [] cl.op = "batch" /\ cl.rest # {} ->
         /\ \E r \in First(cl.rest) :
              call' = [call EXCEPT ![c] =
                [cl EXCEPT !.req = r, !.mine = None, !.rest = @ \ {r}]]
         /\ Goto(c, "ask")
    [] OTHER -> call' = [call EXCEPT ![c] = NoCall] /\ Goto(c, "run")

\* Mutant: acquire_locks() keeps the locks it got before one failed.
Failed_KeepsBatch(c, cl) ==
  call' = [call EXCEPT ![c] = NoCall] /\ UNCHANGED release

\* The call cl of c failed: acquire_locks() rolls back to its savepoint.
Failed(c, cl) ==
  /\ call' = [call EXCEPT ![c] = NoCall]
  /\ release' = IF cl.op = "batch"
                  THEN [release EXCEPT ![c] = AcquiredAfter(c, cl.svp)]
                  ELSE release

\* A held ticket serves the request only through a clone, so that a HANDLER, a
\* statement and a transaction never share one.
NeedsClone(c, r) == FoundDuration(c, r) # r.dur \/ r.dur = "explicit"

\* A ticket the context holds will do as it is.
ReuseTicket(c, cl) ==
  /\ IsLockOwner(c, cl.req.key, cl.req.type)
  /\ ~NeedsClone(c, cl.req)
  /\ Satisfied(c, cl, FindTicket(c, cl.req))
  /\ UNCHANGED <<ticket, lock, loop, own, graph>>

\* clone_ticket()
CloneTicket(c, cl) ==
  LET r == cl.req
      id == NewTicket(c)
  IN /\ IsLockOwner(c, r.key, r.type)
     /\ NeedsClone(c, r)
     /\ Free(c) # {}
     /\ rwlock[r.key] = None
     /\ ticket' = [ticket EXCEPT ![id] =
          [key |-> r.key, type |-> r.type, nowait |-> ticket[FindTicket(c, r)].nowait]]
     /\ granted' = granted \cup {id}
     /\ PushFront(c, r.dur, id)
     /\ Satisfied(c, cl, id)
     /\ UNCHANGED <<waiting, hog, rwlock, loop, savepoint, release, graph>>

\* try_acquire_lock_impl() got a new ticket, and the MDL_lock with m_rwlock
\* locked.
GotLock(c, r) ==
  /\ ~IsLockOwner(c, r.key, r.type)
  /\ Free(c) # {}
  /\ rwlock[r.key] = None

\* Granted at once.  The NO_WAIT mark is set when m_rwlock is unlocked again.
GrantAtOnce(c, cl) ==
  LET r == cl.req
      id == NewTicket(c)
  IN /\ GotLock(c, r)
     /\ CanGrantLock(c, r.key, r.type, FALSE)
     /\ FirstUse(r.key)
     /\ ticket' = [ticket EXCEPT ![id] =
          [key |-> r.key, type |-> r.type, nowait |-> FALSE]]
     /\ granted' = granted \cup {id}
     /\ PushFront(c, r.dur, id)
     /\ IF r.nowait
          THEN Goto(c, "mark") /\ call' = [call EXCEPT ![c] = [cl EXCEPT !.mine = id]]
          ELSE Satisfied(c, cl, id)
     /\ UNCHANGED <<waiting, rwlock, loop, savepoint, release, graph>>

\* The call fails before anything was queued.
Refused(c, cl) ==
  /\ Failed(c, cl)
  /\ Goto(c, "run")
  /\ UNCHANGED <<ticket, lock, loop, m_tickets, savepoint, graph>>

\* try_acquire_lock() does not wait; acquire_lock() must not when a NO_WAIT
\* ticket is granted.  The new ticket is destroyed.
Conflict(c, cl) ==
  /\ GotLock(c, cl.req)
  /\ ~CanGrantLock(c, cl.req.key, cl.req.type, FALSE)
  /\ cl.op = "try" \/ HasNoWaitContext(c, cl.req.key)
  /\ Refused(c, cl)

\* No memory for a ticket: the heap of this context is full.
OutOfMemory(c, cl) ==
  /\ Free(c) = {}
  /\ IsLockOwner(c, cl.req.key, cl.req.type) => NeedsClone(c, cl.req)
  /\ Refused(c, cl)

\* The ticket joins the back of m_waiting, with the wait slot emptied.
\* (notify_conflicting_locks() wakes holders blocked outside MDL.)
Enqueue(c, cl) ==
  LET r == cl.req
      id == NewTicket(c)
  IN /\ GotLock(c, r)
     /\ ~CanGrantLock(c, r.key, r.type, FALSE)
     /\ cl.op # "try" /\ ~HasNoWaitContext(c, r.key)
     /\ ticket' = [ticket EXCEPT ![id] =
          [key |-> r.key, type |-> r.type, nowait |-> r.nowait]]
     /\ waiting' = [waiting EXCEPT ![r.key] = Append(@, id)]
     /\ wait_status' = [wait_status EXCEPT ![c] = "EMPTY"]
     /\ call' = [call EXCEPT ![c] = [cl EXCEPT !.mine = id]]
     /\ Goto(c, "queued")
     /\ UNCHANGED <<granted, hog, rwlock, loop, own, waiting_for, victim>>

\* try_acquire_lock_impl() and what acquire_lock() does under the same m_rwlock.
Attempt(c, cl) ==
  \/ ReuseTicket(c, cl)
  \/ CloneTicket(c, cl)
  \/ GrantAtOnce(c, cl)
  \/ Conflict(c, cl)
  \/ OutOfMemory(c, cl)
  \/ Enqueue(c, cl)

\* acquire_lock() and try_acquire_lock()
AcquireLock(c, op, r) ==
  /\ op \in Calls
  /\ Idle(c)
  /\ MayRequest(c, r)
  /\ Attempt(c, [NoCall EXCEPT !.op = op, !.req = r])

\* acquire_locks(): the requests are sorted.  What the connection has already
\* (ALTER TABLE ... RENAME, DROP DATABASE) is older than the savepoint.
AcquireLocks(c, requests) ==
  /\ Idle(c)
  /\ \E r \in First(requests) :
       call' = [call EXCEPT ![c] =
         [NoCall EXCEPT !.op = "batch", !.req = r, !.rest = requests \ {r},
                        !.svp = MDLSavepoint(c),
                        !.asked = requests, !.held = Held(c)]]
  /\ Goto(c, "ask")
  /\ UNCHANGED <<ticket, lock, loop, own, graph>>

\* The loop of acquire_locks().
AcquireNext(c) == At(c, "ask") /\ Attempt(c, call[c])

MarkNoWait(c) ==
  /\ At(c, "mark")
  /\ ticket' = [ticket EXCEPT ![call[c].mine].nowait = TRUE]
  /\ Satisfied(c, call[c], call[c].mine)
  /\ UNCHANGED <<lock, loop, own, graph>>

\* will_wait_for()
WillWaitFor(c) ==
  /\ At(c, "queued")
  /\ waiting_for' = [waiting_for EXCEPT ![c] = call[c].mine]
  /\ Goto(c, "search")
  /\ UNCHANGED <<ticket, lock, loop, own, wait_status, victim, call>>

-----------------------------------------------------------------------------
(* find_deadlock() *)

\* The edges of the wait-for graph that leave c.
Blockers(c) ==
  IF waiting_for[c] = None THEN {}
  ELSE LET t == ticket[waiting_for[c]]
       IN {Ctx(id) : id \in
             {g \in GrantedOn(t.key) :
                Ctx(g) # c /\ ticket[g].type \in GrantedIncompatible(Scoped(t.key), t.type)}
             \cup
             {w \in WaitingOn(t.key) :
                Ctx(w) # c /\ ticket[w].type \in WaitingIncompatible(Scoped(t.key), t.type)}}

\* MDL_ticket::get_deadlock_weight(): DDL is heavier than DML.
DeadlockWeight(c) ==
  IF waiting_for[c] = None THEN 0
  ELSE IF \/ ticket[waiting_for[c]].key \in GlobalKeys
          \/ ticket[waiting_for[c]].type \in {"SNW", "SNRW", "X"}
         THEN 100 ELSE 0

\* One search.  It reads the lists under m_rwlock, so no loop is under way on
\* a lock it visits, and leaves with m_LOCK_waiting_for of the victim locked.
Search(c) ==
  LET victims == DeadlockVictims(c, [b \in Contexts |-> Blockers(b)],
                   {b \in Contexts : waiting_for[b] # None /\ wait_status[b] = "EMPTY"},
                   [b \in Contexts |-> DeadlockWeight(b)], MaxSearchDepth)
  IN /\ At(c, "search")
     /\ \A k \in Keys : rwlock[k] = None
     /\ \/ victims = {} /\ Goto(c, "wait") /\ UNCHANGED victim
        \/ \E v \in victims :
             victim' = [victim EXCEPT ![c] = v] /\ Goto(c, "victim")
     /\ UNCHANGED <<ticket, lock, loop, own, wait_status, waiting_for, call>>

\* Mutant: one loop broken is enough.
SetVictim_Once(c) ==
  /\ At(c, "victim")
  /\ SetStatus({victim[c]}, "VICTIM")
  /\ Goto(c, "wait")
  /\ victim' = [victim EXCEPT ![c] = None]
  /\ UNCHANGED <<ticket, lock, loop, own, waiting_for, call>>

\* The victim is told and unpinned; the search is repeated unless it is c.
SetVictim(c) ==
  /\ At(c, "victim")
  /\ SetStatus({victim[c]}, "VICTIM")
  /\ Goto(c, IF victim[c] = c THEN "wait" ELSE "search")
  /\ victim' = [victim EXCEPT ![c] = None]
  /\ UNCHANGED <<ticket, lock, loop, own, waiting_for, call>>

-----------------------------------------------------------------------------
(* The end of the wait *)

\* Mutant: the timeout does not look whether an answer has come.
InterruptWait_Overwrites(c, status) ==
  /\ At(c, "wait")
  /\ wait_status' = [wait_status EXCEPT ![c] = status]
  /\ UNCHANGED <<ticket, lock, loop, own, waiting_for, victim, call, pc>>

\* timed_wait() was killed or timed out and closes its own slot.
InterruptWait(c, status) ==
  /\ At(c, "wait")
  /\ wait_status[c] = "EMPTY"
  /\ wait_status' = [wait_status EXCEPT ![c] = status]
  /\ UNCHANGED <<ticket, lock, loop, own, waiting_for, victim, call, pc>>

\* Mutant: m_waiting_for is not protected by a lock.
DoneWaitingFor_NotPinned(c) ==
  /\ At(c, "wait")
  /\ wait_status[c] # "EMPTY"
  /\ waiting_for' = [waiting_for EXCEPT ![c] = None]
  /\ Goto(c, "finish")
  /\ UNCHANGED <<ticket, lock, loop, own, wait_status, victim, call>>

\* timed_wait() returns an answer; done_waiting_for() waits for a search that
\* pinned this context.
DoneWaitingFor(c) ==
  /\ At(c, "wait")
  /\ wait_status[c] # "EMPTY"
  /\ \A s \in Contexts : victim[s] # c
  /\ waiting_for' = [waiting_for EXCEPT ![c] = None]
  /\ Goto(c, "finish")
  /\ UNCHANGED <<ticket, lock, loop, own, wait_status, victim, call>>

\* Any answer but GRANTED: the ticket leaves m_waiting and is destroyed.
WaitFailed(c) ==
  /\ At(c, "finish")
  /\ wait_status[c] # "GRANTED"
  /\ RemoveTicket(c, call[c].mine)
  /\ Failed(c, call[c])
  /\ UNCHANGED <<m_tickets, savepoint, graph>>

\* Granted: abort_conflicting_lock_requests(), and the ticket is the context's.
WaitGranted(c) ==
  LET id == call[c].mine
      k == ticket[id].key
  IN /\ At(c, "finish")
     /\ wait_status[c] = "GRANTED"
     /\ rwlock[k] = None
     /\ IF \E g \in GrantedOn(k) : ticket[g].nowait
          THEN SetStatus({Ctx(w) : w \in WaitingOn(k)}, "ABORTED")
          ELSE UNCHANGED wait_status
     /\ PushFront(c, call[c].req.dur, id)
     /\ Satisfied(c, call[c], id)
     /\ UNCHANGED <<ticket, lock, loop, savepoint, release, waiting_for, victim>>

-----------------------------------------------------------------------------
(* Upgrade and downgrade *)

\* upgrade_shared_lock_to_exclusive(): acquire X as a ticket of its own first.
UpgradeSharedLock(c, id) ==
  /\ "upgrade" \in Calls
  /\ Idle(c)
  /\ ticket[id].type \in {"SNW", "SNRW"}
  /\ LET r == [key |-> ticket[id].key, type |-> "X", dur |-> "transaction",
               nowait |-> FALSE]
     IN /\ MayRequest(c, r)
        /\ Attempt(c, [NoCall EXCEPT !.op = "upgrade", !.req = r, !.target = id,
                                     !.svp = MDLSavepoint(c)])

\* The X ticket is merged into the ticket being upgraded; if it is a new one it
\* is destroyed.  Nobody is rescheduled.
Merge(c) ==
  LET x == call[c].mine
      id == call[c].target
      isNew == ~HasLock(c, call[c].svp, x)
  IN /\ At(c, "merge")
     /\ rwlock[ticket[id].key] = None
     /\ ticket' = [i \in TicketIds |->
          CASE i = id -> [ticket[id] EXCEPT !.type = "X"]
            [] i = x /\ isNew -> None
            [] OTHER -> ticket[i]]
     /\ granted' = IF isNew THEN granted \ {x} ELSE granted
     /\ m_tickets' = IF isNew
          THEN [m_tickets EXCEPT ![c]["transaction"] = RemoveFirst(@, x)]
          ELSE m_tickets
     /\ call' = [call EXCEPT ![c] = NoCall]
     /\ Goto(c, "run")
     /\ UNCHANGED <<waiting, hog, rwlock, loop, savepoint, release, graph>>

\* Mutant: a downgrade leaves the waiters alone.
DowngradeExclusiveLock_NoReschedule(c, id, type) ==
  /\ "downgrade" \in Calls
  /\ Idle(c)
  /\ ticket[id].type = "X" /\ ticket[id].key \in ObjectKeys
  /\ rwlock[ticket[id].key] = None
  /\ ticket' = [ticket EXCEPT ![id].type = type]
  /\ UNCHANGED <<lock, loop, pc, own, graph, call>>

\* downgrade_exclusive_lock(), which is called for the ticket of a table.
DowngradeExclusiveLock(c, id, type) ==
  /\ "downgrade" \in Calls
  /\ Idle(c)
  /\ ticket[id].type = "X" /\ ticket[id].key \in ObjectKeys
  /\ rwlock[ticket[id].key] = None
  /\ ticket' = [ticket EXCEPT ![id].type = type]
  /\ StartLoop(c, ticket[id].key, waiting[ticket[id].key])
  /\ UNCHANGED <<granted, waiting, hog, own, graph, call>>

-----------------------------------------------------------------------------
(* Release *)

StartRelease(c, list) ==
  /\ list # <<>>
  /\ release' = [release EXCEPT ![c] = list]
  /\ UNCHANGED <<ticket, lock, loop, m_tickets, graph, call, pc>>

\* release_lock(MDL_ticket *): a ticket of explicit duration.
ReleaseLock(c, id) ==
  /\ "release_lock" \in Calls
  /\ Idle(c)
  /\ id \in ToSet(m_tickets[c]["explicit"])
  /\ StartRelease(c, <<id>>)
  /\ UNCHANGED savepoint

\* release_all_locks_for_name(): the explicit tickets for the name.
ReleaseAllLocksForName(c, k) ==
  /\ "release_name" \in Calls
  /\ Idle(c)
  /\ LET list == m_tickets[c]["explicit"]
     IN StartRelease(c, Sublist(list, {i \in DOMAIN list : ticket[list[i]].key = k}))
  /\ UNCHANGED savepoint

ReleaseStatementLocks(c) ==
  /\ "release_statement" \in Calls
  /\ Idle(c)
  /\ StartRelease(c, m_tickets[c]["statement"])
  /\ UNCHANGED savepoint

\* The end of a transaction, which also forgets its savepoints.
ReleaseTransactionalLocks(c) ==
  /\ Idle(c)
  /\ StartRelease(c, m_tickets[c]["statement"] \o m_tickets[c]["transaction"])
  /\ savepoint' = [savepoint EXCEPT ![c] = None]

\* One round of release_locks_stored_before(): release_lock(duration, ticket).
ReleaseNext(c) ==
  LET id == Head(release[c])
  IN /\ At(c, "run")
     /\ release[c] # <<>>
     /\ RemoveTicket(c, id)
     /\ release' = [release EXCEPT ![c] = Tail(@)]
     /\ m_tickets' = [m_tickets EXCEPT ![c] =
          [d \in Durations |-> RemoveFirst(m_tickets[c][d], id)]]
     /\ UNCHANGED <<savepoint, graph, call>>

-----------------------------------------------------------------------------
(* Savepoints and durations *)

\* SAVEPOINT: a statement of its own, without statement locks.
SetSavepoint(c) ==
  /\ "savepoint" \in Calls
  /\ Idle(c)
  /\ m_tickets[c]["statement"] = <<>>
  /\ savepoint' = [savepoint EXCEPT ![c] = MDLSavepoint(c)]
  /\ UNCHANGED <<ticket, lock, loop, m_tickets, release, graph, call, pc>>

\* ROLLBACK TO SAVEPOINT keeps the savepoint.
RollbackToSavepoint(c) ==
  /\ Idle(c)
  /\ savepoint[c] # None
  /\ StartRelease(c, AcquiredAfter(c, savepoint[c]))
  /\ UNCHANGED savepoint

SetTickets(c, lists) ==
  /\ m_tickets' = [m_tickets EXCEPT ![c] = lists]
  /\ UNCHANGED <<ticket, lock, loop, savepoint, release, graph, call, pc>>

\* Mutant: HANDLER OPEN takes over a ticket the transaction already had.
SetLockDuration_AnyTicket(c, id) ==
  /\ "set_duration" \in Calls
  /\ Idle(c)
  /\ id \in ToSet(m_tickets[c]["transaction"])
  /\ SetTickets(c, [m_tickets[c] EXCEPT
       !["transaction"] = RemoveFirst(@, id), !["explicit"] = <<id>> \o @])

\* set_lock_duration(MDL_EXPLICIT): HANDLER OPEN, for a ticket that is not
\* within a savepoint (it clones the ticket otherwise).
SetLockDuration(c, id) ==
  /\ "set_duration" \in Calls
  /\ Idle(c)
  /\ id \in ToSet(m_tickets[c]["transaction"])
  /\ savepoint[c] # None => ~HasLock(c, savepoint[c], id)
  /\ SetTickets(c, [m_tickets[c] EXCEPT
       !["transaction"] = RemoveFirst(@, id), !["explicit"] = <<id>> \o @])

\* Mutant: the statement tickets are left out.
SetExplicitDurationForAllLocks_NoStatement(c) ==
  LET lists == m_tickets[c]
  IN /\ "lock_tables" \in Calls
     /\ Idle(c)
     /\ savepoint[c] = None
     /\ SetTickets(c, [statement |-> <<>>, transaction |-> <<>>,
          explicit |-> Reverse(lists["explicit"]) \o lists["transaction"]])

\* set_explicit_duration_for_all_locks(): LOCK TABLES, which commits first.
SetExplicitDurationForAllLocks(c) ==
  LET lists == m_tickets[c]
  IN /\ "lock_tables" \in Calls
     /\ Idle(c)
     /\ savepoint[c] = None
     /\ SetTickets(c, [statement |-> <<>>, transaction |-> <<>>,
          explicit |-> Reverse(lists["explicit"]) \o Reverse(lists["statement"])
                         \o lists["transaction"]])

\* set_transaction_duration_for_all_locks(): the end of LOCK TABLES mode.
SetTransactionDurationForAllLocks(c) ==
  LET lists == m_tickets[c]
  IN /\ "lock_tables" \in Calls
     /\ Idle(c)
     /\ savepoint[c] = None
     /\ lists["statement"] = <<>>
     /\ SetTickets(c, [statement |-> <<>>, explicit |-> <<>>,
          transaction |-> Reverse(lists["transaction"]) \o lists["explicit"]])

-----------------------------------------------------------------------------
\* A new call of the interface.
Caller(c) ==
  \/ \E r \in Requests, op \in {"acquire", "try"} : AcquireLock(c, op, r)
  \/ \E b \in Batches : AcquireLocks(c, b)
  \/ \E id \in Held(c) : UpgradeSharedLock(c, id)
  \/ \E id \in Held(c), type \in {"SNW", "SNRW"} : DowngradeExclusiveLock(c, id, type)
  \/ \E id \in Held(c) : ReleaseLock(c, id)
  \/ \E k \in Keys : ReleaseAllLocksForName(c, k)
  \/ ReleaseStatementLocks(c)
  \/ SetSavepoint(c)
  \/ RollbackToSavepoint(c)
  \/ \E id \in Held(c) : SetLockDuration(c, id)
  \/ SetExplicitDurationForAllLocks(c)
  \/ SetTransactionDurationForAllLocks(c)

\* The next step of the call in progress.
Continue(c) ==
  \/ AcquireNext(c) \/ MarkNoWait(c)
  \/ WillWaitFor(c) \/ Search(c) \/ SetVictim(c)
  \/ DoneWaitingFor(c) \/ WaitFailed(c) \/ WaitGranted(c)
  \/ Merge(c) \/ ReleaseNext(c)
  \/ RescheduleNext(c) \/ RescheduleEnd(c)

Next ==
  \E c \in Contexts :
    \/ Caller(c)
    \/ ReleaseTransactionalLocks(c)
    \/ Continue(c)
    \/ \E status \in Interrupts : InterruptWait(c, status)

Spec == Init /\ [][Next]_vars

\* Threads keep running: m_rwlock is held for a few instructions, and a thread
\* that finds it free again and again gets it.  A transaction that can end does
\* so in the end: it has finitely many statements.
Fairness ==
  \A c \in Contexts : SF_vars(Continue(c)) /\ SF_vars(ReleaseTransactionalLocks(c))

FairSpec == Spec /\ Fairness
=============================================================================
