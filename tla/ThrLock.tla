------------------------------- MODULE ThrLock ------------------------------
(***************************************************************************)
(* The table locks of the server: mysys/thr_lock.c, called for a whole     *)
(* statement by mysql_lock_tables() of sql/lock.cc and, for INSERT         *)
(* DELAYED, by the handler thread of sql/sql_insert.cc.                    *)
(*                                                                         *)
(* A THR_LOCK has two lists of granted locks (read, write) and two queues  *)
(* (read_wait, write_wait).  A THR_LOCK_DATA is an entry of at most one of *)
(* the four: data->cond is set exactly while it is in a queue, and its     *)
(* type is TL_UNLOCK exactly while it is in none.  Whoever takes a lock    *)
(* away, by unlocking, timing out, being killed or aborting a third        *)
(* thread, decides in wake_up_waiters() who runs next.                     *)
(*                                                                         *)
(* One action is one critical section of one THR_LOCK::mutex.              *)
(***************************************************************************)
EXTENDS Naturals, SequencesExt, Lists

CONSTANTS
  Sessions,              \* sessions that lock the tables of a statement
  Handlers,              \* INSERT DELAYED handler threads
  Locks,                 \* the THR_LOCKs, ordered by address
  CheckStatus,           \* the ones whose engine has check_status()
  Requests,              \* the tables and lock types of the statements
  DelayedLock,           \* the table the handlers insert into
  max_write_lock_count,
  thr_upgraded_concurrent_insert_lock

VARIABLES
  locks,      \* Locks -> THR_LOCK
  pc,         \* thread -> where it is
  data,       \* thread -> the locks of its statement, as requested
  todo,       \* thread -> what it has yet to lock, or to unlock
  overtaken   \* thread -> writers let past it while it waits to read (history)

vars == <<locks, pc, data, todo, overtaken>>

Threads == Sessions \union Handlers

(* enum thr_lock_type, in its order.  TL_WRITE_ONLY is set only by           *)
(* thr_abort_locks(), which has no caller.                                   *)
lock_type == <<"TL_READ", "TL_READ_WITH_SHARED_LOCKS", "TL_READ_HIGH_PRIORITY",
               "TL_READ_NO_INSERT", "TL_WRITE_ALLOW_WRITE",
               "TL_WRITE_CONCURRENT_INSERT", "TL_WRITE_DELAYED",
               "TL_WRITE_LOW_PRIORITY", "TL_WRITE">>
Rank == [t \in ToSet(lock_type) |-> CHOOSE n \in DOMAIN lock_type : lock_type[n] = t]

ASSUME LocksAssumption ==
  /\ Locks \subseteq Nat /\ IsFiniteSet(Locks)
  /\ CheckStatus \subseteq Locks /\ DelayedLock \in Locks
  /\ max_write_lock_count \in Nat \ {0}
  /\ thr_upgraded_concurrent_insert_lock \in {"TL_WRITE", "TL_WRITE_LOW_PRIORITY"}
  /\ Sessions \cap Handlers = {}

(* A statement locks some table, none of them with TL_WRITE_DELAYED: the     *)
(* session of an INSERT DELAYED leaves that to the handler, or locks with    *)
(* TL_WRITE (open_and_lock_for_insert_delayed() of sql_insert.cc).           *)
ASSUME RequestsAssumption ==
  Requests \subseteq Seq([lock : Locks, type : DOMAIN Rank \ {"TL_WRITE_DELAYED"}]) \ {<<>>}

IsRead(t) == Rank[t] <= Rank["TL_READ_NO_INSERT"]
NoInsert(e) == e.type = "TL_READ_NO_INSERT"

(* The write locks that share the table with readers, but not with the ones  *)
(* of type TL_READ_NO_INSERT.                                                *)
Sharing == {"TL_WRITE_CONCURRENT_INSERT", "TL_WRITE_ALLOW_WRITE"}

Entry == [owner : Threads, k : Nat, type : DOMAIN Rank]
Queues == {"read", "write", "read_wait", "write_wait"}
Is(e, o, k) == e.owner = o /\ e.k = k
In(q, o, k) == \E i \in DOMAIN q : Is(q[i], o, k)
Without(q, o, k) == Sublist(q, {i \in DOMAIN q : ~Is(q[i], o, k)})
has_old_lock(q, o) == \E i \in DOMAIN q : q[i].owner = o
CountNoInsert(q) == Cardinality({i \in DOMAIN q : NoInsert(q[i])})

TypeOK ==
  /\ \A l \in Locks :
       /\ DOMAIN locks[l] = Queues \union {"write_lock_count", "read_no_write_count"}
       /\ \A q \in Queues : locks[l][q] \in Seq(Entry)
       /\ locks[l].write_lock_count \in 0 .. max_write_lock_count + 1
       /\ locks[l].read_no_write_count \in Nat
  /\ pc \in [Threads -> {"idle", "lock", "wait", "run", "insert", "reschedule", "unlock"}]
  /\ \A o \in Threads : data[o] \in Seq([k : Nat, lock : Locks, type : DOMAIN Rank])
                        /\ ToSet(todo[o]) \subseteq ToSet(data[o])
  /\ overtaken \in [Threads -> Nat]

Init ==
  /\ locks = [l \in Locks |-> [read |-> <<>>, write |-> <<>>,
                               read_wait |-> <<>>, write_wait |-> <<>>,
                               write_lock_count |-> 0, read_no_write_count |-> 0]]
  /\ pc = [o \in Threads |-> "idle"]
  /\ data = [o \in Threads |-> <<>>]
  /\ todo = [o \in Threads |-> <<>>]
  /\ overtaken = [o \in Threads |-> 0]

-----------------------------------------------------------------------------
(* Granting                                                                  *)

(* Mutant: the TL_READ_NO_INSERT requests run beside a concurrent insert.    *)
free_all_read_locks_Everyone(l, using_concurrent_insert) ==
  [l EXCEPT !.read = @ \o l.read_wait,
            !.read_wait = <<>>,
            !.read_no_write_count = @ + CountNoInsert(l.read_wait),
            !.write_lock_count = 0]

(* free_all_read_locks(): the waiting readers run; beside a sharing writer   *)
(* the TL_READ_NO_INSERT ones go back to the queue.                          *)
free_all_read_locks(l, using_concurrent_insert) ==
  LET back == {i \in DOMAIN l.read_wait : NoInsert(l.read_wait[i]) /\ using_concurrent_insert}
      kept == Sublist(l.read_wait, back)
      freed == Sublist(l.read_wait, DOMAIN l.read_wait \ back)
  IN [l EXCEPT !.read = @ \o freed,
               !.read_wait = kept,
               !.read_no_write_count = @ + CountNoInsert(freed),
               !.write_lock_count = IF kept = <<>> THEN 0 ELSE @]

FreeReaders(l, using_concurrent_insert) ==
  IF l.read_wait = <<>> THEN l ELSE free_all_read_locks(l, using_concurrent_insert)

(* The head of write_wait is granted, a TL_WRITE_ALLOW_WRITE one with the    *)
(* requests of the same type behind it; unfit is what check_status() says.   *)
GrantWriters(l, unfit) ==
  LET head == Head(l.write_wait)
      granted == IF head.type # "TL_WRITE_ALLOW_WRITE"
                   THEN <<IF head.type = "TL_WRITE_CONCURRENT_INSERT" /\ unfit
                            THEN [head EXCEPT !.type = "TL_WRITE"] ELSE head>>
                   ELSE SubSeq(l.write_wait, 1, CHOOSE n \in DOMAIN l.write_wait :
                          /\ \A i \in 1 .. n : l.write_wait[i].type = head.type
                          /\ n < Len(l.write_wait) => l.write_wait[n + 1].type # head.type)
  IN [l EXCEPT !.write = @ \o granted,
               !.write_wait = SubSeq(@, Len(granted) + 1, Len(@))]

(* Mutant: the counter is started again, but the readers are not let in.     *)
WakeFree_WritersOnly(l, unfit) ==
  LET tooMany == l.write_lock_count > max_write_lock_count
      next == GrantWriters([l EXCEPT !.write_lock_count = IF tooMany THEN 0 ELSE @ + 1], unfit)
  IN IF l.write_wait = <<>> THEN FreeReaders(l, FALSE)
     ELSE IF Rank[Last(next.write).type] >= Rank["TL_WRITE_LOW_PRIORITY"] THEN next
     ELSE FreeReaders(next, Last(next.write).type \in Sharing)

(* wake_up_waiters() when no lock is granted: writers first, readers between *)
(* after max_write_lock_count writers, and with a writer that allows it.     *)
WakeFree(l, unfit) ==
  LET tooMany == l.write_lock_count > max_write_lock_count
      next == GrantWriters([l EXCEPT !.write_lock_count = IF tooMany THEN 0 ELSE @ + 1], unfit)
      type == Last(next.write).type
  IN IF \/ l.write_wait = <<>>
        \/ /\ Head(l.write_wait).type = "TL_WRITE_LOW_PRIORITY"
           /\ l.read_wait # <<>>
           /\ Rank[Head(l.read_wait).type] >= Rank["TL_READ_HIGH_PRIORITY"]
     THEN FreeReaders(l, FALSE)
     ELSE IF tooMany /\ l.read_wait # <<>>
     THEN free_all_read_locks([l EXCEPT !.write_lock_count = 0], FALSE)
     ELSE IF Rank[type] >= Rank["TL_WRITE_LOW_PRIORITY"]
     THEN next
     ELSE FreeReaders(next, type \in Sharing)

(* wake_up_waiters() beside readers: a writer they allow, or, with no writer *)
(* waiting, the other readers.                                               *)
WakeBesideReaders(l, unfit) ==
  LET head == Head(l.write_wait)
  IN IF l.write_wait = <<>>
     THEN FreeReaders(l, FALSE)
     ELSE IF \/ Rank[head.type] > Rank["TL_WRITE_DELAYED"]
             \/ head.type \in Sharing /\ l.read_no_write_count > 0
     THEN l
     ELSE IF head.type = "TL_WRITE_CONCURRENT_INSERT" /\ unfit
     THEN FreeReaders([l EXCEPT !.write_wait[1].type = "TL_WRITE"], FALSE)
     ELSE FreeReaders(GrantWriters(l, FALSE), head.type \in Sharing)

wake_up_waiters(l, unfit) ==
  IF l.write # <<>> THEN l
  ELSE IF l.read = <<>> THEN WakeFree(l, unfit)
  ELSE WakeBesideReaders(l, unfit)

(* What thr_lock() makes of the requested type: a concurrent insert needs an *)
(* engine that has check_status(), and a table that is fit for it.           *)
TypeAsked(l, d, unfit) ==
  IF /\ d.type = "TL_WRITE_CONCURRENT_INSERT"
     /\ \/ d.lock \notin CheckStatus
        \/ unfit /\ l.write = <<>> /\ l.write_wait = <<>>
  THEN thr_upgraded_concurrent_insert_lock
  ELSE d.type

(* thr_lock() grants a request at once.                                      *)
ReadAtOnce(l, e) ==
  IF l.write # <<>>
  THEN \/ Head(l.write).owner = e.owner
       \/ /\ Rank[Head(l.write).type] <= Rank["TL_WRITE_DELAYED"]
          /\ NoInsert(e) => Head(l.write).type # "TL_WRITE_CONCURRENT_INSERT"
  ELSE (/\ l.write_wait # <<>>
        /\ e.type # "TL_READ_HIGH_PRIORITY"
        /\ ~has_old_lock(l.read, e.owner))
         => Rank[Head(l.write_wait).type] <= Rank["TL_WRITE_LOW_PRIORITY"]

WriteAtOnce(l, e) ==
  IF l.write # <<>>
  THEN \/ /\ e.type = "TL_WRITE_ALLOW_WRITE" /\ l.write_wait = <<>>
          /\ Head(l.write).type = "TL_WRITE_ALLOW_WRITE"
       \/ has_old_lock(l.write, e.owner)
  ELSE /\ l.write_wait = <<>>
       /\ \/ l.read = <<>>
          \/ /\ Rank[e.type] <= Rank["TL_WRITE_DELAYED"]
             /\ e.type \in Sharing => l.read_no_write_count = 0

(* The readers that a change of a lock leaves waiting while it grants the    *)
(* table to a writer that had no lock on it and that no reader can run       *)
(* beside.  A concurrent insert that a TL_READ_NO_INSERT has to wait for is  *)
(* not among them: wake_up_waiters() does not count the ones it lets run     *)
(* beside other readers.                                                     *)
Overtaken(old, new) ==
  {o \in Threads :
     /\ has_old_lock(old.read_wait, o) /\ has_old_lock(new.read_wait, o)
     /\ \E i \in DOMAIN new.write :
          /\ ~has_old_lock(old.write, new.write[i].owner)
          /\ Rank[new.write[i].type] >= Rank["TL_WRITE_LOW_PRIORITY"]}

(* THR_LOCK l becomes new.                                                   *)
SetLock(l, new) ==
  /\ locks' = [locks EXCEPT ![l] = new]
  /\ overtaken' = [o \in Threads |->
       IF o \in Overtaken(locks[l], new) THEN overtaken[o] + 1
       ELSE IF has_old_lock(new.read_wait, o) THEN overtaken[o]
       ELSE IF has_old_lock(locks[l].read_wait, o) THEN 0 ELSE overtaken[o]]

-----------------------------------------------------------------------------
(* thr_multi_lock(), thr_lock() and wait_for_lock()                          *)

LOCK_CMP(a, b) ==
  \/ a.lock < b.lock
  \/ a.lock = b.lock /\ Rank[a.type] > Rank[b.type]

(* Mutant: the locks are taken in the order the statement names them.        *)
sort_locks_AsNamed(s) == s

(* The insertion sort leaves locks that compare equal in their order.        *)
sort_locks(s) ==
  LET Before(i, j) == LOCK_CMP(s[i], s[j]) \/ (i <= j /\ ~LOCK_CMP(s[j], s[i]))
      Place(i) == Cardinality({j \in DOMAIN s : Before(j, i)})
  IN [n \in DOMAIN s |-> s[CHOOSE i \in DOMAIN s : Place(i) = n]]

Goto(o, at) == pc' = [pc EXCEPT ![o] = at]

(* What is left of a call: after its last lock thr_multi_lock() returns.     *)
LockRest(o, rest) ==
  /\ todo' = [todo EXCEPT ![o] = rest]
  /\ Goto(o, IF rest = <<>> THEN "run" ELSE "lock")

(* thr_lock() for the first of the locks s: granted, queued without waiting  *)
(* (TL_WRITE_DELAYED), or the thread waits.                                  *)
thr_lock(o, s) ==
  \E unfit \in BOOLEAN :
    LET d == Head(s)
        l == locks[d.lock]
        e == [owner |-> o, k |-> d.k, type |-> TypeAsked(l, d, unfit)]
    IN \/ /\ IsRead(e.type) /\ ReadAtOnce(l, e)
          /\ SetLock(d.lock, [l EXCEPT !.read = Append(@, e),
                                       !.read_no_write_count = @ + (IF NoInsert(e) THEN 1 ELSE 0)])
          /\ LockRest(o, Tail(s))
       \/ /\ ~IsRead(e.type) /\ WriteAtOnce(l, e)
          /\ e.type = "TL_WRITE_DELAYED" => l.read = <<>>
          /\ SetLock(d.lock, [l EXCEPT !.write = Append(@, e)])
          /\ LockRest(o, Tail(s))
       \/ /\ e.type = "TL_WRITE_DELAYED" /\ (l.write # <<>> \/ l.read # <<>>)
          /\ SetLock(d.lock, [l EXCEPT !.write_wait = Append(@, e)])
          /\ LockRest(o, Tail(s))
       \/ /\ IsRead(e.type) /\ ~ReadAtOnce(l, e)
          /\ SetLock(d.lock, [l EXCEPT !.read_wait = Append(@, e)])
          /\ todo' = [todo EXCEPT ![o] = s] /\ Goto(o, "wait")
       \/ /\ ~IsRead(e.type) /\ ~WriteAtOnce(l, e) /\ e.type # "TL_WRITE_DELAYED"
          /\ SetLock(d.lock, [l EXCEPT !.write_wait = Append(@, e)])
          /\ todo' = [todo EXCEPT ![o] = s] /\ Goto(o, "wait")

(* mysql_lock_tables() of a statement, and of an INSERT DELAYED handler,     *)
(* calls thr_multi_lock(), which sorts the locks and asks for the first ...  *)
thr_multi_lock(o) ==
  /\ pc[o] = "idle"
  /\ \E r \in IF o \in Handlers THEN {<<[lock |-> DelayedLock, type |-> "TL_WRITE_DELAYED"]>>}
                                ELSE Requests :
       LET d == [n \in DOMAIN r |-> [k |-> n, lock |-> r[n].lock, type |-> r[n].type]]
       IN data' = [data EXCEPT ![o] = d] /\ thr_lock(o, sort_locks(d))

(* ... and for the others.                                                   *)
LockNext(o) ==
  /\ pc[o] = "lock"
  /\ thr_lock(o, todo[o])
  /\ UNCHANGED data

(* The lock o waits for: a handler waits in thr_upgrade_write_delay_lock().  *)
Awaited(o) == IF o \in Handlers THEN data[o][1] ELSE Head(todo[o])
Queued(l, o, k) == In(l.read_wait, o, k) \/ In(l.write_wait, o, k)
Granted(l, o, k) == In(l.read, o, k) \/ In(l.write, o, k)

(* wait_for_lock() finds data->cond reset: granted.                          *)
Got(o) ==
  /\ pc[o] = "wait"
  /\ Granted(locks[Awaited(o).lock], o, Awaited(o).k)
  /\ IF o \in Handlers THEN Goto(o, "insert") /\ UNCHANGED todo
                        ELSE LockRest(o, Tail(todo[o]))
  /\ UNCHANGED <<locks, data, overtaken>>

(* What is left of thr_multi_unlock(); then the call is over.                *)
UnlockRest(o, rest) ==
  /\ todo' = [todo EXCEPT ![o] = rest]
  /\ data' = [data EXCEPT ![o] = IF rest = <<>> THEN <<>> ELSE @]
  /\ Goto(o, IF rest = <<>> THEN "idle" ELSE "unlock")

(* wait_for_lock() fails: thr_multi_lock() unlocks what it has got, in its   *)
(* own order; a handler has nothing else.                                    *)
Fail(o) ==
  UnlockRest(o, IF o \in Handlers THEN <<>>
                ELSE SubSeq(sort_locks(data[o]), 1, Len(data[o]) - Len(todo[o])))

(* ... by thr_abort_locks_for_thread().                                      *)
Aborted(o) ==
  /\ pc[o] = "wait"
  /\ ~Granted(locks[Awaited(o).lock], o, Awaited(o).k)
  /\ ~Queued(locks[Awaited(o).lock], o, Awaited(o).k)
  /\ Fail(o)
  /\ UNCHANGED <<locks, overtaken>>

(* Mutant: a request that times out wakes no one.                            *)
wait_for_lock_NoWakeUp(o) ==
  /\ pc[o] = "wait"
  /\ Queued(locks[Awaited(o).lock], o, Awaited(o).k)
  /\ LET d == Awaited(o)
     IN SetLock(d.lock, [locks[d.lock] EXCEPT !.read_wait = Without(@, o, d.k),
                                              !.write_wait = Without(@, o, d.k)])
  /\ Fail(o)

(* Mutant: the timeout is looked at before data->cond.                       *)
wait_for_lock_TimeoutFirst(o) ==
  /\ pc[o] = "wait"
  /\ LET d == Awaited(o)
         l == [locks[d.lock] EXCEPT !.read_wait = Without(@, o, d.k),
                                    !.write_wait = Without(@, o, d.k)]
     IN \E unfit \in BOOLEAN : SetLock(d.lock, wake_up_waiters(l, unfit))
  /\ Fail(o)

(* ... by a timeout, or for a session by KILL, with data->cond still set.    *)
wait_for_lock(o) ==
  /\ pc[o] = "wait"
  /\ Queued(locks[Awaited(o).lock], o, Awaited(o).k)
  /\ LET d == Awaited(o)
         l == [locks[d.lock] EXCEPT !.read_wait = Without(@, o, d.k),
                                    !.write_wait = Without(@, o, d.k)]
     IN \E unfit \in BOOLEAN : SetLock(d.lock, wake_up_waiters(l, unfit))
  /\ Fail(o)

-----------------------------------------------------------------------------
(* thr_multi_unlock() and thr_unlock()                                       *)

(* One step of thr_multi_unlock(); a THR_LOCK_DATA of type TL_UNLOCK is      *)
(* passed over.                                                              *)
thr_unlock(o, s) ==
  /\ LET d == Head(s)
         l == locks[d.lock]
         freed == [l EXCEPT
           !.read = Without(@, o, d.k),
           !.write = Without(@, o, d.k),
           !.write_wait = Without(@, o, d.k),
           !.read_no_write_count =
              @ - Cardinality({i \in DOMAIN l.read : Is(l.read[i], o, d.k) /\ NoInsert(l.read[i])})]
     IN IF Granted(l, o, d.k) \/ Queued(l, o, d.k)
        THEN \E unfit \in BOOLEAN : SetLock(d.lock, wake_up_waiters(freed, unfit))
        ELSE UNCHANGED <<locks, overtaken>>
  /\ UnlockRest(o, Tail(s))

(* mysql_unlock_tables(), in the order the statement named its tables: the   *)
(* first lock, and the others.                                               *)
thr_multi_unlock(o) == pc[o] \in {"run", "insert"} /\ thr_unlock(o, data[o])
UnlockNext(o) == pc[o] = "unlock" /\ thr_unlock(o, todo[o])

(* thr_abort_locks_for_thread(), for a statement that wants a metadata lock: *)
(* wake_up_waiters() is called whether or not o was waiting.  With empty     *)
(* queues it has nothing to do.                                              *)
thr_abort_locks_for_thread(o, l) ==
  /\ locks[l].read_wait # <<>> \/ locks[l].write_wait # <<>>
  /\ LET others(q) == Sublist(q, {i \in DOMAIN q : q[i].owner # o})
         left == [locks[l] EXCEPT !.read_wait = others(@), !.write_wait = others(@)]
     IN \E unfit \in BOOLEAN : SetLock(l, wake_up_waiters(left, unfit))
  /\ UNCHANGED <<pc, data, todo>>

-----------------------------------------------------------------------------
(* INSERT DELAYED                                                            *)

(* Delayed_insert::delayed_lock: TL_WRITE, or TL_WRITE_LOW_PRIORITY with     *)
(* low_priority_updates, like the lock of a concurrent insert that cannot be *)
(* one.                                                                      *)
delayed_lock == thr_upgraded_concurrent_insert_lock

(* thr_upgrade_write_delay_lock(): the granted lock becomes delayed_lock if  *)
(* no one reads, else it goes to the head of the queue; a queued one waits   *)
(* on; an aborted one is an error.                                           *)
thr_upgrade_write_delay_lock(o) ==
  /\ pc[o] \in {"run", "reschedule"} /\ o \in Handlers
  /\ LET d == data[o][1]
         l == locks[d.lock]
         upgraded == [owner |-> o, k |-> d.k, type |-> delayed_lock]
         Upgrade(q) == [i \in DOMAIN q |-> IF Is(q[i], o, d.k) THEN upgraded ELSE q[i]]
     IN \/ /\ Granted(l, o, d.k) /\ l.read = <<>>
           /\ SetLock(d.lock, [l EXCEPT !.write = Upgrade(@)])
           /\ Goto(o, "insert") /\ UNCHANGED <<data, todo>>
        \/ /\ Granted(l, o, d.k) /\ l.read # <<>>
           /\ SetLock(d.lock, [l EXCEPT !.write = Without(@, o, d.k),
                                        !.write_wait = <<upgraded>> \o @])
           /\ Goto(o, "wait") /\ UNCHANGED <<data, todo>>
        \/ /\ Queued(l, o, d.k)
           /\ SetLock(d.lock, [l EXCEPT !.write_wait = Upgrade(@)])
           /\ Goto(o, "wait") /\ UNCHANGED <<data, todo>>
        \/ /\ ~Granted(l, o, d.k) /\ ~Queued(l, o, d.k)
           /\ Fail(o) /\ UNCHANGED <<locks, overtaken>>

(* thr_reschedule_write_lock(): let the waiting readers run, then upgrade    *)
(* again, the mutex being released in between.                               *)
thr_reschedule_write_lock(o) ==
  /\ pc[o] = "insert"
  /\ LET d == data[o][1]
         l == locks[d.lock]
     IN /\ l.read_wait # <<>>
        /\ SetLock(d.lock, free_all_read_locks(
             [l EXCEPT !.write = Without(@, o, d.k),
                       !.write_wait = <<[owner |-> o, k |-> d.k,
                                         type |-> "TL_WRITE_DELAYED"]>> \o @], FALSE))
  /\ Goto(o, "reschedule")
  /\ UNCHANGED <<data, todo>>

-----------------------------------------------------------------------------
Step(o) ==
  \/ thr_multi_lock(o) \/ LockNext(o) \/ Got(o) \/ Aborted(o) \/ wait_for_lock(o)
  \/ thr_multi_unlock(o) \/ UnlockNext(o)
  \/ thr_upgrade_write_delay_lock(o) \/ thr_reschedule_write_lock(o)

Next ==
  \/ \E o \in Threads : Step(o)
  \/ \E o \in Threads, l \in Locks : thr_abort_locks_for_thread(o, l)

Spec == Init /\ [][Next]_vars
=============================================================================
