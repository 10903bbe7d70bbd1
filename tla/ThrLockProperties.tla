-------------------------- MODULE ThrLockProperties -------------------------
(***************************************************************************)
(* What makes the table locks of module ThrLock correct.                   *)
(***************************************************************************)
EXTENDS ThrLock

Entries(l) == UNION {ToSet(locks[l][q]) : q \in Queues}

(* Two locks of different threads on one table: the matrix of thr_lock().    *)
Compatible(w, e) ==
  IF IsRead(e.type)
  THEN /\ Rank[w.type] <= Rank["TL_WRITE_DELAYED"]
       /\ NoInsert(e) => w.type # "TL_WRITE_CONCURRENT_INSERT"
  ELSE w.type = "TL_WRITE_ALLOW_WRITE" /\ e.type = "TL_WRITE_ALLOW_WRITE"

(* Whatever order requests, unlocks, timeouts, aborts, upgrades and          *)
(* reschedules come in, no thread has a lock beside one it excludes: each of *)
(* thr_lock(), wake_up_waiters(), free_all_read_locks() and the two          *)
(* operations of INSERT DELAYED decides that with a test of its own.         *)
GrantedCompatible ==
  \A l \in Locks :
    \A w \in ToSet(locks[l].write),
       e \in ToSet(locks[l].write) \union ToSet(locks[l].read) :
      w.owner # e.owner => Compatible(w, e)

(* read_no_write_count is the number of granted TL_READ_NO_INSERT locks,     *)
(* which is what keeps concurrent inserts out (check_locks() checks it too). *)
NoInsertCounted ==
  \A l \in Locks :
    locks[l].read_no_write_count = CountNoInsert(locks[l].read)

(* Without a granted write lock no one waits whom nobody would wake: nobody  *)
(* at all on a free table, no reader unless a writer is queued; every way of *)
(* leaving a lock must see to that.                                          *)
NoForgottenWaiter ==
  \A l \in Locks :
    LET q == locks[l]
    IN q.write = <<>> =>
         /\ q.read = <<>> => q.write_wait = <<>> /\ q.read_wait = <<>>
         /\ q.write_wait = <<>> => q.read_wait = <<>>

(* The number of TL_READ_NO_INSERT locks is right and nobody is forgotten in *)
(* a queue, after every operation: two of the things that check_locks() of a *)
(* debug build warns of (thr_lock.c:212-240).  What it demands of the        *)
(* requests at the heads of the queues is not claimed here: the code does    *)
(* not keep that (README.md, Findings).                                      *)
Consistent == TypeOK /\ NoInsertCounted /\ NoForgottenWaiter

(* The threads that keep o waiting: those that have a lock it cannot run     *)
(* beside, and the writers queued on the same table.                         *)
Asked(o) ==
  LET l == locks[Awaited(o).lock]
  IN CHOOSE e \in ToSet(l.read_wait) \union ToSet(l.write_wait) :
       Is(e, o, Awaited(o).k)
Waiters == {o \in Threads : pc[o] = "wait" /\ Queued(locks[Awaited(o).lock], o, Awaited(o).k)}
Blockers(o) ==
  LET l == locks[Awaited(o).lock]
      e == Asked(o)
      others == IF IsRead(e.type) THEN ToSet(l.write_wait)
                ELSE {l.write_wait[i] : i \in {n \in DOMAIN l.write_wait :
                        \E j \in DOMAIN l.write_wait : n < j /\ l.write_wait[j] = e}}
      writers == {w \in ToSet(l.write) : ~Compatible(w, e)}
      readers == {r \in ToSet(l.read) : ~IsRead(e.type) /\ ~Compatible(e, r)}
  IN {x.owner : x \in others \union writers \union readers}

(* No set of threads waits only for each other: sort_locks() orders the      *)
(* tables of a statement, strongest lock first, and a thread that already    *)
(* has a lock on a table gets the next one ahead of the queue.               *)
NoDeadlock ==
  \A S \in SUBSET Waiters : S # {} => \E o \in S : Blockers(o) \cap S = {}

(* A thread that works has every lock of its statement (an INSERT DELAYED    *)
(* handler at least a place in the queue, and the table to itself while it   *)
(* inserts), and one that is done has left nothing in any list, whether it   *)
(* succeeded, timed out or was aborted while it was being granted.           *)
AllOrNothing ==
  \A o \in Threads :
    /\ pc[o] = "idle" => \A l \in Locks : \A e \in Entries(l) : e.owner # o
    /\ pc[o] = "run" /\ o \in Sessions =>
         \A i \in DOMAIN data[o] : Granted(locks[data[o][i].lock], o, data[o][i].k)
    /\ pc[o] = "insert" =>
         LET l == locks[DelayedLock]
         IN Len(l.write) = 1 /\ Is(l.write[1], o, 1) /\ l.read = <<>>

(* A waiting reader of any type is let run after at most                     *)
(* max_write_lock_count + 1 more writers that exclude every reader have been *)
(* preferred to it: wake_up_waiters() tests write_lock_count before it       *)
(* counts, with >, so that one more passes than the system variable says.    *)
(* free_all_read_locks() may start the count again only when it leaves no    *)
(* reader behind.                                                            *)
ReadersLetIn == \A o \in Threads : overtaken[o] <= max_write_lock_count + 1
=============================================================================
