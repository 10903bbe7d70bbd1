-------------------------- MODULE MDLMapProperties --------------------------
(* What makes MDL_map correct: stated here, checked by MCMDLMap*, proved in  *)
(* MDLMapProofs.                                                            *)
EXTENDS MDLMap

\* Threads between the two counters: counted in m_ref_usage and not yet in
\* m_ref_release.
Pending(o) == {t \in Threads : pc[t] = "reflock" /\ obj[t] = o}

\* Threads that will still read or write the memory of o.
Users(o) == {t \in Threads : obj[t] = o}

\* No thread ever points at an MDL_lock that was deleted, be it about to lock
\* it, holding it, holding a ticket on it or about to delete it itself (no use
\* after free, no double free): the reference counting of
\* move_from_hash_to_lock_mutex() and MDL_map::remove().
MemorySafe == \A t \in Threads : obj[t] # None => live[obj[t]]

\* find_or_insert() returns the lock object of the key it was asked for, and
\* that object is the pre-allocated one or the one the hash holds for the key,
\* however often the object was unlinked, cached and reused while no lock was
\* held.
RightObject ==
  \A t \in Threads : pc[t] = "locked" =>
    /\ key[obj[t]] = want[t]
    /\ IF want[t] \in HashKeys THEN m_locks[want[t]] = obj[t] ELSE obj[t] \in PreKeys

\* All tickets for one key hang off one object: two connections can never be
\* granted conflicting locks because they look at different MDL_locks.
OneObjectPerKey ==
  \A t, u \in Threads :
    /\ pc[t] = "held" /\ pc[u] = "held"
    /\ key[obj[t]] = key[obj[u]]
    => obj[t] = obj[u]

\* Every MDL_lock in memory is in the hash, in the cache, or marked destroyed
\* with some thread still to come that will delete it: nothing leaks, at any
\* moment, whoever turns out to hold the last reference.
NoLeak ==
  \A o \in Objects : live[o] =>
    \/ \E k \in HashKeys : m_locks[k] = o
    \/ o \in unused
    \/ m_is_destroyed[o] /\ Users(o) # {}

\* The thread that deletes a lock object is the only one that points at it.
SoleDestroyer ==
  \A t \in Threads : pc[t] = "destroy" => Users(obj[t]) = {t}

\* A destroyed object is freed in the end.
EventuallyFreed ==
  \A o \in Objects : (live[o] /\ m_is_destroyed[o]) ~> ~live[o]

-----------------------------------------------------------------------------
(* The inductive invariant. *)

\* m_ref_usage - m_ref_release, modulo 2^w, is the number of pending threads.
RefCounts ==
  \A o \in Objects : live[o] =>
    LET n == Cardinality(Pending(o)) IN
      \/ m_ref_usage[o] = m_ref_release[o] + n
      \/ m_ref_usage[o] + UintMod = m_ref_release[o] + n

\* The hash and the cache hold live, distinct objects.
HashInv ==
  \A k \in HashKeys : m_locks[k] # None =>
    /\ live[m_locks[k]]
    /\ key[m_locks[k]] = k
    /\ ~m_is_destroyed[m_locks[k]]
    /\ m_locks[k] \notin unused

CacheInv ==
  \A o \in unused : live[o] /\ ~m_is_destroyed[o]

PreInv == \A o \in PreKeys : live[o] /\ key[o] = o

\* A remembered version is never ahead of the object's, and as long as it is
\* equal the object has not left the hash.
VersionInv ==
  \A t \in Threads : pc[t] \in {"reflock", "check"} =>
    /\ obj[t] \in Objects
    /\ want[t] \in HashKeys
    /\ version[t] <= m_version[obj[t]]
    /\ version[t] = m_version[obj[t]] => m_locks[want[t]] = obj[t]

Holding(t) == pc[t] \in {"check", "locked", "unlink", "unlock"}

\* The m_rwlock of an object is held by the thread whose label says so.
RwlockInv ==
  /\ \A t \in Threads : Holding(t) => obj[t] \in AllObjects /\ rwlock[obj[t]] = t
  /\ \A o \in AllObjects : rwlock[o] # None =>
       Holding(rwlock[o]) /\ obj[rwlock[o]] = o

TicketInv ==
  \A o \in AllObjects :
    /\ tickets[o] = {t \in Threads : pc[t] = "held" /\ obj[t] = o}
    /\ tickets[o] # {} => o \in PreKeys \/ \E k \in HashKeys : m_locks[k] = o

LabelInv ==
  \A t \in Threads :
    /\ pc[t] \in {"idle", "find"} <=> obj[t] = None
    /\ pc[t] = "find" => want[t] \in Keys
    /\ pc[t] \in {"unlink", "unlock", "destroy"} => obj[t] \in Objects
    /\ pc[t] = "destroy" => last[t]

\* MDL_map::remove() unlinks an object without tickets that is in the hash.
UnlinkInv ==
  \A t \in Threads : pc[t] = "unlink" =>
    /\ tickets[obj[t]] = {}
    /\ key[obj[t]] \in HashKeys
    /\ m_locks[key[obj[t]]] = obj[t]

\* A thread that found the counters equal is alone with a destroyed object.
SoleInv ==
  \A t \in Threads : pc[t] \in {"unlock", "destroy"} /\ last[t] =>
    m_is_destroyed[obj[t]] /\ Users(obj[t]) = {t}

\* Someone will delete a destroyed object: a thread still to be counted, one
\* about to compare the counters, or one that found them equal.
HeirInv ==
  \A o \in Objects : live[o] /\ m_is_destroyed[o] =>
    \/ Pending(o) # {}
    \/ \E t \in Users(o) :
         pc[t] = "check" \/ (pc[t] \in {"unlock", "destroy"} /\ last[t])

LeakInv ==
  \A o \in Objects : live[o] /\ ~m_is_destroyed[o] =>
    o \in unused \/ \E k \in HashKeys : m_locks[k] = o

MapInv ==
  /\ TypeOK
  /\ MemorySafe
  /\ RightObject
  /\ RefCounts
  /\ HashInv
  /\ CacheInv
  /\ PreInv
  /\ VersionInv
  /\ RwlockInv
  /\ TicketInv
  /\ LabelInv
  /\ UnlinkInv
  /\ SoleInv
  /\ HeirInv
  /\ LeakInv
=============================================================================
