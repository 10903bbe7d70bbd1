------------------------------- MODULE MDLMap -------------------------------
(***************************************************************************)
(* MDL_map of sql/mdl.cc: the server-wide hash from MDL_key to MDL_lock,   *)
(* with its cache of unused MDL_object_lock objects and the protocol that  *)
(* keeps MDL_map::m_mutex and MDL_lock::m_rwlock apart.                    *)
(*                                                                         *)
(* A thread looks an object up under m_mutex, counts itself in             *)
(* m_ref_usage, remembers m_version, drops m_mutex, and only then locks    *)
(* the object.  In that window the object may be unlinked, parked in the   *)
(* cache, reused for another key, or destroyed.                            *)
(*                                                                         *)
(* A critical section of m_mutex is one action: it never waits for an      *)
(* m_rwlock.  A critical section of an m_rwlock that waits for m_mutex, or *)
(* whose result is used after it, is several actions.                      *)
(***************************************************************************)
EXTENDS Naturals, FiniteSets

CONSTANTS
  Threads,     \* the connections
  Objects,     \* heap cells an MDL_lock may be allocated in
  TableKeys,   \* keys whose MDL_lock is an MDL_object_lock: it may be cached
  SchemaKeys,  \* keys of the SCHEMA namespace: their MDL_lock is never cached
  PreKeys,     \* GLOBAL and COMMIT: one pre-allocated MDL_lock for each key
  CacheSize,   \* mdl_locks_cache_size
  UintMod,     \* 2^w, w the width of m_ref_usage and m_ref_release
  MaxVersion,  \* bound: no new request once an m_version reaches it
  None         \* the null pointer

HashKeys == TableKeys \cup SchemaKeys
Keys == HashKeys \cup PreKeys
AllObjects == Objects \cup PreKeys   \* a pre-allocated lock is named by its key

\* "their size is big enough to hold maximum number of concurrent threads"
ASSUME ThreadsAssumption ==
  /\ IsFiniteSet(Threads)
  /\ UintMod \in Nat
  /\ Cardinality(Threads) < UintMod

ASSUME MapAssumption ==
  /\ CacheSize \in Nat
  /\ MaxVersion \in Nat
  /\ TableKeys \cap SchemaKeys = {}
  /\ PreKeys \cap (TableKeys \cup SchemaKeys \cup Objects) = {}
  /\ None \notin Threads \cup Objects \cup TableKeys \cup SchemaKeys \cup PreKeys

VARIABLES
  m_locks,       \* HashKeys -> object or None: the hash
  unused,        \* m_unused_locks_cache
  live,          \* the cell holds a constructed MDL_lock
  key,           \* MDL_lock::key
  m_ref_usage,
  m_ref_release,
  m_is_destroyed,
  m_version,
  rwlock,        \* MDL_lock::m_rwlock: the thread that write-locked it
  tickets,       \* threads with a ticket in m_granted or m_waiting
  pc,            \* where each thread is
  want,          \* the key its find_or_insert() is looking for
  obj,           \* the MDL_lock it points at
  version,       \* the local "version" of move_from_hash_to_lock_mutex()
  last           \* ref_usage == ref_release, read before the unlock

heap == <<live, key, m_ref_usage, m_ref_release, m_is_destroyed, m_version>>
locals == <<pc, want, obj, version, last>>
vars == <<m_locks, unused, heap, rwlock, tickets, locals>>

Labels == {"idle", "find", "reflock", "check", "locked", "held",
           "unlink", "unlock", "destroy"}

\* uint arithmetic: the counters wrap.
Inc(n) == IF n + 1 = UintMod THEN 0 ELSE n + 1

TypeOK ==
  /\ m_locks \in [HashKeys -> Objects \cup {None}]
  /\ unused \in SUBSET Objects
  /\ live \in [AllObjects -> BOOLEAN]
  /\ key \in [AllObjects -> Keys \cup {None}]
  /\ m_ref_usage \in [AllObjects -> 0 .. UintMod - 1]
  /\ m_ref_release \in [AllObjects -> 0 .. UintMod - 1]
  /\ m_is_destroyed \in [AllObjects -> BOOLEAN]
  /\ m_version \in [AllObjects -> Nat]
  /\ rwlock \in [AllObjects -> Threads \cup {None}]
  /\ tickets \in [AllObjects -> SUBSET Threads]
  /\ pc \in [Threads -> Labels]
  /\ want \in [Threads -> Keys \cup {None}]
  /\ obj \in [Threads -> AllObjects \cup {None}]
  /\ version \in [Threads -> Nat]
  /\ last \in [Threads -> BOOLEAN]

\* MDL_map::init(): an empty hash, an empty cache, two pre-allocated locks.
Init ==
  /\ m_locks = [k \in HashKeys |-> None]
  /\ unused = {}
  /\ live = [o \in AllObjects |-> o \in PreKeys]
  /\ key = [o \in AllObjects |-> IF o \in PreKeys THEN o ELSE None]
  /\ m_ref_usage = [o \in AllObjects |-> 0]
  /\ m_ref_release = [o \in AllObjects |-> 0]
  /\ m_is_destroyed = [o \in AllObjects |-> FALSE]
  /\ m_version = [o \in AllObjects |-> 0]
  /\ rwlock = [o \in AllObjects |-> None]
  /\ tickets = [o \in AllObjects |-> {}]
  /\ pc = [t \in Threads |-> "idle"]
  /\ want = [t \in Threads |-> None]
  /\ obj = [t \in Threads |-> None]
  /\ version = [t \in Threads |-> 0]
  /\ last = [t \in Threads |-> FALSE]

At(t, label) == pc[t] = label
Goto(t, label) == pc' = [pc EXCEPT ![t] = label]

\* Back in the caller, with nothing in hand.
Return(t) ==
  /\ Goto(t, "idle")
  /\ want' = [want EXCEPT ![t] = None]
  /\ obj' = [obj EXCEPT ![t] = None]

\* A connection asks for a lock on k: try_acquire_lock_impl() calls
\* find_or_insert().
Request(t, k) ==
  /\ At(t, "idle")
  /\ \A o \in Objects : m_version[o] < MaxVersion
  /\ Goto(t, "find")
  /\ want' = [want EXCEPT ![t] = k]
  /\ UNCHANGED <<m_locks, unused, heap, rwlock, tickets, obj, version, last>>

-----------------------------------------------------------------------------
(* find_or_insert() and move_from_hash_to_lock_mutex() *)

\* GLOBAL and COMMIT skip the hash: lock the pre-allocated object.
FindPreallocated(t) ==
  /\ At(t, "find")
  /\ want[t] \in PreKeys
  /\ rwlock[want[t]] = None
  /\ rwlock' = [rwlock EXCEPT ![want[t]] = t]
  /\ obj' = [obj EXCEPT ![t] = want[t]]
  /\ Goto(t, "locked")
  /\ UNCHANGED <<m_locks, unused, heap, tickets, want, version, last>>

\* The end of the m_mutex section: o's version is remembered with it still held.
RememberVersion(t, o) ==
  /\ version' = [version EXCEPT ![t] = m_version'[o]]
  /\ obj' = [obj EXCEPT ![t] = o]
  /\ Goto(t, "reflock")

\* Mutant: an object found in the hash is not counted in m_ref_usage.
FindInHash_NotCounted(t) ==
  /\ At(t, "find")
  /\ want[t] \in HashKeys
  /\ m_locks[want[t]] # None
  /\ UNCHANGED <<m_locks, unused, heap>>
  /\ RememberVersion(t, m_locks[want[t]])
  /\ UNCHANGED <<rwlock, tickets, want, last>>

\* The key is in the hash.
FindInHash(t) ==
  /\ At(t, "find")
  /\ want[t] \in HashKeys
  /\ m_locks[want[t]] # None
  /\ m_ref_usage' = [m_ref_usage EXCEPT ![m_locks[want[t]]] = Inc(@)]
  /\ UNCHANGED <<m_locks, unused, live, key, m_ref_release, m_is_destroyed, m_version>>
  /\ RememberVersion(t, m_locks[want[t]])
  /\ UNCHANGED <<rwlock, tickets, want, last>>

NotInHash(t) ==
  /\ At(t, "find")
  /\ want[t] \in HashKeys
  /\ m_locks[want[t]] = None

UseCache(t) == want[t] \in TableKeys /\ unused # {}

\* MDL_object_lock::reset() changes the key and nothing else.
ReuseUnused(t) ==
  /\ NotInHash(t)
  /\ UseCache(t)
  /\ \E o \in unused :
       /\ unused' = unused \ {o}
       /\ key' = [key EXCEPT ![o] = want[t]]
       /\ m_locks' = [m_locks EXCEPT ![want[t]] = o]
       /\ m_ref_usage' = [m_ref_usage EXCEPT ![o] = Inc(@)]
       /\ UNCHANGED <<live, m_ref_release, m_is_destroyed, m_version>>
       /\ RememberVersion(t, o)
  /\ UNCHANGED <<rwlock, tickets, want, last>>

\* MDL_lock::create(): a fresh object, constructed and counted.
CreateLock(t) ==
  /\ NotInHash(t)
  /\ ~UseCache(t)
  /\ \E o \in Objects :
       /\ ~live[o]
       /\ live' = [live EXCEPT ![o] = TRUE]
       /\ key' = [key EXCEPT ![o] = want[t]]
       /\ m_locks' = [m_locks EXCEPT ![want[t]] = o]
       /\ m_ref_usage' = [m_ref_usage EXCEPT ![o] = Inc(0)]
       /\ m_ref_release' = [m_ref_release EXCEPT ![o] = 0]
       /\ m_is_destroyed' = [m_is_destroyed EXCEPT ![o] = FALSE]
       /\ m_version' = [m_version EXCEPT ![o] = 0]
       /\ RememberVersion(t, o)
  /\ UNCHANGED <<unused, rwlock, tickets, want, last>>

\* Out of memory in create() or my_hash_insert(): a cached object goes back to
\* the cache with the new key, a new one is destroyed, and NULL is returned.
OutOfMemory(t) ==
  /\ NotInHash(t)
  /\ IF UseCache(t)
       THEN \E o \in unused : key' = [key EXCEPT ![o] = want[t]]
       ELSE UNCHANGED key
  /\ Return(t)
  /\ UNCHANGED <<m_locks, unused, live, m_ref_usage, m_ref_release,
                 m_is_destroyed, m_version, rwlock, tickets, version, last>>

\* m_mutex is no longer held: write-lock the object and count the release.
LockObject(t) ==
  /\ At(t, "reflock")
  /\ rwlock[obj[t]] = None
  /\ rwlock' = [rwlock EXCEPT ![obj[t]] = t]
  /\ m_ref_release' = [m_ref_release EXCEPT ![obj[t]] = Inc(@)]
  /\ Goto(t, "check")
  /\ UNCHANGED <<m_locks, unused, live, key, m_ref_usage, m_is_destroyed,
                 m_version, tickets, want, obj, version, last>>

\* Mutant: only destruction is noticed, not the move to the cache.
CheckVersion_OnlyDestroyed(t) ==
  /\ At(t, "check")
  /\ IF ~m_is_destroyed[obj[t]]
       THEN Goto(t, "locked") /\ UNCHANGED last
       ELSE /\ Goto(t, "unlock")
            /\ last' = [last EXCEPT ![t] = m_ref_usage[obj[t]] = m_ref_release[obj[t]]]
  /\ UNCHANGED <<m_locks, unused, heap, rwlock, tickets, want, obj, version>>

\* Mutant: the last reference leaves the deletion to the remover.
CheckVersion_NeverDeletes(t) ==
  /\ At(t, "check")
  /\ Goto(t, IF m_version[obj[t]] = version[t] THEN "locked" ELSE "unlock")
  /\ last' = [last EXCEPT ![t] = FALSE]
  /\ UNCHANGED <<m_locks, unused, heap, rwlock, tickets, want, obj, version>>

\* Is it still the object that was found?  If not, retry; the last reference
\* to a destroyed object also has to delete it.
CheckVersion(t) ==
  /\ At(t, "check")
  /\ IF m_version[obj[t]] = version[t]
       THEN Goto(t, "locked") /\ UNCHANGED last
       ELSE /\ Goto(t, "unlock")
            /\ last' = [last EXCEPT ![t] =
                          /\ m_is_destroyed[obj[t]]
                          /\ m_ref_usage[obj[t]] = m_ref_release[obj[t]]]
  /\ UNCHANGED <<m_locks, unused, heap, rwlock, tickets, want, obj, version>>

-----------------------------------------------------------------------------
(* What the callers do with the locked object *)

\* try_acquire_lock_impl() or acquire_lock() adds a ticket and unlocks.
AddTicket(t) ==
  /\ At(t, "locked")
  /\ tickets' = [tickets EXCEPT ![obj[t]] = @ \cup {t}]
  /\ rwlock' = [rwlock EXCEPT ![obj[t]] = None]
  /\ Goto(t, "held")
  /\ want' = [want EXCEPT ![t] = None]
  /\ UNCHANGED <<m_locks, unused, heap, obj, version, last>>

\* The request conflicts and may not wait: unlock.  An empty lock conflicts
\* with nothing.
GiveUp(t) ==
  /\ At(t, "locked")
  /\ tickets[obj[t]] # {}
  /\ rwlock' = [rwlock EXCEPT ![obj[t]] = None]
  /\ Return(t)
  /\ UNCHANGED <<m_locks, unused, heap, tickets, version, last>>

\* MDL_lock::remove_ticket(): an object left empty is handed to
\* MDL_map::remove() with its m_rwlock held, unless it is pre-allocated.
RemoveTicket(t) ==
  /\ At(t, "held")
  /\ rwlock[obj[t]] = None
  /\ tickets' = [tickets EXCEPT ![obj[t]] = @ \ {t}]
  /\ IF tickets[obj[t]] = {t} /\ obj[t] \notin PreKeys
       THEN /\ rwlock' = [rwlock EXCEPT ![obj[t]] = t]
            /\ Goto(t, "unlink")
            /\ UNCHANGED <<want, obj>>
       ELSE Return(t) /\ UNCHANGED rwlock
  /\ UNCHANGED <<m_locks, unused, heap, version, last>>

\* The m_mutex section of MDL_map::remove().
Unlink(t) ==
  /\ At(t, "unlink")
  /\ m_locks' = [m_locks EXCEPT ![key[obj[t]]] = None]
  /\ m_version' = [m_version EXCEPT ![obj[t]] = @ + 1]
  /\ IF key[obj[t]] \in TableKeys /\ Cardinality(unused) < CacheSize
       THEN /\ unused' = unused \cup {obj[t]}
            /\ last' = [last EXCEPT ![t] = FALSE]
            /\ UNCHANGED m_is_destroyed
       ELSE /\ m_is_destroyed' = [m_is_destroyed EXCEPT ![obj[t]] = TRUE]
            /\ last' = [last EXCEPT ![t] =
                          m_ref_usage[obj[t]] = m_ref_release[obj[t]]]
            /\ UNCHANGED unused
  /\ Goto(t, "unlock")
  /\ UNCHANGED <<live, key, m_ref_usage, m_ref_release, rwlock, tickets,
                 want, obj, version>>

\* find_or_insert() goes back to "retry", remove() returns to its caller.
RetryOrReturn(t) ==
  IF want[t] = None
    THEN Return(t)
    ELSE /\ Goto(t, "find")
         /\ obj' = [obj EXCEPT ![t] = None]
         /\ UNCHANGED want

Unlock(t) ==
  /\ At(t, "unlock")
  /\ rwlock' = [rwlock EXCEPT ![obj[t]] = None]
  /\ IF last[t]
       THEN Goto(t, "destroy") /\ UNCHANGED <<want, obj>>
       ELSE RetryOrReturn(t)
  /\ UNCHANGED <<m_locks, unused, heap, tickets, version, last>>

\* MDL_lock::destroy(), with no lock held.
Destroy(t) ==
  /\ At(t, "destroy")
  /\ live' = [live EXCEPT ![obj[t]] = FALSE]
  /\ RetryOrReturn(t)
  /\ UNCHANGED <<m_locks, unused, key, m_ref_usage, m_ref_release,
                 m_is_destroyed, m_version, rwlock, tickets, version, last>>

-----------------------------------------------------------------------------
FindOrInsert(t) ==
  \/ FindPreallocated(t)
  \/ FindInHash(t)
  \/ ReuseUnused(t)
  \/ CreateLock(t)
  \/ OutOfMemory(t)
  \/ LockObject(t)
  \/ CheckVersion(t)

Remove(t) == Unlink(t) \/ Unlock(t) \/ Destroy(t)

Next ==
  \E t \in Threads :
    \/ \E k \in Keys : Request(t, k)
    \/ FindOrInsert(t)
    \/ AddTicket(t)
    \/ GiveUp(t)
    \/ RemoveTicket(t)
    \/ Remove(t)

Spec == Init /\ [][Next]_vars

\* A thread that is inside find_or_insert() or remove() keeps running; it is
\* never obliged to ask for a lock or to give one up.
Fairness ==
  \A t \in Threads : WF_vars(FindOrInsert(t)) /\ WF_vars(Remove(t))

FairSpec == Spec /\ Fairness
=============================================================================
