---------------------------- MODULE MDLMapProofs ----------------------------
(***************************************************************************)
(* Proofs about MDL_map for every set of threads, keys and objects, every  *)
(* cache size and every counter width that exceeds the number of threads.  *)
(*                                                                         *)
(* MapInv is inductive.  Its heart is RefCounts: m_ref_usage minus         *)
(* m_ref_release, modulo the width of the counters, is the number of       *)
(* threads between the two increments.  Equal counters therefore mean that *)
(* nobody is on the way to the object (EqualCounters), which is what makes *)
(* a thread that saw them equal the only one left (SoleInv) and a          *)
(* destroyed object never ownerless (HeirInv).  VersionInv says that a     *)
(* remembered version still current means the object never left the hash.  *)
(***************************************************************************)
EXTENDS MDLMapProperties, FiniteSetTheorems, TLAPS

USE DEF At, Goto

\* The modulus of the counters is positive.
LEMMA UintModPositive == UintMod \in Nat \ {0} /\ 0 \in 0 .. UintMod - 1
  BY FS_CardinalityType, ThreadsAssumption

\* Incrementing a uint counter gives a uint.
LEMMA IncType == \A n \in 0 .. UintMod - 1 : Inc(n) \in 0 .. UintMod - 1
  BY UintModPositive DEF Inc

\* A set of threads is finite and smaller than the modulus of the counters:
\* the counters cannot wrap past each other.
LEMMA ThreadSets ==
  ASSUME NEW S \in SUBSET Threads
  PROVE  /\ IsFiniteSet(S)
         /\ Cardinality(S) \in Nat
         /\ Cardinality(S) < UintMod
         /\ Cardinality(S) = 0 <=> S = {}
<1>1. IsFiniteSet(S) /\ Cardinality(S) <= Cardinality(Threads)
  BY FS_Subset, ThreadsAssumption
<1>2. Cardinality(S) \in Nat /\ Cardinality(Threads) \in Nat
  BY <1>1, FS_CardinalityType, ThreadsAssumption
<1>3. Cardinality(S) = 0 <=> S = {}
  BY <1>1, FS_EmptySet
<1> QED BY <1>1, <1>2, <1>3, ThreadsAssumption

\* Pending threads are threads.
LEMMA PendingThreads == \A o : Pending(o) \in SUBSET Threads /\ Pending(o)' \in SUBSET Threads
  BY DEF Pending

\* A thread that leaves m_mutex with a pointer to x adds itself to the pending
\* threads of x and of no other object.
LEMMA PendingAdded ==
  ASSUME TypeOK, NEW t \in Threads, NEW x \in Objects, pc[t] # "reflock",
         pc' = [pc EXCEPT ![t] = "reflock"], obj' = [obj EXCEPT ![t] = x]
  PROVE  /\ Cardinality(Pending(x)') = Cardinality(Pending(x)) + 1
         /\ Cardinality(Pending(x)) + 1 < UintMod
         /\ Cardinality(Pending(x)) \in Nat
         /\ \A o \in Objects : o # x => Pending(o)' = Pending(o)
<1>1. Pending(x)' = Pending(x) \cup {t} /\ t \notin Pending(x)
  BY DEF Pending, TypeOK
<1>2. \A o \in Objects : o # x => Pending(o)' = Pending(o)
  BY DEF Pending, TypeOK
<1>3. Cardinality(Pending(x) \cup {t}) = Cardinality(Pending(x)) + 1
  BY <1>1, PendingThreads, ThreadSets, FS_AddElement
<1>4. Cardinality(Pending(x)') < UintMod /\ Cardinality(Pending(x)) \in Nat
  BY PendingThreads, ThreadSets
<1> QED BY <1>1, <1>2, <1>3, <1>4

\* A thread that locks x is no longer pending on it.
LEMMA PendingRemoved ==
  ASSUME TypeOK, NEW t \in Threads, NEW x \in Objects, NEW label,
         label # "reflock", pc[t] = "reflock", obj[t] = x,
         pc' = [pc EXCEPT ![t] = label], UNCHANGED obj
  PROVE  /\ Cardinality(Pending(x)') = Cardinality(Pending(x)) - 1
         /\ Cardinality(Pending(x)) \in Nat \ {0}
         /\ Cardinality(Pending(x)) < UintMod
         /\ \A o \in Objects : o # x => Pending(o)' = Pending(o)
<1>1. Pending(x)' = Pending(x) \ {t} /\ t \in Pending(x)
  BY DEF Pending, TypeOK
<1>2. \A o \in Objects : o # x => Pending(o)' = Pending(o)
  BY DEF Pending, TypeOK
<1>3. Cardinality(Pending(x) \ {t}) = Cardinality(Pending(x)) - 1
  BY <1>1, PendingThreads, ThreadSets, FS_RemoveElement
<1>4. Cardinality(Pending(x)) \in Nat \ {0} /\ Cardinality(Pending(x)) < UintMod
  BY <1>1, PendingThreads, ThreadSets
<1> QED BY <1>1, <1>2, <1>3, <1>4

\* usage - rel is n, modulo the width of the counters.
Counted(usage, rel, n) == usage = rel + n \/ usage + UintMod = rel + n

\* One more in m_ref_usage, one more pending.
LEMMA CountedUsage ==
  ASSUME NEW usage \in 0 .. UintMod - 1, NEW rel \in 0 .. UintMod - 1, NEW n \in Nat,
         n + 1 < UintMod, Counted(usage, rel, n)
  PROVE  Counted(Inc(usage), rel, n + 1)
  BY UintModPositive DEF Counted, Inc

\* One more in m_ref_release, one fewer pending.
LEMMA CountedRelease ==
  ASSUME NEW usage \in 0 .. UintMod - 1, NEW rel \in 0 .. UintMod - 1, NEW n \in Nat,
         n < UintMod, n # 0, Counted(usage, rel, n)
  PROVE  Counted(usage, Inc(rel), n - 1)
  BY UintModPositive DEF Counted, Inc

\* Equal counters mean none pending.
LEMMA CountedEqual ==
  ASSUME NEW usage \in 0 .. UintMod - 1, NEW rel \in 0 .. UintMod - 1, NEW n \in Nat,
         n < UintMod, Counted(usage, rel, n)
  PROVE  usage = rel <=> n = 0
  BY UintModPositive DEF Counted

\* The test ref_usage == ref_release of MDL_map::remove() and of
\* move_from_hash_to_lock_mutex() tells exactly whether a thread is pending.
LEMMA EqualCounters ==
  ASSUME TypeOK, RefCounts, NEW o \in Objects, live[o]
  PROVE  m_ref_usage[o] = m_ref_release[o] <=> Pending(o) = {}
<1> DEFINE n == Cardinality(Pending(o))
<1>1. n \in Nat /\ n < UintMod /\ (n = 0 <=> Pending(o) = {})
  BY PendingThreads, ThreadSets
<1>2. Counted(m_ref_usage[o], m_ref_release[o], n)
  BY DEF RefCounts, Counted
<1>3. m_ref_usage[o] \in 0 .. UintMod - 1 /\ m_ref_release[o] \in 0 .. UintMod - 1
  BY DEF TypeOK, AllObjects
<1> HIDE DEF n
<1> QED BY <1>1, <1>2, <1>3, CountedEqual

\* Asking for a lock touches no MDL_lock.
LEMMA RequestPreserves == ASSUME MapInv, NEW t \in Threads, NEW k \in Keys, Request(t, k) PROVE MapInv'
<1> USE MapAssumption, UintModPositive
    DEF Request, heap, HashKeys, Keys, AllObjects, TypeOK, Labels
<1>0. TypeOK /\ MemorySafe /\ RightObject /\ RefCounts /\ HashInv /\ CacheInv
      /\ PreInv /\ VersionInv /\ RwlockInv /\ TicketInv /\ LabelInv
      /\ UnlinkInv /\ SoleInv /\ HeirInv /\ LeakInv
  BY DEF MapInv
<1>1. TypeOK'
  BY <1>0, IncType DEF LabelInv
<1>2. MemorySafe'
  BY <1>0, IncType DEF MemorySafe, HashInv, CacheInv, PreInv, LabelInv, SoleInv, Users
<1>3. RightObject'
  BY <1>0, IncType DEF RightObject, HashInv, CacheInv, VersionInv, LabelInv,
      UnlinkInv, RwlockInv, Holding, PreInv, MemorySafe
<1>4. RefCounts'
  BY <1>0, IncType DEF RefCounts, Pending
<1>5. HashInv'
  BY <1>0, IncType DEF HashInv, CacheInv, LabelInv, UnlinkInv, SoleInv, MemorySafe
<1>6. CacheInv'
  BY <1>0, IncType DEF CacheInv, HashInv, LabelInv, UnlinkInv, SoleInv, MemorySafe
<1>7. PreInv'
  BY <1>0, IncType DEF PreInv, LabelInv
<1>8. VersionInv'
  BY <1>0, IncType DEF VersionInv, HashInv, CacheInv, LabelInv, UnlinkInv, MemorySafe
<1>9. RwlockInv'
  BY <1>0, IncType DEF RwlockInv, Holding, LabelInv
<1>10. TicketInv'
  BY <1>0, IncType DEF TicketInv, LabelInv, UnlinkInv, HashInv, RightObject
<1>11. LabelInv'
  BY <1>0, IncType DEF LabelInv
<1>12. UnlinkInv'
  BY <1>0, IncType DEF UnlinkInv, LabelInv, TicketInv, HashInv, CacheInv, RwlockInv,
      Holding, RightObject, MemorySafe
<1>13. SoleInv'
  BY <1>0, IncType DEF SoleInv, LabelInv, Users, TicketInv, HashInv, CacheInv,
      MemorySafe, RwlockInv, Holding
<1>14. HeirInv'
  BY <1>0, IncType DEF HeirInv, Pending, Users, LabelInv, SoleInv, HashInv, CacheInv
<1>15. LeakInv'
  BY <1>0, IncType DEF LeakInv, HashInv, CacheInv, LabelInv, UnlinkInv
<1> QED BY <1>1, <1>2, <1>3, <1>4, <1>5, <1>6, <1>7, <1>8, <1>9, <1>10, <1>11, <1>12,
    <1>13, <1>14, <1>15 DEF MapInv

\* The GLOBAL and COMMIT locks are locked without the hash.
LEMMA FindPreallocatedPreserves == ASSUME MapInv, NEW t \in Threads, FindPreallocated(t) PROVE MapInv'
<1> USE MapAssumption, UintModPositive
    DEF FindPreallocated, heap, HashKeys, Keys, AllObjects, TypeOK, Labels
<1>0. TypeOK /\ MemorySafe /\ RightObject /\ RefCounts /\ HashInv /\ CacheInv
      /\ PreInv /\ VersionInv /\ RwlockInv /\ TicketInv /\ LabelInv
      /\ UnlinkInv /\ SoleInv /\ HeirInv /\ LeakInv
  BY DEF MapInv
<1>1. TypeOK'
  BY <1>0, IncType DEF LabelInv
<1>2. MemorySafe'
  BY <1>0, IncType DEF MemorySafe, HashInv, CacheInv, PreInv, LabelInv, SoleInv, Users
<1>3. RightObject'
  BY <1>0, IncType DEF RightObject, HashInv, CacheInv, VersionInv, LabelInv,
      UnlinkInv, RwlockInv, Holding, PreInv, MemorySafe
<1>4. RefCounts'
  BY <1>0, IncType DEF RefCounts, Pending
<1>5. HashInv'
  BY <1>0, IncType DEF HashInv, CacheInv, LabelInv, UnlinkInv, SoleInv, MemorySafe
<1>6. CacheInv'
  BY <1>0, IncType DEF CacheInv, HashInv, LabelInv, UnlinkInv, SoleInv, MemorySafe
<1>7. PreInv'
  BY <1>0, IncType DEF PreInv, LabelInv
<1>8. VersionInv'
  BY <1>0, IncType DEF VersionInv, HashInv, CacheInv, LabelInv, UnlinkInv, MemorySafe
<1>9. RwlockInv'
  BY <1>0, IncType DEF RwlockInv, Holding, LabelInv
<1>10. TicketInv'
  BY <1>0, IncType DEF TicketInv, LabelInv, UnlinkInv, HashInv, RightObject
<1>11. LabelInv'
  BY <1>0, IncType DEF LabelInv
<1>12. UnlinkInv'
  BY <1>0, IncType DEF UnlinkInv, LabelInv, TicketInv, HashInv, CacheInv, RwlockInv,
      Holding, RightObject, MemorySafe
<1>13. SoleInv'
  BY <1>0, IncType DEF SoleInv, LabelInv, Users, TicketInv, HashInv, CacheInv,
      MemorySafe, RwlockInv, Holding
<1>14. HeirInv'
  BY <1>0, IncType DEF HeirInv, Pending, Users, LabelInv, SoleInv, HashInv, CacheInv
<1>15. LeakInv'
  BY <1>0, IncType DEF LeakInv, HashInv, CacheInv, LabelInv, UnlinkInv
<1> QED BY <1>1, <1>2, <1>3, <1>4, <1>5, <1>6, <1>7, <1>8, <1>9, <1>10, <1>11, <1>12,
    <1>13, <1>14, <1>15 DEF MapInv

\* The found object is counted in m_ref_usage while m_mutex is held: one more
\* pending thread.
LEMMA FindInHashPreserves == ASSUME MapInv, NEW t \in Threads, FindInHash(t) PROVE MapInv'
<1> USE MapAssumption, UintModPositive
    DEF FindInHash, heap, HashKeys, Keys, AllObjects, TypeOK, Labels, RememberVersion
<1>0. TypeOK /\ MemorySafe /\ RightObject /\ RefCounts /\ HashInv /\ CacheInv
      /\ PreInv /\ VersionInv /\ RwlockInv /\ TicketInv /\ LabelInv
      /\ UnlinkInv /\ SoleInv /\ HeirInv /\ LeakInv
  BY DEF MapInv
<1>1. TypeOK'
  BY <1>0, IncType DEF LabelInv
<1>2. MemorySafe'
  BY <1>0, IncType DEF MemorySafe, HashInv, CacheInv, PreInv, LabelInv, SoleInv, Users
<1>3. RightObject'
  BY <1>0, IncType DEF RightObject, HashInv, CacheInv, VersionInv, LabelInv,
      UnlinkInv, RwlockInv, Holding, PreInv, MemorySafe
<1>4. RefCounts'
  <2>1. PICK x \in Objects : x = m_locks[want[t]] /\ live[x]
    BY <1>0 DEF HashInv
  <2>2. /\ Cardinality(Pending(x)') = Cardinality(Pending(x)) + 1
        /\ Cardinality(Pending(x)) + 1 < UintMod
        /\ Cardinality(Pending(x)) \in Nat
        /\ \A o \in Objects : o # x => Pending(o)' = Pending(o)
    BY <1>0, <2>1, PendingAdded
  <2>3. /\ m_ref_usage' = [m_ref_usage EXCEPT ![x] = Inc(@)]
        /\ UNCHANGED <<m_ref_release, live>>
    BY <2>1
  <2> SUFFICES ASSUME NEW o \in Objects, live'[o]
               PROVE  Counted(m_ref_usage'[o], m_ref_release'[o], Cardinality(Pending(o)'))
    BY DEF RefCounts, Counted
  <2>4. CASE o = x
    <3>1. Counted(m_ref_usage[x], m_ref_release[x], Cardinality(Pending(x)))
      BY <1>0, <2>1 DEF RefCounts, Counted
    <3> QED BY <1>0, <2>2, <2>3, <2>4, <3>1, CountedUsage
  <2>5. CASE o # x
    BY <1>0, <2>2, <2>3, <2>5 DEF RefCounts, Counted
  <2> QED BY <2>4, <2>5
<1>5. HashInv'
  BY <1>0, IncType DEF HashInv, CacheInv, LabelInv, UnlinkInv, SoleInv, MemorySafe
<1>6. CacheInv'
  BY <1>0, IncType DEF CacheInv, HashInv, LabelInv, UnlinkInv, SoleInv, MemorySafe
<1>7. PreInv'
  BY <1>0, IncType DEF PreInv, LabelInv
<1>8. VersionInv'
  BY <1>0, IncType DEF VersionInv, HashInv, CacheInv, LabelInv, UnlinkInv, MemorySafe
<1>9. RwlockInv'
  BY <1>0, IncType DEF RwlockInv, Holding, LabelInv
<1>10. TicketInv'
  BY <1>0, IncType DEF TicketInv, LabelInv, UnlinkInv, HashInv, RightObject
<1>11. LabelInv'
  BY <1>0, IncType DEF LabelInv
<1>12. UnlinkInv'
  BY <1>0, IncType DEF UnlinkInv, LabelInv, TicketInv, HashInv, CacheInv, RwlockInv,
      Holding, RightObject, MemorySafe
<1>13. SoleInv'
  BY <1>0, IncType DEF SoleInv, LabelInv, Users, TicketInv, HashInv, CacheInv,
      MemorySafe, RwlockInv, Holding
<1>14. HeirInv'
  BY <1>0, IncType DEF HeirInv, Pending, Users, LabelInv, SoleInv, HashInv, CacheInv
<1>15. LeakInv'
  BY <1>0, IncType DEF LeakInv, HashInv, CacheInv, LabelInv, UnlinkInv
<1> QED BY <1>1, <1>2, <1>3, <1>4, <1>5, <1>6, <1>7, <1>8, <1>9, <1>10, <1>11, <1>12,
    <1>13, <1>14, <1>15 DEF MapInv

\* An object from the cache gets its new key: threads that found it under the
\* old one are still pending and remember an older m_version.
LEMMA ReuseUnusedPreserves == ASSUME MapInv, NEW t \in Threads, ReuseUnused(t) PROVE MapInv'
<1> USE MapAssumption, UintModPositive
    DEF ReuseUnused, heap, HashKeys, Keys, AllObjects, TypeOK, Labels, NotInHash, RememberVersion, UseCache
<1>0. TypeOK /\ MemorySafe /\ RightObject /\ RefCounts /\ HashInv /\ CacheInv
      /\ PreInv /\ VersionInv /\ RwlockInv /\ TicketInv /\ LabelInv
      /\ UnlinkInv /\ SoleInv /\ HeirInv /\ LeakInv
  BY DEF MapInv
<1>1. TypeOK'
  BY <1>0, IncType DEF LabelInv
<1>2. MemorySafe'
  BY <1>0, IncType DEF MemorySafe, HashInv, CacheInv, PreInv, LabelInv, SoleInv, Users
<1>3. RightObject'
  BY <1>0, IncType DEF RightObject, HashInv, CacheInv, VersionInv, LabelInv,
      UnlinkInv, RwlockInv, Holding, PreInv, MemorySafe
<1>4. RefCounts'
  <2>1. PICK x \in unused :
          /\ m_ref_usage' = [m_ref_usage EXCEPT ![x] = Inc(@)]
          /\ UNCHANGED <<m_ref_release, live>>
          /\ obj' = [obj EXCEPT ![t] = x]
          /\ pc' = [pc EXCEPT ![t] = "reflock"]
    OBVIOUS
  <2>9. x \in Objects /\ live[x] /\ pc[t] # "reflock" /\ t \in Threads
    BY <1>0, <2>1 DEF CacheInv
  <2>2. /\ Cardinality(Pending(x)') = Cardinality(Pending(x)) + 1
        /\ Cardinality(Pending(x)) + 1 < UintMod
        /\ Cardinality(Pending(x)) \in Nat
        /\ \A o \in Objects : o # x => Pending(o)' = Pending(o)
    BY ONLY <1>0, <2>1, <2>9, PendingAdded
  <2>3. /\ m_ref_usage' = [m_ref_usage EXCEPT ![x] = Inc(@)]
        /\ UNCHANGED <<m_ref_release, live>>
    BY <2>1
  <2> SUFFICES ASSUME NEW o \in Objects, live'[o]
               PROVE  Counted(m_ref_usage'[o], m_ref_release'[o], Cardinality(Pending(o)'))
    BY DEF RefCounts, Counted
  <2>4. CASE o = x
    <3>1. x \in Objects /\ Counted(m_ref_usage[x], m_ref_release[x], Cardinality(Pending(x)))
      BY <1>0, <2>1 DEF RefCounts, Counted, CacheInv
    <3> QED BY <1>0, <2>2, <2>3, <2>4, <3>1, CountedUsage
  <2>5. CASE o # x
    BY <1>0, <2>2, <2>3, <2>5 DEF RefCounts, Counted
  <2> QED BY <2>4, <2>5
<1>5. HashInv'
  BY <1>0, IncType DEF HashInv, CacheInv, LabelInv, UnlinkInv, SoleInv, MemorySafe
<1>6. CacheInv'
  BY <1>0, IncType DEF CacheInv, HashInv, LabelInv, UnlinkInv, SoleInv, MemorySafe
<1>7. PreInv'
  BY <1>0, IncType DEF PreInv, LabelInv
<1>8. VersionInv'
  BY <1>0, IncType DEF VersionInv, HashInv, CacheInv, LabelInv, UnlinkInv, MemorySafe
<1>9. RwlockInv'
  BY <1>0, IncType DEF RwlockInv, Holding, LabelInv
<1>10. TicketInv'
  BY <1>0, IncType DEF TicketInv, LabelInv, UnlinkInv, HashInv, RightObject
<1>11. LabelInv'
  BY <1>0, IncType DEF LabelInv
<1>12. UnlinkInv'
  BY <1>0, IncType DEF UnlinkInv, LabelInv, TicketInv, HashInv, CacheInv, RwlockInv,
      Holding, RightObject, MemorySafe
<1>13. SoleInv'
  BY <1>0, IncType DEF SoleInv, LabelInv, Users, TicketInv, HashInv, CacheInv,
      MemorySafe, RwlockInv, Holding
<1>14. HeirInv'
  BY <1>0, IncType DEF HeirInv, Pending, Users, LabelInv, SoleInv, HashInv, CacheInv
<1>15. LeakInv'
  BY <1>0, IncType DEF LeakInv, HashInv, CacheInv, LabelInv, UnlinkInv
<1> QED BY <1>1, <1>2, <1>3, <1>4, <1>5, <1>6, <1>7, <1>8, <1>9, <1>10, <1>11, <1>12,
    <1>13, <1>14, <1>15 DEF MapInv

\* A new MDL_lock takes a cell nobody points at.
LEMMA CreateLockPreserves == ASSUME MapInv, NEW t \in Threads, CreateLock(t) PROVE MapInv'
<1> USE MapAssumption, UintModPositive
    DEF CreateLock, heap, HashKeys, Keys, AllObjects, TypeOK, Labels, NotInHash, RememberVersion, UseCache
<1>0. TypeOK /\ MemorySafe /\ RightObject /\ RefCounts /\ HashInv /\ CacheInv
      /\ PreInv /\ VersionInv /\ RwlockInv /\ TicketInv /\ LabelInv
      /\ UnlinkInv /\ SoleInv /\ HeirInv /\ LeakInv
  BY DEF MapInv
<1>1. TypeOK'
  BY <1>0, IncType DEF LabelInv
<1>2. MemorySafe'
  BY <1>0, IncType DEF MemorySafe, HashInv, CacheInv, PreInv, LabelInv, SoleInv, Users
<1>3. RightObject'
  BY <1>0, IncType DEF RightObject, HashInv, CacheInv, VersionInv, LabelInv,
      UnlinkInv, RwlockInv, Holding, PreInv, MemorySafe
<1>4. RefCounts'
  <2>1. PICK x \in Objects :
          /\ ~live[x]
          /\ live' = [live EXCEPT ![x] = TRUE]
          /\ m_ref_usage' = [m_ref_usage EXCEPT ![x] = Inc(0)]
          /\ m_ref_release' = [m_ref_release EXCEPT ![x] = 0]
          /\ obj' = [obj EXCEPT ![t] = x]
          /\ pc' = [pc EXCEPT ![t] = "reflock"]
    OBVIOUS
  <2>9. x \in Objects /\ pc[t] # "reflock" /\ t \in Threads
    OBVIOUS
  <2>2. /\ Cardinality(Pending(x)') = Cardinality(Pending(x)) + 1
        /\ Cardinality(Pending(x)) + 1 < UintMod
        /\ Cardinality(Pending(x)) \in Nat
        /\ \A o \in Objects : o # x => Pending(o)' = Pending(o)
    BY ONLY <1>0, <2>1, <2>9, PendingAdded
  <2>3. Pending(x) = {}
    BY <1>0, <2>1 DEF Pending, MemorySafe
  <2> SUFFICES ASSUME NEW o \in Objects, live'[o]
               PROVE  Counted(m_ref_usage'[o], m_ref_release'[o], Cardinality(Pending(o)'))
    BY DEF RefCounts, Counted
  <2>4. CASE o = x
    <3>1. Counted(0, 0, 0) /\ 0 \in 0 .. UintMod - 1
      BY DEF Counted
    <3>2. Cardinality(Pending(x)) = 0
      BY <2>3, FS_EmptySet
    <3> QED BY <1>0, <2>1, <2>2, <2>4, <3>1, <3>2, CountedUsage
  <2>5. CASE o # x
    BY <1>0, <2>1, <2>2, <2>5 DEF RefCounts, Counted
  <2> QED BY <2>4, <2>5
<1>5. HashInv'
  BY <1>0, IncType DEF HashInv, CacheInv, LabelInv, UnlinkInv, SoleInv, MemorySafe
<1>6. CacheInv'
  BY <1>0, IncType DEF CacheInv, HashInv, LabelInv, UnlinkInv, SoleInv, MemorySafe
<1>7. PreInv'
  BY <1>0, IncType DEF PreInv, LabelInv
<1>8. VersionInv'
  BY <1>0, IncType DEF VersionInv, HashInv, CacheInv, LabelInv, UnlinkInv, MemorySafe
<1>9. RwlockInv'
  BY <1>0, IncType DEF RwlockInv, Holding, LabelInv
<1>10. TicketInv'
  BY <1>0, IncType DEF TicketInv, LabelInv, UnlinkInv, HashInv, RightObject
<1>11. LabelInv'
  BY <1>0, IncType DEF LabelInv
<1>12. UnlinkInv'
  BY <1>0, IncType DEF UnlinkInv, LabelInv, TicketInv, HashInv, CacheInv, RwlockInv,
      Holding, RightObject, MemorySafe
<1>13. SoleInv'
  BY <1>0, IncType DEF SoleInv, LabelInv, Users, TicketInv, HashInv, CacheInv,
      MemorySafe, RwlockInv, Holding
<1>14. HeirInv'
  BY <1>0, IncType DEF HeirInv, Pending, Users, LabelInv, SoleInv, HashInv, CacheInv
<1>15. LeakInv'
  BY <1>0, IncType DEF LeakInv, HashInv, CacheInv, LabelInv, UnlinkInv
<1> QED BY <1>1, <1>2, <1>3, <1>4, <1>5, <1>6, <1>7, <1>8, <1>9, <1>10, <1>11, <1>12,
    <1>13, <1>14, <1>15 DEF MapInv

\* A failed insert leaves the hash and the cache as they were.
LEMMA OutOfMemoryPreserves == ASSUME MapInv, NEW t \in Threads, OutOfMemory(t) PROVE MapInv'
<1> USE MapAssumption, UintModPositive
    DEF OutOfMemory, heap, HashKeys, Keys, AllObjects, TypeOK, Labels, Return, NotInHash, UseCache
<1>0. TypeOK /\ MemorySafe /\ RightObject /\ RefCounts /\ HashInv /\ CacheInv
      /\ PreInv /\ VersionInv /\ RwlockInv /\ TicketInv /\ LabelInv
      /\ UnlinkInv /\ SoleInv /\ HeirInv /\ LeakInv
  BY DEF MapInv
<1>1. TypeOK'
  BY <1>0, IncType DEF LabelInv
<1>2. MemorySafe'
  BY <1>0, IncType DEF MemorySafe, HashInv, CacheInv, PreInv, LabelInv, SoleInv, Users
<1>3. RightObject'
  BY <1>0, IncType DEF RightObject, HashInv, CacheInv, VersionInv, LabelInv,
      UnlinkInv, RwlockInv, Holding, PreInv, MemorySafe
<1>4. RefCounts'
  BY <1>0, IncType DEF RefCounts, Pending
<1>5. HashInv'
  BY <1>0, IncType DEF HashInv, CacheInv, LabelInv, UnlinkInv, SoleInv, MemorySafe
<1>6. CacheInv'
  BY <1>0, IncType DEF CacheInv, HashInv, LabelInv, UnlinkInv, SoleInv, MemorySafe
<1>7. PreInv'
  BY <1>0, IncType DEF PreInv, LabelInv
<1>8. VersionInv'
  BY <1>0, IncType DEF VersionInv, HashInv, CacheInv, LabelInv, UnlinkInv, MemorySafe
<1>9. RwlockInv'
  BY <1>0, IncType DEF RwlockInv, Holding, LabelInv
<1>10. TicketInv'
  BY <1>0, IncType DEF TicketInv, LabelInv, UnlinkInv, HashInv, RightObject
<1>11. LabelInv'
  BY <1>0, IncType DEF LabelInv
<1>12. UnlinkInv'
  BY <1>0, IncType DEF UnlinkInv, LabelInv, TicketInv, HashInv, CacheInv, RwlockInv,
      Holding, RightObject, MemorySafe
<1>13. SoleInv'
  BY <1>0, IncType DEF SoleInv, LabelInv, Users, TicketInv, HashInv, CacheInv,
      MemorySafe, RwlockInv, Holding
<1>14. HeirInv'
  BY <1>0, IncType DEF HeirInv, Pending, Users, LabelInv, SoleInv, HashInv, CacheInv
<1>15. LeakInv'
  BY <1>0, IncType DEF LeakInv, HashInv, CacheInv, LabelInv, UnlinkInv
<1> QED BY <1>1, <1>2, <1>3, <1>4, <1>5, <1>6, <1>7, <1>8, <1>9, <1>10, <1>11, <1>12,
    <1>13, <1>14, <1>15 DEF MapInv

\* The pending thread becomes the owner of m_rwlock and is counted in
\* m_ref_release.
LEMMA LockObjectPreserves == ASSUME MapInv, NEW t \in Threads, LockObject(t) PROVE MapInv'
<1> USE MapAssumption, UintModPositive
    DEF LockObject, heap, HashKeys, Keys, AllObjects, TypeOK, Labels
<1>0. TypeOK /\ MemorySafe /\ RightObject /\ RefCounts /\ HashInv /\ CacheInv
      /\ PreInv /\ VersionInv /\ RwlockInv /\ TicketInv /\ LabelInv
      /\ UnlinkInv /\ SoleInv /\ HeirInv /\ LeakInv
  BY DEF MapInv
<1>1. TypeOK'
  BY <1>0, IncType DEF LabelInv
<1>2. MemorySafe'
  BY <1>0, IncType DEF MemorySafe, HashInv, CacheInv, PreInv, LabelInv, SoleInv, Users
<1>3. RightObject'
  BY <1>0, IncType DEF RightObject, HashInv, CacheInv, VersionInv, LabelInv,
      UnlinkInv, RwlockInv, Holding, PreInv, MemorySafe
<1>4. RefCounts'
  <2>1. PICK x \in Objects : x = obj[t] /\ live[x]
    BY <1>0 DEF VersionInv, MemorySafe
  <2>2. /\ Cardinality(Pending(x)') = Cardinality(Pending(x)) - 1
        /\ Cardinality(Pending(x)) \in Nat \ {0}
        /\ Cardinality(Pending(x)) < UintMod
        /\ \A o \in Objects : o # x => Pending(o)' = Pending(o)
    BY <1>0, <2>1, PendingRemoved
  <2>3. /\ m_ref_release' = [m_ref_release EXCEPT ![x] = Inc(@)]
        /\ UNCHANGED <<m_ref_usage, live>>
    BY <2>1
  <2> SUFFICES ASSUME NEW o \in Objects, live'[o]
               PROVE  Counted(m_ref_usage'[o], m_ref_release'[o], Cardinality(Pending(o)'))
    BY DEF RefCounts, Counted
  <2>4. CASE o = x
    <3>1. Counted(m_ref_usage[x], m_ref_release[x], Cardinality(Pending(x)))
      BY <1>0, <2>1 DEF RefCounts, Counted
    <3> QED BY <1>0, <2>2, <2>3, <2>4, <3>1, CountedRelease
  <2>5. CASE o # x
    BY <1>0, <2>2, <2>3, <2>5 DEF RefCounts, Counted
  <2> QED BY <2>4, <2>5
<1>5. HashInv'
  BY <1>0, IncType DEF HashInv, CacheInv, LabelInv, UnlinkInv, SoleInv, MemorySafe
<1>6. CacheInv'
  BY <1>0, IncType DEF CacheInv, HashInv, LabelInv, UnlinkInv, SoleInv, MemorySafe
<1>7. PreInv'
  BY <1>0, IncType DEF PreInv, LabelInv
<1>8. VersionInv'
  BY <1>0, IncType DEF VersionInv, HashInv, CacheInv, LabelInv, UnlinkInv, MemorySafe
<1>9. RwlockInv'
  BY <1>0, IncType DEF RwlockInv, Holding, LabelInv
<1>10. TicketInv'
  BY <1>0, IncType DEF TicketInv, LabelInv, UnlinkInv, HashInv, RightObject
<1>11. LabelInv'
  BY <1>0, IncType DEF LabelInv
<1>12. UnlinkInv'
  BY <1>0, IncType DEF UnlinkInv, LabelInv, TicketInv, HashInv, CacheInv, RwlockInv,
      Holding, RightObject, MemorySafe
<1>13. SoleInv'
  BY <1>0, IncType DEF SoleInv, LabelInv, Users, TicketInv, HashInv, CacheInv,
      MemorySafe, RwlockInv, Holding
<1>14. HeirInv'
  BY <1>0, IncType DEF HeirInv, Pending, Users, LabelInv, SoleInv, HashInv, CacheInv
<1>15. LeakInv'
  BY <1>0, IncType DEF LeakInv, HashInv, CacheInv, LabelInv, UnlinkInv
<1> QED BY <1>1, <1>2, <1>3, <1>4, <1>5, <1>6, <1>7, <1>8, <1>9, <1>10, <1>11, <1>12,
    <1>13, <1>14, <1>15 DEF MapInv

\* Equal versions mean the object never left the hash.  Of the threads that find
\* it destroyed, only the one nobody is pending behind sets out to delete it.
LEMMA CheckVersionPreserves == ASSUME MapInv, NEW t \in Threads, CheckVersion(t) PROVE MapInv'
<1> USE MapAssumption, UintModPositive
    DEF CheckVersion, heap, HashKeys, Keys, AllObjects, TypeOK, Labels
<1>0. TypeOK /\ MemorySafe /\ RightObject /\ RefCounts /\ HashInv /\ CacheInv
      /\ PreInv /\ VersionInv /\ RwlockInv /\ TicketInv /\ LabelInv
      /\ UnlinkInv /\ SoleInv /\ HeirInv /\ LeakInv
  BY DEF MapInv
<1>1. TypeOK'
  <2>1. last' \in [Threads -> BOOLEAN]
    <3>1. CASE UNCHANGED last
      BY <1>0, <3>1
    <3>2. CASE m_is_destroyed[obj[t]] /\ m_ref_usage[obj[t]] = m_ref_release[obj[t]] /\ last' # last
      <4>1. last' = [last EXCEPT ![t] = TRUE]
        BY <3>2
      <4> QED BY <1>0, <4>1
    <3>3. CASE ~(m_is_destroyed[obj[t]] /\ m_ref_usage[obj[t]] = m_ref_release[obj[t]]) /\ last' # last
      <4>1. last' = [last EXCEPT ![t] = FALSE]
        BY <3>3
      <4> QED BY <1>0, <4>1
    <3> QED BY <3>1, <3>2, <3>3
  <2> QED BY <1>0, <2>1 DEF LabelInv
<1>2. MemorySafe'
  BY <1>0, IncType DEF MemorySafe, HashInv, CacheInv, PreInv, LabelInv, SoleInv, Users
<1>3. RightObject'
  BY <1>0, IncType DEF RightObject, HashInv, CacheInv, VersionInv, LabelInv,
      UnlinkInv, RwlockInv, Holding, PreInv, MemorySafe
<1>4. RefCounts'
  BY <1>0, IncType DEF RefCounts, Pending
<1>5. HashInv'
  BY <1>0, IncType DEF HashInv, CacheInv, LabelInv, UnlinkInv, SoleInv, MemorySafe
<1>6. CacheInv'
  BY <1>0, IncType DEF CacheInv, HashInv, LabelInv, UnlinkInv, SoleInv, MemorySafe
<1>7. PreInv'
  BY <1>0, IncType DEF PreInv, LabelInv
<1>8. VersionInv'
  BY <1>0, IncType DEF VersionInv, HashInv, CacheInv, LabelInv, UnlinkInv, MemorySafe
<1>9. RwlockInv'
  BY <1>0, IncType DEF RwlockInv, Holding, LabelInv
<1>10. TicketInv'
  BY <1>0, IncType DEF TicketInv, LabelInv, UnlinkInv, HashInv, RightObject
<1>11. LabelInv'
  <2>1. /\ obj[t] \in Objects /\ live[obj[t]]
        /\ m_ref_usage[obj[t]] = m_ref_release[obj[t]] <=> Pending(obj[t]) = {}
    BY <1>0, EqualCounters DEF VersionInv, MemorySafe
  <2>2. CASE m_version[obj[t]] = version[t]
    BY <1>0, <2>2 DEF LabelInv, VersionInv
  <2>3. CASE m_version[obj[t]] # version[t] /\ m_is_destroyed[obj[t]] /\ Pending(obj[t]) = {}
    <3>1. last' = [last EXCEPT ![t] = TRUE] /\ pc' = [pc EXCEPT ![t] = "unlock"]
      BY <2>1, <2>3
    <3> QED BY <1>0, <2>1, <2>3, <3>1 DEF LabelInv, VersionInv
  <2>4. CASE m_version[obj[t]] # version[t] /\ ~(m_is_destroyed[obj[t]] /\ Pending(obj[t]) = {})
    <3>1. last' = [last EXCEPT ![t] = FALSE] /\ pc' = [pc EXCEPT ![t] = "unlock"]
      BY <2>1, <2>4
    <3> QED BY <1>0, <2>1, <2>4, <3>1 DEF LabelInv, VersionInv
  <2> QED BY <2>2, <2>3, <2>4
<1>12. UnlinkInv'
  BY <1>0, IncType DEF UnlinkInv, LabelInv, TicketInv, HashInv, CacheInv, RwlockInv,
      Holding, RightObject, MemorySafe
<1>13. SoleInv'
  <2>1. /\ obj[t] \in Objects /\ live[obj[t]]
        /\ m_ref_usage[obj[t]] = m_ref_release[obj[t]] <=> Pending(obj[t]) = {}
    BY <1>0, EqualCounters DEF VersionInv, MemorySafe
  <2>2. CASE m_version[obj[t]] = version[t]
    BY <1>0, <2>2 DEF SoleInv, LabelInv, Users, Pending, TicketInv, HashInv, CacheInv,
        MemorySafe, RwlockInv, Holding
  <2>3. CASE m_version[obj[t]] # version[t] /\ m_is_destroyed[obj[t]] /\ Pending(obj[t]) = {}
    <3>1. last' = [last EXCEPT ![t] = TRUE] /\ pc' = [pc EXCEPT ![t] = "unlock"]
      BY <2>1, <2>3
    <3> QED BY <1>0, <2>1, <2>3, <3>1 DEF SoleInv, LabelInv, Users, Pending,
        TicketInv, HashInv, CacheInv, MemorySafe, RwlockInv, Holding
  <2>4. CASE m_version[obj[t]] # version[t] /\ ~(m_is_destroyed[obj[t]] /\ Pending(obj[t]) = {})
    <3>1. last' = [last EXCEPT ![t] = FALSE] /\ pc' = [pc EXCEPT ![t] = "unlock"]
      BY <2>1, <2>4
    <3> QED BY <1>0, <2>1, <2>4, <3>1 DEF SoleInv, LabelInv, Users, Pending,
        TicketInv, HashInv, CacheInv, MemorySafe, RwlockInv, Holding
  <2> QED BY <2>2, <2>3, <2>4
<1>14. HeirInv'
  <2>1. /\ obj[t] \in Objects /\ live[obj[t]]
        /\ m_ref_usage[obj[t]] = m_ref_release[obj[t]] <=> Pending(obj[t]) = {}
    BY <1>0, EqualCounters DEF VersionInv, MemorySafe
  <2>2. CASE m_version[obj[t]] = version[t]
    BY <1>0, <2>2 DEF HeirInv, Pending, Users, LabelInv, SoleInv, HashInv, CacheInv,
        RwlockInv, Holding, VersionInv
  <2>3. CASE m_version[obj[t]] # version[t] /\ m_is_destroyed[obj[t]] /\ Pending(obj[t]) = {}
    <3>1. last' = [last EXCEPT ![t] = TRUE] /\ pc' = [pc EXCEPT ![t] = "unlock"]
      BY <2>1, <2>3
    <3> QED BY <1>0, <2>1, <2>3, <3>1 DEF HeirInv, Pending, Users, LabelInv, SoleInv,
        HashInv, CacheInv, RwlockInv, Holding
  <2>4. CASE m_version[obj[t]] # version[t] /\ ~(m_is_destroyed[obj[t]] /\ Pending(obj[t]) = {})
    <3>1. last' = [last EXCEPT ![t] = FALSE] /\ pc' = [pc EXCEPT ![t] = "unlock"]
      BY <2>1, <2>4
    <3> QED BY <1>0, <2>1, <2>4, <3>1 DEF HeirInv, Pending, Users, LabelInv, SoleInv,
        HashInv, CacheInv, RwlockInv, Holding
  <2> QED BY <2>2, <2>3, <2>4
<1>15. LeakInv'
  BY <1>0, IncType DEF LeakInv, HashInv, CacheInv, LabelInv, UnlinkInv
<1> QED BY <1>1, <1>2, <1>3, <1>4, <1>5, <1>6, <1>7, <1>8, <1>9, <1>10, <1>11, <1>12,
    <1>13, <1>14, <1>15 DEF MapInv

\* The ticket is added under the m_rwlock that found the object in the hash.
LEMMA AddTicketPreserves == ASSUME MapInv, NEW t \in Threads, AddTicket(t) PROVE MapInv'
<1> USE MapAssumption, UintModPositive
    DEF AddTicket, heap, HashKeys, Keys, AllObjects, TypeOK, Labels
<1>0. TypeOK /\ MemorySafe /\ RightObject /\ RefCounts /\ HashInv /\ CacheInv
      /\ PreInv /\ VersionInv /\ RwlockInv /\ TicketInv /\ LabelInv
      /\ UnlinkInv /\ SoleInv /\ HeirInv /\ LeakInv
  BY DEF MapInv
<1>1. TypeOK'
  BY <1>0, IncType DEF LabelInv
<1>2. MemorySafe'
  BY <1>0, IncType DEF MemorySafe, HashInv, CacheInv, PreInv, LabelInv, SoleInv, Users
<1>3. RightObject'
  BY <1>0, IncType DEF RightObject, HashInv, CacheInv, VersionInv, LabelInv,
      UnlinkInv, RwlockInv, Holding, PreInv, MemorySafe
<1>4. RefCounts'
  BY <1>0, IncType DEF RefCounts, Pending
<1>5. HashInv'
  BY <1>0, IncType DEF HashInv, CacheInv, LabelInv, UnlinkInv, SoleInv, MemorySafe
<1>6. CacheInv'
  BY <1>0, IncType DEF CacheInv, HashInv, LabelInv, UnlinkInv, SoleInv, MemorySafe
<1>7. PreInv'
  BY <1>0, IncType DEF PreInv, LabelInv
<1>8. VersionInv'
  BY <1>0, IncType DEF VersionInv, HashInv, CacheInv, LabelInv, UnlinkInv, MemorySafe
<1>9. RwlockInv'
  BY <1>0, IncType DEF RwlockInv, Holding, LabelInv
<1>10. TicketInv'
  BY <1>0, IncType DEF TicketInv, LabelInv, UnlinkInv, HashInv, RightObject
<1>11. LabelInv'
  BY <1>0, IncType DEF LabelInv
<1>12. UnlinkInv'
  BY <1>0, IncType DEF UnlinkInv, LabelInv, TicketInv, HashInv, CacheInv, RwlockInv,
      Holding, RightObject, MemorySafe
<1>13. SoleInv'
  BY <1>0, IncType DEF SoleInv, LabelInv, Users, TicketInv, HashInv, CacheInv,
      MemorySafe, RwlockInv, Holding
<1>14. HeirInv'
  BY <1>0, IncType DEF HeirInv, Pending, Users, LabelInv, SoleInv, HashInv, CacheInv
<1>15. LeakInv'
  BY <1>0, IncType DEF LeakInv, HashInv, CacheInv, LabelInv, UnlinkInv
<1> QED BY <1>1, <1>2, <1>3, <1>4, <1>5, <1>6, <1>7, <1>8, <1>9, <1>10, <1>11, <1>12,
    <1>13, <1>14, <1>15 DEF MapInv

\* A refused request unlocks an object that keeps its tickets.
LEMMA GiveUpPreserves == ASSUME MapInv, NEW t \in Threads, GiveUp(t) PROVE MapInv'
<1> USE MapAssumption, UintModPositive
    DEF GiveUp, heap, HashKeys, Keys, AllObjects, TypeOK, Labels, Return
<1>0. TypeOK /\ MemorySafe /\ RightObject /\ RefCounts /\ HashInv /\ CacheInv
      /\ PreInv /\ VersionInv /\ RwlockInv /\ TicketInv /\ LabelInv
      /\ UnlinkInv /\ SoleInv /\ HeirInv /\ LeakInv
  BY DEF MapInv
<1>1. TypeOK'
  BY <1>0, IncType DEF LabelInv
<1>2. MemorySafe'
  BY <1>0, IncType DEF MemorySafe, HashInv, CacheInv, PreInv, LabelInv, SoleInv, Users
<1>3. RightObject'
  BY <1>0, IncType DEF RightObject, HashInv, CacheInv, VersionInv, LabelInv,
      UnlinkInv, RwlockInv, Holding, PreInv, MemorySafe
<1>4. RefCounts'
  BY <1>0, IncType DEF RefCounts, Pending
<1>5. HashInv'
  BY <1>0, IncType DEF HashInv, CacheInv, LabelInv, UnlinkInv, SoleInv, MemorySafe
<1>6. CacheInv'
  BY <1>0, IncType DEF CacheInv, HashInv, LabelInv, UnlinkInv, SoleInv, MemorySafe
<1>7. PreInv'
  BY <1>0, IncType DEF PreInv, LabelInv
<1>8. VersionInv'
  BY <1>0, IncType DEF VersionInv, HashInv, CacheInv, LabelInv, UnlinkInv, MemorySafe
<1>9. RwlockInv'
  BY <1>0, IncType DEF RwlockInv, Holding, LabelInv
<1>10. TicketInv'
  BY <1>0, IncType DEF TicketInv, LabelInv, UnlinkInv, HashInv, RightObject
<1>11. LabelInv'
  BY <1>0, IncType DEF LabelInv
<1>12. UnlinkInv'
  BY <1>0, IncType DEF UnlinkInv, LabelInv, TicketInv, HashInv, CacheInv, RwlockInv,
      Holding, RightObject, MemorySafe
<1>13. SoleInv'
  BY <1>0, IncType DEF SoleInv, LabelInv, Users, TicketInv, HashInv, CacheInv,
      MemorySafe, RwlockInv, Holding
<1>14. HeirInv'
  BY <1>0, IncType DEF HeirInv, Pending, Users, LabelInv, SoleInv, HashInv, CacheInv
<1>15. LeakInv'
  BY <1>0, IncType DEF LeakInv, HashInv, CacheInv, LabelInv, UnlinkInv
<1> QED BY <1>1, <1>2, <1>3, <1>4, <1>5, <1>6, <1>7, <1>8, <1>9, <1>10, <1>11, <1>12,
    <1>13, <1>14, <1>15 DEF MapInv

\* The last ticket goes, and with m_rwlock held nobody can add another before
\* the object is unlinked.
LEMMA RemoveTicketPreserves == ASSUME MapInv, NEW t \in Threads, RemoveTicket(t) PROVE MapInv'
<1> USE MapAssumption, UintModPositive
    DEF RemoveTicket, heap, HashKeys, Keys, AllObjects, TypeOK, Labels, Return
<1>0. TypeOK /\ MemorySafe /\ RightObject /\ RefCounts /\ HashInv /\ CacheInv
      /\ PreInv /\ VersionInv /\ RwlockInv /\ TicketInv /\ LabelInv
      /\ UnlinkInv /\ SoleInv /\ HeirInv /\ LeakInv
  BY DEF MapInv
<1>1. TypeOK'
  BY <1>0, IncType, SMTT(30) DEF LabelInv
<1>2. MemorySafe'
  BY <1>0, IncType DEF MemorySafe, HashInv, CacheInv, PreInv, LabelInv, SoleInv, Users
<1>3. RightObject'
  BY <1>0, IncType DEF RightObject, HashInv, CacheInv, VersionInv, LabelInv,
      UnlinkInv, RwlockInv, Holding, PreInv, MemorySafe
<1>4. RefCounts'
  BY <1>0, IncType DEF RefCounts, Pending
<1>5. HashInv'
  BY <1>0, IncType DEF HashInv, CacheInv, LabelInv, UnlinkInv, SoleInv, MemorySafe
<1>6. CacheInv'
  BY <1>0, IncType DEF CacheInv, HashInv, LabelInv, UnlinkInv, SoleInv, MemorySafe
<1>7. PreInv'
  BY <1>0, IncType DEF PreInv, LabelInv
<1>8. VersionInv'
  BY <1>0, IncType DEF VersionInv, HashInv, CacheInv, LabelInv, UnlinkInv, MemorySafe
<1>9. RwlockInv'
  BY <1>0, IncType DEF RwlockInv, Holding, LabelInv
<1>10. TicketInv'
  BY <1>0, IncType DEF TicketInv, LabelInv, UnlinkInv, HashInv, RightObject
<1>11. LabelInv'
  BY <1>0, IncType DEF LabelInv
<1>12. UnlinkInv'
  BY <1>0, IncType DEF UnlinkInv, LabelInv, TicketInv, HashInv, CacheInv, RwlockInv,
      Holding, RightObject, MemorySafe
<1>13. SoleInv'
  BY <1>0, IncType DEF SoleInv, LabelInv, Users, TicketInv, HashInv, CacheInv,
      MemorySafe, RwlockInv, Holding
<1>14. HeirInv'
  BY <1>0, IncType DEF HeirInv, Pending, Users, LabelInv, SoleInv, HashInv, CacheInv
<1>15. LeakInv'
  BY <1>0, IncType DEF LeakInv, HashInv, CacheInv, LabelInv, UnlinkInv
<1> QED BY <1>1, <1>2, <1>3, <1>4, <1>5, <1>6, <1>7, <1>8, <1>9, <1>10, <1>11, <1>12,
    <1>13, <1>14, <1>15 DEF MapInv

\* The object leaves the hash for the cache, or is marked destroyed; m_version
\* moves on in either case.
LEMMA UnlinkPreserves == ASSUME MapInv, NEW t \in Threads, Unlink(t) PROVE MapInv'
<1> USE MapAssumption, UintModPositive
    DEF Unlink, heap, HashKeys, Keys, AllObjects, TypeOK, Labels
<1>0. TypeOK /\ MemorySafe /\ RightObject /\ RefCounts /\ HashInv /\ CacheInv
      /\ PreInv /\ VersionInv /\ RwlockInv /\ TicketInv /\ LabelInv
      /\ UnlinkInv /\ SoleInv /\ HeirInv /\ LeakInv
  BY DEF MapInv
<1>1. TypeOK'
  <2>1. last' \in [Threads -> BOOLEAN]
    <3>1. CASE last' = [last EXCEPT ![t] = FALSE]
      BY <1>0, <3>1
    <3>2. CASE last' # [last EXCEPT ![t] = FALSE]
      <4>1. CASE m_ref_usage[obj[t]] = m_ref_release[obj[t]]
        <5>1. last' = [last EXCEPT ![t] = TRUE]
          BY <3>2, <4>1
        <5> QED BY <1>0, <5>1
      <4>2. CASE m_ref_usage[obj[t]] # m_ref_release[obj[t]]
        BY <3>2, <4>2
      <4> QED BY <4>1, <4>2
    <3> QED BY <3>1, <3>2
  <2>9. /\ m_locks' = [m_locks EXCEPT ![key[obj[t]]] = None]
        /\ m_version' = [m_version EXCEPT ![obj[t]] = @ + 1]
        /\ m_is_destroyed' \in {m_is_destroyed, [m_is_destroyed EXCEPT ![obj[t]] = TRUE]}
        /\ unused' \in {unused, unused \cup {obj[t]}}
    OBVIOUS
  <2>8. obj[t] \in Objects
    BY <1>0 DEF LabelInv
  <2>2. m_locks' \in [HashKeys -> Objects \cup {None}] /\ unused' \in SUBSET Objects
    BY ONLY <1>0, <2>9, <2>8 DEF TypeOK
  <2>7. m_is_destroyed' \in [AllObjects -> BOOLEAN]
    <3>1. CASE m_is_destroyed' = m_is_destroyed
      BY <1>0, <3>1
    <3>2. CASE m_is_destroyed' = [m_is_destroyed EXCEPT ![obj[t]] = TRUE]
      BY ONLY <1>0, <3>2 DEF TypeOK
    <3> QED BY <2>9, <3>1, <3>2
  <2>3. m_version' \in [AllObjects -> Nat]
    BY ONLY <1>0, <2>9, <2>8 DEF TypeOK, AllObjects
  <2>4. pc' \in [Threads -> Labels]
    BY <1>0
  <2> QED BY <1>0, <2>1, <2>2, <2>3, <2>4, <2>7
<1>2. MemorySafe'
  BY <1>0, IncType DEF MemorySafe, HashInv, CacheInv, PreInv, LabelInv, SoleInv, Users
<1>3. RightObject'
  BY <1>0, IncType DEF RightObject, HashInv, CacheInv, VersionInv, LabelInv,
      UnlinkInv, RwlockInv, Holding, PreInv, MemorySafe
<1>4. RefCounts'
  BY <1>0, IncType DEF RefCounts, Pending
<1>5. HashInv'
  BY <1>0, IncType DEF HashInv, CacheInv, LabelInv, UnlinkInv, SoleInv, MemorySafe
<1>6. CacheInv'
  BY <1>0, IncType DEF CacheInv, HashInv, LabelInv, UnlinkInv, SoleInv, MemorySafe
<1>7. PreInv'
  BY <1>0, IncType DEF PreInv, LabelInv
<1>8. VersionInv'
  BY <1>0, IncType DEF VersionInv, HashInv, CacheInv, LabelInv, UnlinkInv, MemorySafe
<1>9. RwlockInv'
  BY <1>0, IncType DEF RwlockInv, Holding, LabelInv
<1>10. TicketInv'
  BY <1>0, IncType DEF TicketInv, LabelInv, UnlinkInv, HashInv, RightObject
<1>11. LabelInv'
  BY <1>0, IncType DEF LabelInv
<1>12. UnlinkInv'
  BY <1>0, IncType DEF UnlinkInv, LabelInv, TicketInv, HashInv, CacheInv, RwlockInv,
      Holding, RightObject, MemorySafe
<1>13. SoleInv'
  <2>1. /\ obj[t] \in Objects /\ live[obj[t]]
        /\ m_ref_usage[obj[t]] = m_ref_release[obj[t]] <=> Pending(obj[t]) = {}
        /\ ~m_is_destroyed[obj[t]]
    BY <1>0, EqualCounters DEF LabelInv, UnlinkInv, MemorySafe, HashInv
  <2>2. CASE key[obj[t]] \in TableKeys /\ Cardinality(unused) < CacheSize
    BY <1>0, <2>1, <2>2 DEF SoleInv, LabelInv, Users, Pending, TicketInv, HashInv,
        CacheInv, MemorySafe, RwlockInv, Holding, UnlinkInv
  <2>3. CASE ~(key[obj[t]] \in TableKeys /\ Cardinality(unused) < CacheSize) /\ Pending(obj[t]) = {}
    <3>1. /\ last' = [last EXCEPT ![t] = TRUE]
          /\ pc' = [pc EXCEPT ![t] = "unlock"]
          /\ m_is_destroyed' = [m_is_destroyed EXCEPT ![obj[t]] = TRUE]
      BY <2>1, <2>3
    <3> QED BY <1>0, <2>1, <2>3, <3>1 DEF SoleInv, LabelInv, Users, Pending,
        TicketInv, HashInv, CacheInv, MemorySafe, RwlockInv, Holding, UnlinkInv
  <2>4. CASE ~(key[obj[t]] \in TableKeys /\ Cardinality(unused) < CacheSize) /\ Pending(obj[t]) # {}
    <3>1. /\ last' = [last EXCEPT ![t] = FALSE]
          /\ pc' = [pc EXCEPT ![t] = "unlock"]
          /\ m_is_destroyed' = [m_is_destroyed EXCEPT ![obj[t]] = TRUE]
      BY <2>1, <2>4
    <3> QED BY <1>0, <2>1, <2>4, <3>1 DEF SoleInv, LabelInv, Users, Pending,
        TicketInv, HashInv, CacheInv, MemorySafe, RwlockInv, Holding, UnlinkInv
  <2> QED BY <2>2, <2>3, <2>4
<1>14. HeirInv'
  <2>1. /\ obj[t] \in Objects /\ live[obj[t]]
        /\ m_ref_usage[obj[t]] = m_ref_release[obj[t]] <=> Pending(obj[t]) = {}
        /\ ~m_is_destroyed[obj[t]]
    BY <1>0, EqualCounters DEF LabelInv, UnlinkInv, MemorySafe, HashInv
  <2>2. CASE key[obj[t]] \in TableKeys /\ Cardinality(unused) < CacheSize
    BY <1>0, <2>1, <2>2 DEF HeirInv, Pending, Users, LabelInv, SoleInv, HashInv,
        CacheInv, RwlockInv, Holding
  <2>3. CASE ~(key[obj[t]] \in TableKeys /\ Cardinality(unused) < CacheSize) /\ Pending(obj[t]) = {}
    <3>1. /\ last' = [last EXCEPT ![t] = TRUE]
          /\ pc' = [pc EXCEPT ![t] = "unlock"]
          /\ m_is_destroyed' = [m_is_destroyed EXCEPT ![obj[t]] = TRUE]
      BY <2>1, <2>3
    <3> QED BY <1>0, <2>1, <2>3, <3>1 DEF HeirInv, Pending, Users, LabelInv, SoleInv,
        HashInv, CacheInv, RwlockInv, Holding
  <2>4. CASE ~(key[obj[t]] \in TableKeys /\ Cardinality(unused) < CacheSize) /\ Pending(obj[t]) # {}
    <3>1. /\ last' = [last EXCEPT ![t] = FALSE]
          /\ pc' = [pc EXCEPT ![t] = "unlock"]
          /\ m_is_destroyed' = [m_is_destroyed EXCEPT ![obj[t]] = TRUE]
      BY <2>1, <2>4
    <3> QED BY <1>0, <2>1, <2>4, <3>1 DEF HeirInv, Pending, Users, LabelInv, SoleInv,
        HashInv, CacheInv, RwlockInv, Holding
  <2> QED BY <2>2, <2>3, <2>4
<1>15. LeakInv'
  BY <1>0, IncType DEF LeakInv, HashInv, CacheInv, LabelInv, UnlinkInv
<1> QED BY <1>1, <1>2, <1>3, <1>4, <1>5, <1>6, <1>7, <1>8, <1>9, <1>10, <1>11, <1>12,
    <1>13, <1>14, <1>15 DEF MapInv

\* The thread goes on to delete the object only if it is alone with it.
LEMMA UnlockPreserves == ASSUME MapInv, NEW t \in Threads, Unlock(t) PROVE MapInv'
<1> USE MapAssumption, UintModPositive
    DEF Unlock, heap, HashKeys, Keys, AllObjects, TypeOK, Labels, RetryOrReturn, Return
<1>0. TypeOK /\ MemorySafe /\ RightObject /\ RefCounts /\ HashInv /\ CacheInv
      /\ PreInv /\ VersionInv /\ RwlockInv /\ TicketInv /\ LabelInv
      /\ UnlinkInv /\ SoleInv /\ HeirInv /\ LeakInv
  BY DEF MapInv
<1>1. TypeOK'
  BY <1>0, IncType DEF LabelInv
<1>2. MemorySafe'
  BY <1>0, IncType DEF MemorySafe, HashInv, CacheInv, PreInv, LabelInv, SoleInv, Users
<1>3. RightObject'
  BY <1>0, IncType DEF RightObject, HashInv, CacheInv, VersionInv, LabelInv,
      UnlinkInv, RwlockInv, Holding, PreInv, MemorySafe
<1>4. RefCounts'
  BY <1>0, IncType DEF RefCounts, Pending
<1>5. HashInv'
  BY <1>0, IncType DEF HashInv, CacheInv, LabelInv, UnlinkInv, SoleInv, MemorySafe
<1>6. CacheInv'
  BY <1>0, IncType DEF CacheInv, HashInv, LabelInv, UnlinkInv, SoleInv, MemorySafe
<1>7. PreInv'
  BY <1>0, IncType DEF PreInv, LabelInv
<1>8. VersionInv'
  BY <1>0, IncType DEF VersionInv, HashInv, CacheInv, LabelInv, UnlinkInv, MemorySafe
<1>9. RwlockInv'
  BY <1>0, IncType DEF RwlockInv, Holding, LabelInv
<1>10. TicketInv'
  BY <1>0, IncType DEF TicketInv, LabelInv, UnlinkInv, HashInv, RightObject
<1>11. LabelInv'
  BY <1>0, IncType DEF LabelInv
<1>12. UnlinkInv'
  BY <1>0, IncType DEF UnlinkInv, LabelInv, TicketInv, HashInv, CacheInv, RwlockInv,
      Holding, RightObject, MemorySafe
<1>13. SoleInv'
  BY <1>0, IncType DEF SoleInv, LabelInv, Users, TicketInv, HashInv, CacheInv,
      MemorySafe, RwlockInv, Holding
<1>14. HeirInv'
  BY <1>0, IncType DEF HeirInv, Pending, Users, LabelInv, SoleInv, HashInv, CacheInv
<1>15. LeakInv'
  BY <1>0, IncType DEF LeakInv, HashInv, CacheInv, LabelInv, UnlinkInv
<1> QED BY <1>1, <1>2, <1>3, <1>4, <1>5, <1>6, <1>7, <1>8, <1>9, <1>10, <1>11, <1>12,
    <1>13, <1>14, <1>15 DEF MapInv

\* The cell is freed with nobody pointing at it.
LEMMA DestroyPreserves == ASSUME MapInv, NEW t \in Threads, Destroy(t) PROVE MapInv'
<1> USE MapAssumption, UintModPositive
    DEF Destroy, heap, HashKeys, Keys, AllObjects, TypeOK, Labels, RetryOrReturn, Return
<1>0. TypeOK /\ MemorySafe /\ RightObject /\ RefCounts /\ HashInv /\ CacheInv
      /\ PreInv /\ VersionInv /\ RwlockInv /\ TicketInv /\ LabelInv
      /\ UnlinkInv /\ SoleInv /\ HeirInv /\ LeakInv
  BY DEF MapInv
<1>1. TypeOK'
  BY <1>0, IncType DEF LabelInv
<1>2. MemorySafe'
  BY <1>0, IncType DEF MemorySafe, HashInv, CacheInv, PreInv, LabelInv, SoleInv, Users
<1>3. RightObject'
  BY <1>0, IncType DEF RightObject, HashInv, CacheInv, VersionInv, LabelInv,
      UnlinkInv, RwlockInv, Holding, PreInv, MemorySafe
<1>4. RefCounts'
  BY <1>0, IncType DEF RefCounts, Pending
<1>5. HashInv'
  BY <1>0, IncType DEF HashInv, CacheInv, LabelInv, UnlinkInv, SoleInv, MemorySafe
<1>6. CacheInv'
  BY <1>0, IncType DEF CacheInv, HashInv, LabelInv, UnlinkInv, SoleInv, MemorySafe
<1>7. PreInv'
  BY <1>0, IncType DEF PreInv, LabelInv
<1>8. VersionInv'
  BY <1>0, IncType DEF VersionInv, HashInv, CacheInv, LabelInv, UnlinkInv, MemorySafe
<1>9. RwlockInv'
  BY <1>0, IncType DEF RwlockInv, Holding, LabelInv
<1>10. TicketInv'
  BY <1>0, IncType DEF TicketInv, LabelInv, UnlinkInv, HashInv, RightObject
<1>11. LabelInv'
  BY <1>0, IncType DEF LabelInv
<1>12. UnlinkInv'
  BY <1>0, IncType DEF UnlinkInv, LabelInv, TicketInv, HashInv, CacheInv, RwlockInv,
      Holding, RightObject, MemorySafe
<1>13. SoleInv'
  BY <1>0, IncType DEF SoleInv, LabelInv, Users, TicketInv, HashInv, CacheInv,
      MemorySafe, RwlockInv, Holding
<1>14. HeirInv'
  BY <1>0, IncType DEF HeirInv, Pending, Users, LabelInv, SoleInv, HashInv, CacheInv
<1>15. LeakInv'
  BY <1>0, IncType DEF LeakInv, HashInv, CacheInv, LabelInv, UnlinkInv
<1> QED BY <1>1, <1>2, <1>3, <1>4, <1>5, <1>6, <1>7, <1>8, <1>9, <1>10, <1>11, <1>12,
    <1>13, <1>14, <1>15 DEF MapInv

\* The state MDL_map::init() leaves satisfies the invariant.
LEMMA InitInv == Init => MapInv
<1> SUFFICES ASSUME Init PROVE MapInv
  OBVIOUS
<1> USE MapAssumption, UintModPositive DEF Init, HashKeys, Keys, AllObjects
<1>1. TypeOK
  BY DEF TypeOK, Labels
<1>2. MemorySafe /\ RightObject /\ HashInv /\ CacheInv /\ PreInv /\ VersionInv
  BY DEF MemorySafe, RightObject, HashInv, CacheInv, PreInv, VersionInv
<1>3. RefCounts
  BY DEF RefCounts
<1>4. RwlockInv /\ TicketInv /\ LabelInv /\ UnlinkInv /\ SoleInv /\ HeirInv /\ LeakInv
  BY DEF RwlockInv, Holding, TicketInv, LabelInv, UnlinkInv, SoleInv, HeirInv, LeakInv
<1> QED BY <1>1, <1>2, <1>3, <1>4 DEF MapInv

\* Every step of every thread keeps the invariant.
LEMMA NextInv == MapInv /\ [Next]_vars => MapInv'
<1> SUFFICES ASSUME MapInv, [Next]_vars PROVE MapInv'
  OBVIOUS
<1>1. CASE UNCHANGED vars
  <2>0. MapInv /\ UNCHANGED vars
    BY <1>1
  <2> USE DEF vars, heap, locals, MapInv
  <2>1. TypeOK' /\ MemorySafe' /\ RightObject'
    BY ONLY <2>0 DEF TypeOK, MemorySafe, RightObject
  <2>2. RefCounts' /\ HeirInv'
    BY ONLY <2>0 DEF RefCounts, HeirInv, Pending, Users
  <2>3. HashInv' /\ CacheInv' /\ PreInv' /\ VersionInv' /\ LeakInv'
    BY ONLY <2>0 DEF HashInv, CacheInv, PreInv, VersionInv, LeakInv
  <2>4. RwlockInv' /\ TicketInv' /\ LabelInv' /\ UnlinkInv' /\ SoleInv'
    BY ONLY <2>0 DEF RwlockInv, Holding, TicketInv, LabelInv, UnlinkInv, SoleInv, Users
  <2> QED BY <2>1, <2>2, <2>3, <2>4
<1>2. CASE Next
  <2> SUFFICES ASSUME NEW t \in Threads,
                      \/ \E k \in Keys : Request(t, k)
                      \/ FindOrInsert(t)
                      \/ AddTicket(t)
                      \/ GiveUp(t)
                      \/ RemoveTicket(t)
                      \/ Remove(t)
               PROVE  MapInv'
    BY <1>2 DEF Next
  <2>1. CASE \E k \in Keys : Request(t, k)
    BY <2>1, RequestPreserves
  <2>2. CASE FindOrInsert(t)
    BY <2>2, FindPreallocatedPreserves, FindInHashPreserves, ReuseUnusedPreserves,
       CreateLockPreserves, OutOfMemoryPreserves, LockObjectPreserves,
       CheckVersionPreserves DEF FindOrInsert
  <2>3. CASE AddTicket(t)
    BY <2>3, AddTicketPreserves
  <2>4. CASE GiveUp(t)
    BY <2>4, GiveUpPreserves
  <2>5. CASE RemoveTicket(t)
    BY <2>5, RemoveTicketPreserves
  <2>6. CASE Remove(t)
    BY <2>6, UnlinkPreserves, UnlockPreserves, DestroyPreserves DEF Remove
  <2> QED BY <2>1, <2>2, <2>3, <2>4, <2>5, <2>6
<1> QED BY <1>1, <1>2

\* MapInv is an invariant of MDL_map for every number of connections, keys and
\* cells, every cache size and every width of the reference counters.
THEOREM MapInvariant == Spec => []MapInv
  BY InitInv, NextInv, PTL DEF Spec

\* Every variable keeps its type; in particular the counters of an MDL_lock
\* stay unsigned integers of their width.
THEOREM TypeCorrectness == Spec => []TypeOK
<1>1. MapInv => TypeOK
  BY DEF MapInv
<1> QED BY <1>1, MapInvariant, PTL

\* No use after free and no double free of an MDL_lock: as long as the counters
\* are wide enough for all threads, a thread that has left m_mutex and not yet
\* locked the object keeps it from being deleted.
THEOREM MemorySafety == Spec => []MemorySafe
<1>1. MapInv => MemorySafe
  BY DEF MapInv
<1> QED BY <1>1, MapInvariant, PTL

\* find_or_insert() returns the MDL_lock of the key it was asked for, and that
\* is the one the hash holds: the version check recognises every object that
\* was unlinked, cached or reused behind the thread's back.
THEOREM FindsRightObject == Spec => []RightObject
<1>1. MapInv => RightObject
  BY DEF MapInv
<1> QED BY <1>1, MapInvariant, PTL

\* Two tickets for one key are always on one MDL_lock.
THEOREM SharedObject == Spec => []OneObjectPerKey
<1>1. MapInv => OneObjectPerKey
  <2> SUFFICES ASSUME MapInv, NEW t \in Threads, NEW u \in Threads,
                      pc[t] = "held", pc[u] = "held", key[obj[t]] = key[obj[u]]
               PROVE  obj[t] = obj[u]
    BY DEF OneObjectPerKey
  <2>1. \A v \in Threads : pc[v] = "held" =>
          /\ obj[v] \in AllObjects
          /\ v \in tickets[obj[v]]
    BY DEF MapInv, TypeOK, LabelInv, TicketInv
  <2>2. \A v \in Threads : pc[v] = "held" =>
          \/ obj[v] \in PreKeys /\ key[obj[v]] = obj[v]
          \/ key[obj[v]] \in HashKeys /\ m_locks[key[obj[v]]] = obj[v]
    BY <2>1, MapAssumption DEF MapInv, TicketInv, PreInv, HashInv, TypeOK, AllObjects
  <2> QED BY <2>2, MapAssumption DEF HashKeys
<1> QED BY <1>1, MapInvariant, PTL

\* No MDL_lock leaks: each one is in the hash, in the cache, or destroyed and
\* still in the hands of the thread that will delete it.
THEOREM NothingLeaks == Spec => []NoLeak
<1>1. MapInv => NoLeak
  BY DEF MapInv, NoLeak, HeirInv, LeakInv, Pending, Users
<1> QED BY <1>1, MapInvariant, PTL

\* The thread that deletes an MDL_lock is the only one that points at it.
THEOREM DestroyerIsAlone == Spec => []SoleDestroyer
<1>1. MapInv => SoleDestroyer
  BY DEF MapInv, SoleDestroyer, LabelInv, SoleInv
<1> QED BY <1>1, MapInvariant, PTL

=============================================================================
