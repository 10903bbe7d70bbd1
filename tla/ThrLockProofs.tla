--------------------------- MODULE ThrLockProofs ----------------------------
(***************************************************************************)
(* Proofs, for any number of threads, tables and statements, that table    *)
(* locks are granted only beside locks they are compatible with, that no   *)
(* request is forgotten, that a statement has all of its locks or none,    *)
(* that no threads wait only for each other, and that waiting readers are  *)
(* let in.                                                                 *)
(***************************************************************************)
EXTENDS ThrLockProperties, ListsProofs, TLAPS

Types == DOMAIN Rank
ReadTypes == {"TL_READ", "TL_READ_WITH_SHARED_LOCKS", "TL_READ_HIGH_PRIORITY",
              "TL_READ_NO_INSERT"}
StrongTypes == {"TL_WRITE_LOW_PRIORITY", "TL_WRITE"}
Positions == {"idle", "lock", "wait", "run", "insert", "reschedule", "unlock"}

THRLock == [read : Seq(Entry), write : Seq(Entry),
            read_wait : Seq(Entry), write_wait : Seq(Entry),
            write_lock_count : 0 .. max_write_lock_count + 1,
            read_no_write_count : Nat]
THRLockData == [k : Nat, lock : Locks, type : Types]

-----------------------------------------------------------------------------
(* One THR_LOCK.                                                           *)

GrantedIn(q) == ToSet(q.read) \cup ToSet(q.write)
WaitingIn(q) == ToSet(q.read_wait) \cup ToSet(q.write_wait)

(* The entries are well formed; no thread has an entry twice.              *)
EntriesInv(q) ==
  /\ q \in THRLock
  /\ Distinct(q.read) /\ Distinct(q.write) /\ Distinct(q.read_wait) /\ Distinct(q.write_wait)
  /\ \A e \in ToSet(q.read) \cup ToSet(q.read_wait) : IsRead(e.type)
  /\ \A e \in ToSet(q.write) \cup ToSet(q.write_wait) : ~IsRead(e.type)
  /\ \A e, f \in GrantedIn(q) : e.owner = f.owner /\ e.k = f.k => e = f

(* A thread waits for a table once, and only if it has no lock on it.      *)
WaitersInv(q) ==
  /\ \A e, f \in WaitingIn(q) : e.owner = f.owner => e = f
  /\ \A e \in WaitingIn(q), f \in GrantedIn(q) : e.owner # f.owner

CountInv(q) == q.read_no_write_count = Cardinality({e \in ToSet(q.read) : NoInsert(e)})

CompatibleInv(q) ==
  \A w \in ToSet(q.write), e \in GrantedIn(q) : w.owner # e.owner => Compatible(w, e)

(* The granted write locks are in the order of their strength: t may come  *)
(* behind s.                                                               *)
NoStronger(t, s) ==
  \/ s \in StrongTypes \/ t = s
  \/ s = "TL_WRITE_CONCURRENT_INSERT" /\ t = "TL_WRITE_ALLOW_WRITE"
OrderInv(q) ==
  \A i, j \in DOMAIN q.write : i < j => NoStronger(q.write[j].type, q.write[i].type)

QueueInv(q) == EntriesInv(q) /\ WaitersInv(q) /\ CountInv(q) /\ CompatibleInv(q) /\ OrderInv(q)

(* Nobody waits whom nobody would wake.                                    *)
Awake(q) ==
  q.write = <<>> =>
    /\ q.read = <<>> => q.write_wait = <<>> /\ q.read_wait = <<>>
    /\ q.write_wait = <<>> => q.read_wait = <<>>

-----------------------------------------------------------------------------
(* The threads.                                                            *)

(* What is left of s after its first entries.                              *)
Remains(t, s) ==
  /\ Len(t) <= Len(s)
  /\ \A i \in 1 .. Len(t) : t[i] = s[Len(s) - Len(t) + i]

DelayedData == <<[k |-> 1, lock |-> DelayedLock, type |-> "TL_WRITE_DELAYED"]>>

ThreadInv(o) ==
  /\ data[o] \in Seq(THRLockData) /\ todo[o] \in Seq(THRLockData)
  /\ \A i \in DOMAIN data[o] : data[o][i].k = i
  /\ ToSet(todo[o]) \subseteq ToSet(data[o])
  /\ pc[o] = "idle" <=> data[o] = <<>>
  /\ pc[o] = "unlock" => todo[o] # <<>>
  /\ o \in Handlers => pc[o] \notin {"lock", "unlock"} /\ data[o] \in {<<>>, DelayedData}
  /\ o \in Sessions => /\ pc[o] \notin {"insert", "reschedule"}
                       /\ \A i \in DOMAIN data[o] : data[o][i].type # "TL_WRITE_DELAYED"
  /\ o \in Sessions /\ pc[o] \in {"lock", "wait"} =>
       todo[o] # <<>> /\ Remains(todo[o], sort_locks(data[o]))
  /\ pc[o] = "run" => todo[o] = <<>>

(* What a working thread has.                                              *)
Has(o, d) == \E e \in GrantedIn(locks[d.lock]) : e.owner = o /\ e.k = d.k
HoldsInv(o) ==
  /\ o \in Sessions /\ pc[o] \in {"lock", "wait", "run"} =>
       \A d \in ToSet(data[o]) \ ToSet(todo[o]) : Has(o, d)
  /\ pc[o] = "insert" => \E e \in ToSet(locks[DelayedLock].write) : e.owner = o

(* An entry of l is that of a lock of the call with the locks D.            *)
EntryOf(l, e, D) ==
  /\ e.k \in DOMAIN D /\ D[e.k].lock = l
  /\ e.owner \in Sessions =>
       /\ e.type = D[e.k].type
          \/ (D[e.k].type = "TL_WRITE_CONCURRENT_INSERT" /\ e.type \in StrongTypes)
       /\ e.type = "TL_WRITE_CONCURRENT_INSERT" => l \in CheckStatus

(* An entry of l belongs to the call in progress of its owner.             *)
EntryInv(l, e) ==
  LET o == e.owner
      d == data[o][e.k]
  IN /\ EntryOf(l, e, data[o])
     /\ o \in Sessions =>
          /\ pc[o] \in {"lock", "wait"} =>
               d \notin ToSet(todo[o]) \/ (pc[o] = "wait" /\ d = Head(todo[o]))
          /\ pc[o] = "unlock" => d \in ToSet(todo[o])
     /\ o \in Handlers =>
          e.type = IF pc[o] \in {"run", "reschedule"} THEN "TL_WRITE_DELAYED" ELSE delayed_lock

(* A queued entry is that of a thread that waits.                          *)
QueuedInv(l, e) ==
  LET o == e.owner
  IN /\ o \in Sessions => pc[o] = "wait" /\ data[o][e.k] = Head(todo[o])
     /\ pc[o] # "insert"

LockInv(l) ==
  /\ QueueInv(locks[l]) /\ Awake(locks[l])
  /\ \A e \in GrantedIn(locks[l]) : EntryInv(l, e)
  /\ \A e \in WaitingIn(locks[l]) : EntryInv(l, e) /\ QueuedInv(l, e)

ThrLockInv ==
  /\ locks \in [Locks -> THRLock]
  /\ pc \in [Threads -> Positions]
  /\ data \in [Threads -> Seq(THRLockData)] /\ todo \in [Threads -> Seq(THRLockData)]
  /\ overtaken \in [Threads -> Nat]
  /\ \A o \in Threads : ThreadInv(o) /\ HoldsInv(o)
  /\ \A l \in Locks : LockInv(l)

-----------------------------------------------------------------------------
(* The types of locks.                                                     *)

LEMMA RankFacts ==
  /\ Types = ToSet(lock_type)
  /\ Rank["TL_READ"] = 1 /\ Rank["TL_READ_WITH_SHARED_LOCKS"] = 2
  /\ Rank["TL_READ_HIGH_PRIORITY"] = 3 /\ Rank["TL_READ_NO_INSERT"] = 4
  /\ Rank["TL_WRITE_ALLOW_WRITE"] = 5 /\ Rank["TL_WRITE_CONCURRENT_INSERT"] = 6
  /\ Rank["TL_WRITE_DELAYED"] = 7 /\ Rank["TL_WRITE_LOW_PRIORITY"] = 8
  /\ Rank["TL_WRITE"] = 9
<1>1. DOMAIN lock_type = 1 .. 9
  BY DEF lock_type
<1>2. ASSUME NEW n \in 1 .. 9 PROVE Rank[lock_type[n]] = n
  <2>1. \A m \in 1 .. 9 : lock_type[m] = lock_type[n] => m = n
    BY DEF lock_type
  <2>2. lock_type[n] \in ToSet(lock_type)
    BY <1>1 DEF ToSet
  <2>3. Rank[lock_type[n]] = CHOOSE m \in DOMAIN lock_type : lock_type[m] = lock_type[n]
    BY <2>2 DEF Rank
  <2>. QED BY <1>1, <2>1, <2>3
<1>3. Types = ToSet(lock_type)
  BY DEF Types, Rank
<1>4. /\ lock_type[1] = "TL_READ" /\ lock_type[2] = "TL_READ_WITH_SHARED_LOCKS"
      /\ lock_type[3] = "TL_READ_HIGH_PRIORITY" /\ lock_type[4] = "TL_READ_NO_INSERT"
      /\ lock_type[5] = "TL_WRITE_ALLOW_WRITE" /\ lock_type[6] = "TL_WRITE_CONCURRENT_INSERT"
      /\ lock_type[7] = "TL_WRITE_DELAYED" /\ lock_type[8] = "TL_WRITE_LOW_PRIORITY"
      /\ lock_type[9] = "TL_WRITE"
  BY DEF lock_type
<1>. QED BY <1>2, <1>3, <1>4

LEMMA TypeFacts ==
  /\ Types = ReadTypes \cup StrongTypes \cup
             {"TL_WRITE_ALLOW_WRITE", "TL_WRITE_CONCURRENT_INSERT", "TL_WRITE_DELAYED"}
  /\ \A t \in Types : /\ Rank[t] \in Nat
                      /\ IsRead(t) <=> t \in ReadTypes
                      /\ Rank[t] <= Rank["TL_WRITE_DELAYED"] <=> t \notin StrongTypes
                      /\ Rank[t] > Rank["TL_WRITE_DELAYED"] <=> t \in StrongTypes
                      /\ Rank[t] >= Rank["TL_WRITE_LOW_PRIORITY"] <=> t \in StrongTypes
<1>1. Types = {lock_type[i] : i \in 1 .. 9}
  BY RankFacts DEF lock_type, ToSet
<1>2. Types = ReadTypes \cup StrongTypes \cup
              {"TL_WRITE_ALLOW_WRITE", "TL_WRITE_CONCURRENT_INSERT", "TL_WRITE_DELAYED"}
  BY <1>1 DEF lock_type, ReadTypes, StrongTypes
<1>. QED BY <1>2, RankFacts DEF IsRead, ReadTypes, StrongTypes

(* The types of the lock of an INSERT DELAYED handler.                     *)
LEMMA HandlerTypes ==
  /\ delayed_lock \in StrongTypes /\ delayed_lock \in Types /\ ~IsRead(delayed_lock)
  /\ delayed_lock \notin {"TL_WRITE_DELAYED", "TL_WRITE_ALLOW_WRITE", "TL_WRITE_CONCURRENT_INSERT"}
  /\ ~(Rank[delayed_lock] <= Rank["TL_WRITE_DELAYED"])
  /\ ~IsRead("TL_WRITE_DELAYED")
<1>1. delayed_lock \in {"TL_WRITE", "TL_WRITE_LOW_PRIORITY"}
  BY LocksAssumption DEF delayed_lock
<1>2. "TL_WRITE_DELAYED" \in Types /\ "TL_WRITE_DELAYED" \notin ReadTypes
  BY TypeFacts DEF ReadTypes
<1>3. \A t \in StrongTypes : t \in Types /\ t \notin ReadTypes
  BY TypeFacts DEF ReadTypes, StrongTypes
<1>. QED BY <1>1, <1>2, <1>3, TypeFacts DEF StrongTypes

-----------------------------------------------------------------------------
(* sort_locks() returns the locks in the order of LOCK_CMP().              *)

LEMMA SortFacts ==
  ASSUME NEW s \in Seq(THRLockData)
  PROVE  /\ sort_locks(s) \in Seq(THRLockData) /\ Len(sort_locks(s)) = Len(s)
         /\ ToSet(sort_locks(s)) = ToSet(s)
         /\ Distinct(s) => Distinct(sort_locks(s))
         /\ \A i, j \in DOMAIN s : i < j => ~LOCK_CMP(sort_locks(s)[j], sort_locks(s)[i])
<1>. DEFINE N == Len(s)
            Before(i, j) == LOCK_CMP(s[i], s[j]) \/ (i <= j /\ ~LOCK_CMP(s[j], s[i]))
            First(i) == {j \in DOMAIN s : Before(j, i)}
            Place(i) == Cardinality(First(i))
            t == [n \in DOMAIN s |-> s[CHOOSE i \in DOMAIN s : Place(i) = n]]
<1>1. N \in Nat /\ DOMAIN s = 1 .. N /\ \A i \in 1 .. N : s[i] \in THRLockData
  BY LenProperties, ElementOfSeq
<1>2. \A i \in 1 .. N : s[i].lock \in Nat /\ Rank[s[i].type] \in Nat
  BY <1>1, TypeFacts, LocksAssumption DEF THRLockData, Types
<1>3. ASSUME NEW i \in 1 .. N, NEW j \in 1 .. N
      PROVE  /\ Before(i, i)
             /\ Before(i, j) \/ Before(j, i)
             /\ Before(i, j) /\ Before(j, i) => i = j
             /\ Before(i, j) => i = j \/ ~LOCK_CMP(s[j], s[i])
             /\ \A h \in 1 .. N : Before(h, i) /\ Before(i, j) => Before(h, j)
  BY <1>2, SMTT(40) DEF LOCK_CMP
<1>4. sort_locks(s) = t
  BY DEF sort_locks
<1>. HIDE DEF Before
<1>5. ASSUME NEW i \in 1 .. N
      PROVE  IsFiniteSet(First(i)) /\ Place(i) \in 1 .. N
  <2>1. IsFiniteSet(1 .. N) /\ Cardinality(1 .. N) = N
    BY <1>1, FS_Interval
  <2>2. First(i) \in SUBSET (1 .. N) /\ i \in First(i)
    BY <1>1, <1>3
  <2>3. IsFiniteSet(First(i)) /\ Cardinality(First(i)) <= N
    BY <2>1, <2>2, FS_Subset
  <2>4. Cardinality(First(i)) \in Nat /\ Cardinality(First(i)) # 0
    BY <2>2, <2>3, FS_CardinalityType, FS_EmptySet
  <2>. QED BY <1>1, <2>3, <2>4
<1>6. ASSUME NEW i \in 1 .. N, NEW j \in 1 .. N, Before(i, j), i # j
      PROVE  Place(i) < Place(j)
  <2>1. First(i) \in SUBSET First(j)
    BY <1>1, <1>3, <1>6
  <2>2. j \in First(j) /\ j \notin First(i)
    BY <1>1, <1>3, <1>6
  <2>3. Cardinality(First(i)) <= Cardinality(First(j))
        /\ Cardinality(First(i)) # Cardinality(First(j))
    BY <1>5, <2>1, <2>2, FS_Subset
  <2>4. Cardinality(First(i)) \in Nat /\ Cardinality(First(j)) \in Nat
    BY <1>5, FS_CardinalityType
  <2>. HIDE DEF First
  <2>. QED BY <2>3, <2>4
<1>. HIDE DEF First, Place
<1>7. \A n \in 1 .. N : \E i \in 1 .. N : Place(i) = n
  <2>. DEFINE f == [i \in 1 .. N |-> Place(i)]
  <2>1. f \in Injection(1 .. N, 1 .. N)
    <3>1. f \in [1 .. N -> 1 .. N]
      BY <1>5
    <3>2. \A i, j \in 1 .. N : f[i] = f[j] => i = j
      BY <1>3, <1>5, <1>6
    <3>. QED BY <3>1, <3>2 DEF Injection, IsInjective
  <2>2. IsFiniteSet(1 .. N)
    BY <1>1, FS_Interval
  <2>3. f \in Surjection(1 .. N, 1 .. N)
    BY <2>1, <2>2, FS_Injection
  <2>. QED BY <2>3 DEF Surjection
<1>8. \A n \in 1 .. N : \E i \in 1 .. N : Place(i) = n /\ t[n] = s[i]
  <2>. SUFFICES ASSUME NEW n \in 1 .. N PROVE \E i \in 1 .. N : Place(i) = n /\ t[n] = s[i]
    OBVIOUS
  <2>. DEFINE g == CHOOSE i \in 1 .. N : Place(i) = n
  <2>1. g \in 1 .. N /\ Place(g) = n
    BY <1>7
  <2>2. t[n] = s[g]
    BY <1>1
  <2>. QED BY <2>1, <2>2
<1>9. DOMAIN t = 1 .. N
  BY <1>1
<1>. HIDE DEF t
<1>10. \A i \in 1 .. N : t[Place(i)] = s[i]
  <2>. SUFFICES ASSUME NEW i \in 1 .. N PROVE t[Place(i)] = s[i]
    OBVIOUS
  <2>1. PICK j \in 1 .. N : Place(j) = Place(i) /\ t[Place(i)] = s[j]
    BY <1>5, <1>8
  <2>2. j = i
    BY <1>3, <1>5, <1>6, <2>1
  <2>. QED BY <2>1, <2>2
<1>11. t \in Seq(THRLockData) /\ Len(t) = N
  <2>1. \A n \in 1 .. N : t[n] \in THRLockData
    BY <1>1, <1>8
  <2>2. t \in [1 .. N -> THRLockData]
    BY <1>9, <2>1 DEF t
  <2>. QED BY <1>1, <2>2, SeqDef, LenProperties
<1>12. ToSet(t) = ToSet(s)
  BY <1>1, <1>5, <1>8, <1>9, <1>10 DEF ToSet
<1>13. Distinct(s) => Distinct(t)
  BY <1>1, <1>8, <1>9 DEF Distinct
<1>14. ASSUME NEW i \in 1 .. N, NEW j \in 1 .. N, i < j PROVE ~LOCK_CMP(t[j], t[i])
  <2>1. PICK a \in 1 .. N : Place(a) = i /\ t[i] = s[a]
    BY <1>8
  <2>2. PICK b \in 1 .. N : Place(b) = j /\ t[j] = s[b]
    BY <1>8
  <2>3. a # b /\ ~Before(b, a)
    BY <1>6, <1>14, <2>1, <2>2
  <2>. QED BY <1>3, <2>1, <2>2, <2>3
<1>. QED BY <1>1, <1>4, <1>11, <1>12, <1>13, <1>14

-----------------------------------------------------------------------------
(* Granting.                                                               *)

LEMMA DisjointUnion ==
  ASSUME NEW A, NEW B, IsFiniteSet(A), IsFiniteSet(B), A \cap B = {}
  PROVE  Cardinality(A \cup B) = Cardinality(A) + Cardinality(B)
<1>1. Cardinality(A \cup B) = Cardinality(A) + Cardinality(B) - Cardinality(A \cap B)
  BY FS_Union
<1>2. Cardinality(A \cap B) = 0
  BY FS_EmptySet
<1>3. Cardinality(A) \in Nat /\ Cardinality(B) \in Nat
  BY FS_CardinalityType
<1>. QED BY <1>1, <1>2, <1>3

LEMMA CountNoInsertFacts ==
  ASSUME NEW s \in Seq(Entry), Distinct(s)
  PROVE  /\ IsFiniteSet(ToSet(s)) /\ CountNoInsert(s) \in Nat
         /\ CountNoInsert(s) = Cardinality({e \in ToSet(s) : NoInsert(e)})
<1>. DEFINE P == {i \in DOMAIN s : NoInsert(s[i])}
<1>1. /\ IsFiniteSet(P) /\ Cardinality(P) = Cardinality(EntriesAt(s, P))
  <2>1. P \subseteq DOMAIN s
    OBVIOUS
  <2>. HIDE DEF P
  <2>. QED BY <2>1, CountPositions
<1>2. EntriesAt(s, P) = {e \in ToSet(s) : NoInsert(e)}
  BY DEF EntriesAt, ToSet
<1>3. IsFiniteSet(EntriesAt(s, DOMAIN s))
  BY CountPositions
<1>. QED BY <1>1, <1>2, <1>3, FS_CardinalityType DEF CountNoInsert, ToSet, EntriesAt

(* The fields of a THR_LOCK.                                               *)
LEMMA QueueTypes ==
  ASSUME NEW q \in THRLock
  PROVE  /\ q.read \in Seq(Entry) /\ q.write \in Seq(Entry)
         /\ q.read_wait \in Seq(Entry) /\ q.write_wait \in Seq(Entry)
         /\ q.write_lock_count \in 0 .. max_write_lock_count + 1 /\ q.write_lock_count \in Nat
         /\ q.read_no_write_count \in Nat
         /\ GrantedIn(q) \subseteq Entry /\ WaitingIn(q) \subseteq Entry
<1>1. /\ q.read \in Seq(Entry) /\ q.write \in Seq(Entry)
      /\ q.read_wait \in Seq(Entry) /\ q.write_wait \in Seq(Entry)
      /\ q.write_lock_count \in 0 .. max_write_lock_count + 1 /\ q.write_lock_count \in Nat
      /\ q.read_no_write_count \in Nat
  BY LocksAssumption DEF THRLock
<1>. QED BY <1>1, ToSetFacts DEF GrantedIn, WaitingIn

(* What free_all_read_locks() does to the queues.                          *)
LEMMA FreeFields ==
  ASSUME NEW q, EntriesInv(q), NEW c \in BOOLEAN
  PROVE  LET r == free_all_read_locks(q, c)
             F == {e \in ToSet(q.read_wait) : ~(NoInsert(e) /\ c)}
         IN /\ r \in THRLock
            /\ r.write = q.write /\ r.write_wait = q.write_wait
            /\ ToSet(r.read) = ToSet(q.read) \cup F
            /\ ToSet(r.read_wait) = ToSet(q.read_wait) \ F
            /\ ToSet(q.read) \cap F = {} => Distinct(r.read)
            /\ Distinct(r.read_wait)
            /\ r.read_no_write_count =
                 q.read_no_write_count + Cardinality({e \in F : NoInsert(e)})
            /\ r.write_lock_count = IF r.read_wait = <<>> THEN 0 ELSE q.write_lock_count
<1>. DEFINE w == q.read_wait
            F == {e \in ToSet(w) : ~(NoInsert(e) /\ c)}
            back == {i \in DOMAIN w : NoInsert(w[i]) /\ c}
            forth == DOMAIN w \ back
            kept == Sublist(w, back)
            freed == Sublist(w, forth)
            r == free_all_read_locks(q, c)
<1>1. /\ q \in THRLock /\ w \in Seq(Entry) /\ q.read \in Seq(Entry) /\ q.write \in Seq(Entry)
      /\ q.write_wait \in Seq(Entry) /\ q.read_no_write_count \in Nat
      /\ q.write_lock_count \in 0 .. max_write_lock_count + 1
      /\ Distinct(w) /\ Distinct(q.read)
  BY QueueTypes DEF EntriesInv
<1>2. r = [q EXCEPT !.read = q.read \o freed, !.read_wait = kept,
                    !.read_no_write_count = q.read_no_write_count + CountNoInsert(freed),
                    !.write_lock_count = IF kept = <<>> THEN 0 ELSE q.write_lock_count]
  BY DEF free_all_read_locks
<1>3. /\ r.write = q.write /\ r.write_wait = q.write_wait
      /\ r.read = q.read \o freed /\ r.read_wait = kept
      /\ r.read_no_write_count = q.read_no_write_count + CountNoInsert(freed)
      /\ r.write_lock_count = IF r.read_wait = <<>> THEN 0 ELSE q.write_lock_count
      /\ r = [read |-> r.read, write |-> r.write, read_wait |-> r.read_wait,
              write_wait |-> r.write_wait, write_lock_count |-> r.write_lock_count,
              read_no_write_count |-> r.read_no_write_count]
  BY <1>1, <1>2 DEF THRLock
<1>. HIDE DEF r
<1>4. /\ kept \in Seq(Entry) /\ ToSet(kept) = {w[i] : i \in back} /\ Distinct(kept)
  BY <1>1, SublistFacts
<1>5. /\ freed \in Seq(Entry) /\ ToSet(freed) = {w[i] : i \in forth} /\ Distinct(freed)
  BY <1>1, SublistFacts
<1>6. ToSet(freed) = F
  BY <1>5 DEF ToSet
<1>7. ToSet(kept) = ToSet(w) \ F
  BY <1>4 DEF ToSet
<1>. HIDE DEF kept, freed, F
<1>8. /\ q.read \o freed \in Seq(Entry) /\ ToSet(q.read \o freed) = ToSet(q.read) \cup F
      /\ ToSet(q.read) \cap F = {} => Distinct(q.read \o freed)
  BY <1>1, <1>5, <1>6, ConcatFacts
<1>9. /\ CountNoInsert(freed) \in Nat
      /\ CountNoInsert(freed) = Cardinality({e \in F : NoInsert(e)})
  BY <1>5, <1>6, CountNoInsertFacts
<1>10. r.read_no_write_count \in Nat /\ r.write_lock_count \in 0 .. max_write_lock_count + 1
  BY <1>1, <1>3, <1>9, LocksAssumption
<1>11. r \in THRLock
  BY <1>1, <1>3, <1>4, <1>8, <1>10 DEF THRLock
<1>. QED BY <1>3, <1>4, <1>7, <1>8, <1>9, <1>11 DEF r, F

(* The waiting readers can run beside the granted writers.                 *)
LetsIn(q, c) == \A w \in ToSet(q.write) :
  w.type \notin StrongTypes /\ (w.type = "TL_WRITE_CONCURRENT_INSERT" => c)

LEMMA FreeKeeps ==
  ASSUME NEW q, QueueInv(q), NEW c \in BOOLEAN, LetsIn(q, c)
  PROVE  QueueInv(free_all_read_locks(q, c))
<1>. DEFINE r == free_all_read_locks(q, c)
            F == {e \in ToSet(q.read_wait) : ~(NoInsert(e) /\ c)}
<1>1. EntriesInv(q) /\ WaitersInv(q) /\ CountInv(q) /\ CompatibleInv(q) /\ OrderInv(q)
  BY DEF QueueInv
<1>2. q \in THRLock /\ GrantedIn(q) \subseteq Entry /\ WaitingIn(q) \subseteq Entry
  BY <1>1, QueueTypes DEF EntriesInv
<1>3. F \subseteq ToSet(q.read_wait) /\ F \subseteq WaitingIn(q)
  BY DEF WaitingIn
<1>4. ToSet(q.read) \cap F = {}
  BY <1>1, <1>3 DEF WaitersInv, GrantedIn
<1>5. /\ r \in THRLock
      /\ r.write = q.write /\ r.write_wait = q.write_wait
      /\ ToSet(r.read) = ToSet(q.read) \cup F
      /\ ToSet(r.read_wait) = ToSet(q.read_wait) \ F
      /\ Distinct(r.read) /\ Distinct(r.read_wait)
      /\ r.read_no_write_count = q.read_no_write_count + Cardinality({e \in F : NoInsert(e)})
  BY <1>1, <1>4, FreeFields
<1>6. \A e \in F : IsRead(e.type) /\ (NoInsert(e) => ~c)
  BY <1>1 DEF EntriesInv
<1>. HIDE DEF r, F
<1>7. GrantedIn(r) = GrantedIn(q) \cup F /\ WaitingIn(r) = (ToSet(q.read_wait) \ F) \cup ToSet(q.write_wait)
  BY <1>5 DEF GrantedIn, WaitingIn
<1>8. WaitingIn(r) \subseteq WaitingIn(q) /\ WaitingIn(r) \cap F = {}
  BY <1>1, <1>3, <1>6, <1>7 DEF WaitingIn, EntriesInv
<1>9. EntriesInv(r)
  <2>1. \A e, f \in GrantedIn(r) : e.owner = f.owner /\ e.k = f.k => e = f
    BY <1>1, <1>3, <1>7 DEF EntriesInv, WaitersInv
  <2>. QED BY <1>1, <1>3, <1>5, <1>6, <2>1 DEF EntriesInv
<1>10. WaitersInv(r)
  BY <1>1, <1>3, <1>7, <1>8 DEF WaitersInv
<1>11. CountInv(r)
  <2>. DEFINE A == {e \in ToSet(q.read) : NoInsert(e)}
              B == {e \in F : NoInsert(e)}
              C == {e \in ToSet(r.read) : NoInsert(e)}
  <2>1. C = A \cup B /\ A \cap B = {}
    BY <1>4, <1>5
  <2>2. IsFiniteSet(A) /\ IsFiniteSet(B)
    <3>1. IsFiniteSet(ToSet(q.read)) /\ IsFiniteSet(ToSet(q.read_wait))
      BY <1>1, <1>2, QueueTypes, CountNoInsertFacts DEF EntriesInv
    <3>2. A \in SUBSET ToSet(q.read) /\ B \in SUBSET ToSet(q.read_wait)
      BY <1>3
    <3>. QED BY <3>1, <3>2, FS_Subset
  <2>. HIDE DEF A, B, C
  <2>3. Cardinality(C) = Cardinality(A) + Cardinality(B)
    BY <2>1, <2>2, DisjointUnion
  <2>. QED BY <1>1, <1>5, <2>3 DEF CountInv, A, B, C
<1>12. CompatibleInv(r)
  <2>. SUFFICES ASSUME NEW w \in ToSet(r.write), NEW e \in GrantedIn(r), w.owner # e.owner
                PROVE  Compatible(w, e)
    BY DEF CompatibleInv
  <2>1. CASE e \in GrantedIn(q)
    BY <1>1, <1>5, <2>1 DEF CompatibleInv
  <2>2. CASE e \in F
    <3>1. w \in ToSet(q.write) /\ w \in Entry
      BY <1>2, <1>5 DEF GrantedIn
    <3>2. w.type \in Types /\ w.type \notin StrongTypes
          /\ (w.type = "TL_WRITE_CONCURRENT_INSERT" => c)
      BY <3>1 DEF LetsIn, Entry, Types
    <3>. QED BY <1>6, <2>2, <3>2, TypeFacts DEF Compatible
  <2>. QED BY <1>7, <2>1, <2>2
<1>13. OrderInv(r)
  BY <1>1, <1>5 DEF OrderInv
<1>. QED BY <1>9, <1>10, <1>11, <1>12, <1>13 DEF QueueInv, r

(* A request that is granted may be turned into one for TL_WRITE.          *)
Became(e, f) ==
  \/ f = e
  \/ e.type = "TL_WRITE_CONCURRENT_INSERT" /\ f = [e EXCEPT !.type = "TL_WRITE"]

LEMMA BecameFacts ==
  ASSUME NEW e \in Entry, NEW f, Became(e, f), ~IsRead(e.type)
  PROVE  f \in Entry /\ f.owner = e.owner /\ f.k = e.k /\ ~IsRead(f.type)
BY TypeFacts DEF Became, Entry, Types, ReadTypes, StrongTypes

(* The requests that GrantWriters() takes from the queue.                  *)
LEMMA GrantFields ==
  ASSUME NEW q, EntriesInv(q), q.write = <<>>, q.write_wait # <<>>, NEW unfit \in BOOLEAN
  PROVE  LET r == GrantWriters(q, unfit)
             head == Head(q.write_wait)
         IN \E n \in 1 .. Len(q.write_wait) :
              /\ r \in THRLock /\ r.read = q.read /\ r.read_wait = q.read_wait
              /\ r.write_lock_count = q.write_lock_count
              /\ r.read_no_write_count = q.read_no_write_count
              /\ r.write # <<>> /\ Len(r.write) = n
              /\ \A i \in 1 .. n : r.write[i].type = Last(r.write).type
                                   /\ Became(q.write_wait[i], r.write[i])
              /\ Became(head, [head EXCEPT !.type = Last(r.write).type])
              /\ Last(r.write).type # head.type => unfit
              /\ n = 1 \/ Last(r.write).type = "TL_WRITE_ALLOW_WRITE"
              /\ ToSet(r.write_wait) = {q.write_wait[i] : i \in (n + 1) .. Len(q.write_wait)}
              /\ Distinct(r.write_wait)
<1>. DEFINE ww == q.write_wait
            N == Len(ww)
            head == Head(ww)
            x == IF head.type = "TL_WRITE_CONCURRENT_INSERT" /\ unfit
                   THEN [head EXCEPT !.type = "TL_WRITE"] ELSE head
            Good(n) == /\ \A i \in 1 .. n : ww[i].type = head.type
                       /\ n < N => ww[n + 1].type # head.type
            prefix == SubSeq(ww, 1, CHOOSE n \in DOMAIN ww : Good(n))
            granted == IF head.type # "TL_WRITE_ALLOW_WRITE" THEN <<x>> ELSE prefix
            r == GrantWriters(q, unfit)
<1>1. /\ q \in THRLock /\ ww \in Seq(Entry) /\ Distinct(ww)
      /\ \A e \in ToSet(ww) : e \in Entry /\ ~IsRead(e.type)
  BY QueueTypes DEF EntriesInv, WaitingIn
<1>2. /\ N \in Nat \ {0} /\ DOMAIN ww = 1 .. N /\ head = ww[1]
      /\ \A i \in 1 .. N : ww[i] \in Entry /\ ~IsRead(ww[i].type)
  <2>1. N \in Nat /\ N # 0 /\ DOMAIN ww = 1 .. N /\ head = ww[1]
    BY <1>1, LenProperties, EmptySeq
  <2>. QED BY <1>1, <2>1 DEF ToSet
<1>3. r = [q EXCEPT !.write = q.write \o granted,
                    !.write_wait = SubSeq(ww, Len(granted) + 1, Len(ww))]
  BY DEF GrantWriters
<1>4. \E n \in 1 .. N : Good(n)
  <2>. DEFINE S == {m \in 1 .. N : m < N => ww[m + 1].type # head.type}
  <2>1. N \in S /\ S \subseteq Nat
    BY <1>2
  <2>2. PICK n \in S : \A m \in S : n <= m
    BY <2>1, MinExists
  <2>3. ASSUME NEW i \in 1 .. n, ww[i].type # head.type PROVE FALSE
    <3>1. i # 1 /\ i - 1 \in 1 .. N /\ (i - 1) + 1 = i /\ ~(n <= i - 1)
      BY <1>2, <2>3
    <3>2. i - 1 \in S
      BY <2>3, <3>1
    <3>. QED BY <2>2, <3>1, <3>2
  <2>. QED BY <2>2, <2>3
<1>5. PICK n \in 1 .. N : /\ granted \in Seq(Entry) /\ Len(granted) = n
                          /\ \A i \in 1 .. n : Became(ww[i], granted[i])
                          /\ \A i \in 1 .. n : granted[i].type = granted[n].type
                          /\ Became(head, [head EXCEPT !.type = granted[n].type])
                          /\ granted[n].type # head.type => unfit
                          /\ n = 1 \/ granted[n].type = "TL_WRITE_ALLOW_WRITE"
  <2>1. CASE head.type # "TL_WRITE_ALLOW_WRITE"
    <3>1. head \in Entry /\ Became(head, x) /\ x \in Entry
      BY <1>2, BecameFacts DEF Became
    <3>2. granted = <<x>>
      BY <2>1
    <3>3. head = [head EXCEPT !.type = head.type] /\ (x.type # head.type => unfit)
          /\ Became(head, [head EXCEPT !.type = x.type])
      BY <1>2 DEF Became, Entry
    <3>. HIDE DEF x
    <3>4. <<x>> \in Seq(Entry) /\ Len(<<x>>) = 1 /\ <<x>>[1] = x
      BY <3>1
    <3>. HIDE DEF granted, head
    <3>. QED BY <1>2, <3>1, <3>2, <3>3, <3>4
  <2>2. CASE head.type = "TL_WRITE_ALLOW_WRITE"
    <3>. DEFINE n == CHOOSE n \in DOMAIN ww : Good(n)
    <3>1. n \in 1 .. N /\ Good(n)
      BY <1>2, <1>4
    <3>2. granted = SubSeq(ww, 1, n)
      BY <2>2
    <3>. HIDE DEF n, granted
    <3>3. SubSeq(ww, 1, n) \in Seq(Entry) /\ Len(SubSeq(ww, 1, n)) = n
          /\ \A i \in 1 .. n : SubSeq(ww, 1, n)[i] = ww[i]
      BY <1>1, <1>2, <3>1, SubSeqProperties
    <3>4. \A i \in 1 .. n : granted[i] = ww[i] /\ granted[i].type = head.type
      BY <3>1, <3>2, <3>3
    <3>5. head = [head EXCEPT !.type = head.type]
      BY <1>2 DEF Entry
    <3>6. n \in 1 .. n
      BY <3>1
    <3>. HIDE DEF head
    <3>. QED BY <2>2, <3>1, <3>2, <3>3, <3>4, <3>5, <3>6 DEF Became
  <2>. QED BY <2>1, <2>2
<1>. HIDE DEF granted
<1>6. /\ SubSeq(ww, n + 1, N) \in Seq(Entry)
      /\ ToSet(SubSeq(ww, n + 1, N)) = {ww[i] : i \in (n + 1) .. N}
      /\ Distinct(SubSeq(ww, n + 1, N))
  <2>1. n \in 0 .. N
    BY <1>2
  <2>. QED BY <1>1, <2>1, SuffixFacts
<1>7. <<>> \o granted = granted
  BY <1>5, ConcatEmptySeq
<1>8. /\ r.read = q.read /\ r.read_wait = q.read_wait
      /\ r.write = granted /\ r.write_wait = SubSeq(ww, n + 1, N)
      /\ r.write_lock_count = q.write_lock_count
      /\ r.read_no_write_count = q.read_no_write_count
      /\ r \in THRLock
  <2>1. PICK b : b = SubSeq(ww, n + 1, N)
    OBVIOUS
  <2>2. r = [q EXCEPT !.write = granted, !.write_wait = b]
    BY <1>3, <1>5, <1>7, <2>1
  <2>3. b \in Seq(Entry)
    BY <1>6, <2>1
  <2>. HIDE DEF r
  <2>4. /\ r.read = q.read /\ r.read_wait = q.read_wait
        /\ r.write = granted /\ r.write_wait = b
        /\ r.write_lock_count = q.write_lock_count
        /\ r.read_no_write_count = q.read_no_write_count
        /\ r \in THRLock
    BY <1>1, <1>5, <2>2, <2>3 DEF THRLock
  <2>. QED BY <2>1, <2>4
<1>. HIDE DEF r
<1>9. r.write # <<>> /\ Last(r.write) = granted[n]
  BY <1>2, <1>5, <1>8, EmptySeq DEF Last
<1>. QED BY <1>5, <1>6, <1>8, <1>9 DEF r

(* r is q after some of the waiting requests were granted.                 *)
Moved(q, r) ==
  /\ ToSet(q.read) \subseteq ToSet(r.read) /\ ToSet(q.write) \subseteq ToSet(r.write)
  /\ \A f \in GrantedIn(r) : f \in GrantedIn(q) \/ \E e \in WaitingIn(q) : Became(e, f)
  /\ \A f \in WaitingIn(r) : \E e \in WaitingIn(q) : Became(e, f)

LEMMA MovedTransitive ==
  ASSUME NEW p, NEW q, NEW r, WaitingIn(p) \subseteq Entry, Moved(p, q), Moved(q, r)
  PROVE  Moved(p, r)
<1>1. ASSUME NEW d \in WaitingIn(p), NEW e, NEW f, Became(d, e), Became(e, f)
      PROVE  Became(d, f)
  <2>1. d \in Entry
    OBVIOUS
  <2>. QED BY <1>1, <2>1 DEF Became, Entry
<1>2. \A f \in GrantedIn(r) : f \in GrantedIn(p) \/ \E e \in WaitingIn(p) : Became(e, f)
  BY <1>1 DEF Moved
<1>3. \A f \in WaitingIn(r) : \E e \in WaitingIn(p) : Became(e, f)
  BY <1>1 DEF Moved
<1>. QED BY <1>2, <1>3 DEF Moved

LEMMA FreeMoves ==
  ASSUME NEW q, EntriesInv(q), NEW c \in BOOLEAN
  PROVE  Moved(q, free_all_read_locks(q, c))
<1>. DEFINE r == free_all_read_locks(q, c)
<1>1. /\ r.write = q.write /\ r.write_wait = q.write_wait
      /\ ToSet(q.read) \subseteq ToSet(r.read)
      /\ ToSet(r.read) \subseteq ToSet(q.read) \cup ToSet(q.read_wait)
      /\ ToSet(r.read_wait) \subseteq ToSet(q.read_wait)
  BY FreeFields
<1>. QED BY <1>1 DEF Moved, Became, GrantedIn, WaitingIn

(* The readers can run beside a write lock of type t.                      *)
ReadersAllow(q, t) ==
  \/ q.read = <<>>
  \/ /\ t \notin StrongTypes
     /\ t = "TL_WRITE_CONCURRENT_INSERT" => \A e \in ToSet(q.read) : ~NoInsert(e)

LEMMA GrantKeeps ==
  ASSUME NEW q, QueueInv(q), q.write = <<>>, q.write_wait # <<>>, NEW unfit \in BOOLEAN,
         ReadersAllow(q, Last(GrantWriters(q, unfit).write).type)
  PROVE  QueueInv(GrantWriters(q, unfit)) /\ Moved(q, GrantWriters(q, unfit))
<1>. DEFINE r == GrantWriters(q, unfit)
            ww == q.write_wait
            t == Last(r.write).type
<1>1. EntriesInv(q) /\ WaitersInv(q) /\ CountInv(q)
  BY DEF QueueInv
<1>2. /\ q \in THRLock /\ ww \in Seq(Entry) /\ Distinct(ww) /\ DOMAIN ww = 1 .. Len(ww)
      /\ \A i \in 1 .. Len(ww) : ww[i] \in WaitingIn(q) /\ ww[i] \in Entry /\ ~IsRead(ww[i].type)
      /\ GrantedIn(q) = ToSet(q.read) /\ GrantedIn(q) \subseteq Entry
  <2>1. q \in THRLock /\ ww \in Seq(Entry) /\ Distinct(ww) /\ ToSet(q.write) = {}
        /\ GrantedIn(q) \subseteq Entry
    BY <1>1, QueueTypes, EmptyFacts DEF EntriesInv
  <2>2. DOMAIN ww = 1 .. Len(ww) /\ \A i \in 1 .. Len(ww) : ww[i] \in ToSet(ww) /\ ww[i] \in Entry
    BY <2>1, LenProperties, ElementOfSeq DEF ToSet
  <2>. QED BY <1>1, <2>1, <2>2 DEF EntriesInv, WaitingIn, GrantedIn
<1>3. PICK n \in 1 .. Len(ww) :
        /\ r \in THRLock /\ r.read = q.read /\ r.read_wait = q.read_wait
        /\ r.read_no_write_count = q.read_no_write_count
        /\ Len(r.write) = n
        /\ \A i \in 1 .. n : r.write[i].type = t /\ Became(ww[i], r.write[i])
        /\ n = 1 \/ t = "TL_WRITE_ALLOW_WRITE"
        /\ ToSet(r.write_wait) = {ww[i] : i \in (n + 1) .. Len(ww)}
        /\ Distinct(r.write_wait)
  BY <1>1, GrantFields
<1>. HIDE DEF r
<1>4. /\ DOMAIN r.write = 1 .. n /\ ToSet(r.write) = {r.write[i] : i \in 1 .. n}
      /\ \A i \in 1 .. n : i \in 1 .. Len(ww)
  BY <1>3, QueueTypes, LenProperties DEF ToSet
<1>5. \A i \in 1 .. n : /\ r.write[i] \in Entry /\ ~IsRead(r.write[i].type)
                        /\ r.write[i].owner = ww[i].owner /\ r.write[i].k = ww[i].k
  BY <1>2, <1>3, <1>4, BecameFacts
<1>6. \A i, j \in 1 .. Len(ww) : ww[i].owner = ww[j].owner => i = j
  BY <1>1, <1>2 DEF WaitersInv, Distinct
<1>7. /\ \A w \in WaitingIn(r) : w \in WaitingIn(q)
      /\ \A w \in WaitingIn(r), i \in 1 .. n : w.owner # ww[i].owner
  <2>1. ASSUME NEW w \in ToSet(r.write_wait)
        PROVE  w \in WaitingIn(q) /\ \A i \in 1 .. n : w.owner # ww[i].owner
    <3>1. PICK j \in (n + 1) .. Len(ww) : w = ww[j]
      BY <1>3
    <3>2. j \in 1 .. Len(ww) /\ \A i \in 1 .. n : i # j
      BY <1>2, <1>4
    <3>. QED BY <1>2, <1>4, <1>6, <3>1, <3>2
  <2>2. ASSUME NEW w \in ToSet(r.read_wait), NEW i \in 1 .. n
        PROVE  w \in WaitingIn(q) /\ w.owner # ww[i].owner
    <3>1. w \in WaitingIn(q) /\ IsRead(w.type)
      BY <1>1, <1>3 DEF WaitingIn, EntriesInv
    <3>2. ww[i] \in WaitingIn(q) /\ ~IsRead(ww[i].type)
      BY <1>2, <1>4
    <3>. QED BY <1>1, <3>1, <3>2 DEF WaitersInv
  <2>3. ToSet(r.read_wait) \subseteq WaitingIn(q)
    BY <1>3 DEF WaitingIn
  <2>. QED BY <2>1, <2>2, <2>3 DEF WaitingIn
<1>8. GrantedIn(r) = GrantedIn(q) \cup {r.write[i] : i \in 1 .. n}
  BY <1>2, <1>3, <1>4 DEF GrantedIn
<1>9. \A i \in 1 .. n, e \in GrantedIn(q) : r.write[i].owner # e.owner
  BY <1>1, <1>2, <1>4, <1>5 DEF WaitersInv
<1>10. EntriesInv(r)
  <2>1. Distinct(r.write)
    BY <1>4, <1>5, <1>6 DEF Distinct
  <2>2. \A e, f \in GrantedIn(r) : e.owner = f.owner /\ e.k = f.k => e = f
    <3>1. \A i, j \in 1 .. n : r.write[i].owner = r.write[j].owner => i = j
      BY <1>4, <1>5, <1>6
    <3>. QED BY <1>1, <1>8, <1>9, <3>1 DEF EntriesInv
  <2>3. \A e \in ToSet(r.read) \cup ToSet(r.read_wait) : IsRead(e.type)
    BY <1>1, <1>3 DEF EntriesInv
  <2>4. \A e \in ToSet(r.write) : ~IsRead(e.type)
    BY <1>4, <1>5
  <2>5. \A e \in ToSet(r.write_wait) : ~IsRead(e.type)
    <3>1. \A i \in (n + 1) .. Len(ww) : i \in 1 .. Len(ww)
      BY <1>2
    <3>. QED BY <1>2, <1>3, <3>1
  <2>. QED BY <1>1, <1>3, <2>1, <2>2, <2>3, <2>4, <2>5 DEF EntriesInv
<1>11. WaitersInv(r)
  BY <1>1, <1>5, <1>7, <1>8 DEF WaitersInv
<1>12. CountInv(r)
  BY <1>1, <1>3 DEF CountInv
<1>13. CompatibleInv(r)
  <2>. SUFFICES ASSUME NEW i \in 1 .. n, NEW e \in GrantedIn(r), r.write[i].owner # e.owner
                PROVE  Compatible(r.write[i], e)
    BY <1>4 DEF CompatibleInv
  <2>1. r.write[i].type = t /\ t \in Types
    BY <1>3, <1>5 DEF Entry, Types
  <2>2. CASE e \in GrantedIn(q)
    <3>1. e \in ToSet(q.read) /\ IsRead(e.type) /\ q.read # <<>>
      BY <1>1, <1>2, <2>2, EmptyFacts DEF EntriesInv
    <3>2. t \notin StrongTypes /\ (t = "TL_WRITE_CONCURRENT_INSERT" => ~NoInsert(e))
      BY <3>1 DEF ReadersAllow, r
    <3>. QED BY <2>1, <3>1, <3>2, TypeFacts DEF Compatible
  <2>3. ASSUME NEW j \in 1 .. n, e = r.write[j] PROVE Compatible(r.write[i], e)
    <3>1. i # j /\ t = "TL_WRITE_ALLOW_WRITE" /\ e.type = t /\ ~IsRead(e.type)
      BY <1>3, <1>5, <2>3
    <3>. QED BY <2>1, <3>1 DEF Compatible
  <2>. QED BY <1>8, <2>2, <2>3
<1>14. OrderInv(r)
  BY <1>3, <1>4 DEF OrderInv, NoStronger
<1>15. Moved(q, r)
  <2>1. ToSet(q.write) = {}
    BY EmptyFacts
  <2>2. \A i \in 1 .. n : \E e \in WaitingIn(q) : Became(e, r.write[i])
    BY <1>2, <1>3, <1>4
  <2>3. \A e \in WaitingIn(r) : Became(e, e)
    BY DEF Became
  <2>. QED BY <1>3, <1>7, <1>8, <2>1, <2>2, <2>3 DEF Moved
<1>. QED BY <1>10, <1>11, <1>12, <1>13, <1>14, <1>15 DEF QueueInv, r

LEMMA GrantTypes ==
  ASSUME NEW q, EntriesInv(q), q.write = <<>>, q.write_wait # <<>>, NEW unfit \in BOOLEAN
  PROVE  LET r == GrantWriters(q, unfit)
         IN /\ r.read = q.read /\ r.read_wait = q.read_wait /\ r.write # <<>>
            /\ r.write_lock_count = q.write_lock_count
            /\ \A w \in ToSet(r.write) : w.type = Last(r.write).type
            /\ Last(r.write).type \in Types /\ ~IsRead(Last(r.write).type)
            /\ ~unfit => Last(r.write).type = Head(q.write_wait).type
<1>. DEFINE r == GrantWriters(q, unfit)
            head == Head(q.write_wait)
            t == Last(r.write).type
<1>1. head \in Entry /\ ~IsRead(head.type)
  <2>1. q.write_wait \in Seq(Entry)
    BY QueueTypes DEF EntriesInv
  <2>. QED BY <2>1, TailFacts DEF EntriesInv
<1>2. PICK n \in 1 .. Len(q.write_wait) :
        /\ r \in THRLock /\ r.read = q.read /\ r.read_wait = q.read_wait /\ r.write # <<>>
        /\ r.write_lock_count = q.write_lock_count
        /\ Len(r.write) = n /\ \A i \in 1 .. n : r.write[i].type = t
        /\ Became(head, [head EXCEPT !.type = t])
        /\ t # head.type => unfit
  BY GrantFields
<1>. HIDE DEF r, head
<1>3. \A w \in ToSet(r.write) : w.type = t
  BY <1>2, QueueTypes, ToSetFacts
<1>4. t \in Types /\ ~IsRead(t)
  <2>1. PICK x : x = [head EXCEPT !.type = t]
    OBVIOUS
  <2>2. x \in Entry /\ ~IsRead(x.type)
    BY <1>1, <1>2, <2>1, BecameFacts
  <2>3. x.type = t
    BY <1>1, <2>1 DEF Entry
  <2>. QED BY <2>2, <2>3 DEF Entry, Types
<1>. QED BY <1>2, <1>3, <1>4 DEF r, head

LEMMA FreeReadersFacts ==
  ASSUME NEW q, QueueInv(q), NEW c \in BOOLEAN, LetsIn(q, c)
  PROVE  LET r == FreeReaders(q, c)
         IN /\ QueueInv(r) /\ Moved(q, r)
            /\ r.write = q.write /\ r.write_wait = q.write_wait
            /\ ~c => r.read_wait = <<>>
            /\ q.read # <<>> => r.read # <<>>
            /\ ~c /\ q.read_wait # <<>> => r.read # <<>>
<1>. DEFINE r == FreeReaders(q, c)
<1>1. CASE q.read_wait = <<>>
  <2>1. r = q
    BY <1>1 DEF FreeReaders
  <2>2. Moved(q, q)
    BY DEF Moved, Became
  <2>. QED BY <1>1, <2>1, <2>2
<1>2. CASE q.read_wait # <<>>
  <2>1. r = free_all_read_locks(q, c)
    BY <1>2 DEF FreeReaders
  <2>2. EntriesInv(q) /\ q \in THRLock
    BY DEF QueueInv, EntriesInv
  <2>3. QueueInv(r) /\ Moved(q, r)
    BY <2>1, <2>2, FreeKeeps, FreeMoves
  <2>4. /\ r \in THRLock /\ r.write = q.write /\ r.write_wait = q.write_wait
        /\ ToSet(r.read) = ToSet(q.read) \cup {e \in ToSet(q.read_wait) : ~(NoInsert(e) /\ c)}
        /\ ToSet(r.read_wait)
             = ToSet(q.read_wait) \ {e \in ToSet(q.read_wait) : ~(NoInsert(e) /\ c)}
    <3>. DEFINE f == free_all_read_locks(q, c)
    <3>1. /\ f \in THRLock /\ f.write = q.write /\ f.write_wait = q.write_wait
          /\ ToSet(f.read) = ToSet(q.read) \cup {e \in ToSet(q.read_wait) : ~(NoInsert(e) /\ c)}
          /\ ToSet(f.read_wait)
               = ToSet(q.read_wait) \ {e \in ToSet(q.read_wait) : ~(NoInsert(e) /\ c)}
      BY <2>2, FreeFields
    <3>2. r = f
      BY <2>1
    <3>. HIDE DEF f, r
    <3>. QED BY <3>1, <3>2
  <2>. HIDE DEF r
  <2>5. /\ r.read # <<>> <=> ToSet(r.read) # {}
        /\ r.read_wait # <<>> <=> ToSet(r.read_wait) # {}
        /\ q.read # <<>> <=> ToSet(q.read) # {}
        /\ q.read_wait # <<>> <=> ToSet(q.read_wait) # {}
    BY <2>2, <2>4, QueueTypes, ToSetFacts
  <2>6. /\ ~c => r.read_wait = <<>>
        /\ q.read # <<>> => r.read # <<>>
        /\ ~c /\ q.read_wait # <<>> => r.read # <<>>
    BY <2>4, <2>5
  <2>. QED BY <2>3, <2>4, <2>6 DEF r
<1>. QED BY <1>1, <1>2

LEMMA SetCountFacts ==
  ASSUME NEW q, QueueInv(q), NEW n \in 0 .. max_write_lock_count + 1
  PROVE  LET r == [q EXCEPT !.write_lock_count = n]
         IN /\ QueueInv(r) /\ Moved(q, r) /\ r.write_lock_count = n
            /\ r.read = q.read /\ r.write = q.write
            /\ r.read_wait = q.read_wait /\ r.write_wait = q.write_wait
<1>. DEFINE r == [q EXCEPT !.write_lock_count = n]
<1>1. /\ r \in THRLock /\ r.write_lock_count = n
      /\ r.read = q.read /\ r.write = q.write
      /\ r.read_wait = q.read_wait /\ r.write_wait = q.write_wait
      /\ r.read_no_write_count = q.read_no_write_count
  BY DEF QueueInv, EntriesInv, THRLock
<1>. HIDE DEF r
<1>2. GrantedIn(r) = GrantedIn(q) /\ WaitingIn(r) = WaitingIn(q)
  BY <1>1 DEF GrantedIn, WaitingIn
<1>3. Moved(q, r)
  BY <1>1, <1>2 DEF Moved, Became
<1>4. QueueInv(r)
  BY <1>1, <1>2 DEF QueueInv, EntriesInv, WaitersInv, CountInv, CompatibleInv, OrderInv
<1>. QED BY <1>1, <1>3, <1>4 DEF r

LEMMA WakeFreeFacts ==
  ASSUME NEW q, QueueInv(q), NEW unfit \in BOOLEAN, q.write = <<>>, q.read = <<>>
  PROVE  LET r == WakeFree(q, unfit) IN QueueInv(r) /\ Moved(q, r) /\ Awake(r)
<1>. DEFINE r == WakeFree(q, unfit)
            tooMany == q.write_lock_count > max_write_lock_count
            one == [q EXCEPT !.write_lock_count = IF tooMany THEN 0 ELSE @ + 1]
            next == GrantWriters(one, unfit)
            type == Last(next.write).type
<1>1. q \in THRLock /\ WaitingIn(q) \subseteq Entry
  BY QueueTypes DEF QueueInv, EntriesInv
<1>2. \A c \in BOOLEAN : LetsIn(q, c)
  BY EmptyFacts DEF LetsIn
<1>3. /\ QueueInv(FreeReaders(q, FALSE)) /\ Moved(q, FreeReaders(q, FALSE))
      /\ FreeReaders(q, FALSE).read_wait = <<>>
      /\ FreeReaders(q, FALSE).write_wait = q.write_wait
      /\ q.read_wait # <<>> => FreeReaders(q, FALSE).read # <<>>
  BY <1>2, FreeReadersFacts
<1>4. CASE \/ q.write_wait = <<>>
           \/ /\ Head(q.write_wait).type = "TL_WRITE_LOW_PRIORITY"
              /\ q.read_wait # <<>>
              /\ Rank[Head(q.read_wait).type] >= Rank["TL_READ_HIGH_PRIORITY"]
  <2>1. r = FreeReaders(q, FALSE)
    BY <1>4 DEF WakeFree
  <2>. QED BY <1>3, <1>4, <2>1 DEF Awake
<1>5. CASE /\ ~(\/ q.write_wait = <<>>
                \/ /\ Head(q.write_wait).type = "TL_WRITE_LOW_PRIORITY"
                   /\ q.read_wait # <<>>
                   /\ Rank[Head(q.read_wait).type] >= Rank["TL_READ_HIGH_PRIORITY"])
           /\ tooMany /\ q.read_wait # <<>>
  <2>. DEFINE zero == [q EXCEPT !.write_lock_count = 0]
  <2>1. r = free_all_read_locks(zero, FALSE)
    BY <1>5 DEF WakeFree
  <2>2. 0 \in 0 .. max_write_lock_count + 1
    BY LocksAssumption
  <2>3. /\ QueueInv(zero) /\ Moved(q, zero) /\ zero.write = <<>>
        /\ zero.read_wait = q.read_wait /\ zero.write_wait = q.write_wait
    BY <2>2, SetCountFacts
  <2>. HIDE DEF zero
  <2>4. r = FreeReaders(zero, FALSE)
    BY <1>5, <2>1, <2>3 DEF FreeReaders
  <2>5. LetsIn(zero, FALSE)
    BY <2>3, EmptyFacts DEF LetsIn
  <2>6. QueueInv(r) /\ Moved(zero, r) /\ r.read_wait = <<>> /\ r.read # <<>>
    BY <1>5, <2>3, <2>4, <2>5, FreeReadersFacts
  <2>7. Moved(q, r)
    BY <1>1, <2>3, <2>6, MovedTransitive
  <2>. QED BY <2>6, <2>7 DEF Awake
<1>6. CASE /\ ~(\/ q.write_wait = <<>>
                \/ /\ Head(q.write_wait).type = "TL_WRITE_LOW_PRIORITY"
                   /\ q.read_wait # <<>>
                   /\ Rank[Head(q.read_wait).type] >= Rank["TL_READ_HIGH_PRIORITY"])
           /\ ~(tooMany /\ q.read_wait # <<>>)
  <2>1. r = IF Rank[type] >= Rank["TL_WRITE_LOW_PRIORITY"] THEN next
            ELSE FreeReaders(next, type \in Sharing)
    BY <1>6 DEF WakeFree
  <2>2. (IF tooMany THEN 0 ELSE q.write_lock_count + 1) \in 0 .. max_write_lock_count + 1
    BY <1>1, QueueTypes, LocksAssumption
  <2>3. /\ QueueInv(one) /\ Moved(q, one) /\ one.write = <<>> /\ one.read = <<>>
        /\ one.write_wait = q.write_wait
    BY <2>2, SetCountFacts
  <2>. HIDE DEF one
  <2>4. EntriesInv(one) /\ one.write_wait # <<>>
    BY <1>6, <2>3 DEF QueueInv
  <2>5. /\ next.write # <<>> /\ \A w \in ToSet(next.write) : w.type = type
        /\ type \in Types
    BY <2>3, <2>4, GrantTypes
  <2>6. QueueInv(next) /\ Moved(one, next)
    BY <2>3, <2>4, GrantKeeps DEF ReadersAllow
  <2>7. Moved(q, next)
    BY <1>1, <2>3, <2>6, MovedTransitive
  <2>. HIDE DEF next, type
  <2>8. CASE Rank[type] >= Rank["TL_WRITE_LOW_PRIORITY"]
    BY <2>1, <2>5, <2>6, <2>7, <2>8 DEF Awake
  <2>9. CASE ~(Rank[type] >= Rank["TL_WRITE_LOW_PRIORITY"])
    <3>1. type \notin StrongTypes
      BY <2>5, <2>9, TypeFacts
    <3>2. LetsIn(next, type \in Sharing) /\ (type \in Sharing) \in BOOLEAN
      BY <2>5, <3>1 DEF LetsIn, Sharing
    <3>3. /\ QueueInv(FreeReaders(next, type \in Sharing))
          /\ Moved(next, FreeReaders(next, type \in Sharing))
          /\ FreeReaders(next, type \in Sharing).write = next.write
      BY <2>6, <3>2, FreeReadersFacts
    <3>4. Moved(q, FreeReaders(next, type \in Sharing))
      BY <1>1, <2>7, <3>3, MovedTransitive
    <3>. QED BY <2>1, <2>5, <2>9, <3>3, <3>4 DEF Awake
  <2>. QED BY <2>8, <2>9
<1>. QED BY <1>4, <1>5, <1>6

(* A queued TL_WRITE_CONCURRENT_INSERT that has become TL_WRITE.           *)
LEMMA RetypeFacts ==
  ASSUME NEW q, QueueInv(q), q.write_wait # <<>>,
         Head(q.write_wait).type = "TL_WRITE_CONCURRENT_INSERT"
  PROVE  LET r == [q EXCEPT !.write_wait[1].type = "TL_WRITE"]
         IN /\ QueueInv(r) /\ Moved(q, r)
            /\ r.read = q.read /\ r.write = q.write /\ r.read_wait = q.read_wait
            /\ r.write_wait # <<>>
<1>. DEFINE r == [q EXCEPT !.write_wait[1].type = "TL_WRITE"]
            ww == q.write_wait
            N == Len(ww)
            head == ww[1]
            x == [head EXCEPT !.type = "TL_WRITE"]
            xs == [ww EXCEPT ![1] = x]
<1>1. EntriesInv(q) /\ WaitersInv(q) /\ CountInv(q) /\ CompatibleInv(q) /\ OrderInv(q)
  BY DEF QueueInv
<1>2. /\ q \in THRLock /\ ww \in Seq(Entry) /\ Distinct(ww)
      /\ \A e \in ToSet(ww) : e \in Entry /\ ~IsRead(e.type)
  BY <1>1, QueueTypes DEF EntriesInv, WaitingIn
<1>3. /\ N \in Nat \ {0} /\ DOMAIN ww = 1 .. N /\ Head(ww) = ww[1]
      /\ \A i \in 1 .. N : ww[i] \in Entry /\ ~IsRead(ww[i].type) /\ ww[i] \in WaitingIn(q)
  <2>1. N \in Nat /\ N # 0 /\ DOMAIN ww = 1 .. N /\ Head(ww) = ww[1]
    BY <1>2, LenProperties, EmptySeq
  <2>. QED BY <1>2, <2>1 DEF ToSet, WaitingIn
<1>4. /\ Became(head, x) /\ x \in Entry /\ ~IsRead(x.type)
      /\ x.owner = head.owner /\ x.k = head.k
  <2>1. Became(head, x)
    BY <1>3 DEF Became
  <2>2. head \in Entry /\ ~IsRead(head.type)
    BY <1>3
  <2>. HIDE DEF head, x
  <2>. QED BY <2>1, <2>2, BecameFacts
<1>5. /\ xs \in Seq(Entry) /\ Len(xs) = N /\ DOMAIN xs = 1 .. N
      /\ \A i \in 1 .. N : xs[i] = IF i = 1 THEN x ELSE ww[i]
  <2>. HIDE DEF x
  <2>1. xs \in [1 .. N -> Entry] /\ \A i \in 1 .. N : xs[i] = IF i = 1 THEN x ELSE ww[i]
    BY <1>3, <1>4
  <2>2. xs \in Seq(Entry)
    BY <1>3, <2>1, SeqDef
  <2>3. DOMAIN xs = 1 .. N /\ Len(xs) \in Nat /\ DOMAIN xs = 1 .. Len(xs)
    BY <2>1, <2>2, LenProperties
  <2>. HIDE DEF xs
  <2>. QED BY <1>3, <2>1, <2>2, <2>3
<1>6. /\ r \in THRLock /\ r.read = q.read /\ r.write = q.write /\ r.read_wait = q.read_wait
      /\ r.write_wait = xs
      /\ r.read_no_write_count = q.read_no_write_count
  <2>1. r = [q EXCEPT !.write_wait = xs]
    BY <1>2 DEF THRLock
  <2>. HIDE DEF xs, r
  <2>. QED BY <1>2, <1>5, <2>1 DEF THRLock
<1>. HIDE DEF r, x, xs
<1>7. /\ ToSet(xs) = {xs[i] : i \in 1 .. N} /\ \A i \in 1 .. N : Became(ww[i], xs[i])
      /\ \A i \in 1 .. N : xs[i].owner = ww[i].owner /\ ~IsRead(xs[i].type)
  <2>1. \A i \in 1 .. N : Became(ww[i], ww[i])
    BY DEF Became
  <2>. QED BY <1>3, <1>4, <1>5, <2>1 DEF ToSet
<1>8. \A i, j \in 1 .. N : ww[i].owner = ww[j].owner => i = j
  BY <1>1, <1>2, <1>3 DEF WaitersInv, Distinct
<1>9. GrantedIn(r) = GrantedIn(q)
  BY <1>6 DEF GrantedIn
<1>10. \A f \in WaitingIn(r) : \E e \in WaitingIn(q) : Became(e, f)
  <2>1. \A e \in ToSet(q.read_wait) : Became(e, e)
    BY DEF Became
  <2>. QED BY <1>3, <1>6, <1>7, <2>1 DEF WaitingIn
<1>11. EntriesInv(r)
  <2>1. Distinct(xs)
    BY <1>5, <1>7, <1>8 DEF Distinct
  <2>2. \A e \in ToSet(xs) : ~IsRead(e.type)
    BY <1>7
  <2>. QED BY <1>1, <1>6, <1>9, <2>1, <2>2 DEF EntriesInv
<1>12. WaitersInv(r)
  <2>1. \A i \in 1 .. N, e \in ToSet(q.read_wait) : ww[i].owner # e.owner
    BY <1>1, <1>3 DEF WaitersInv, EntriesInv, WaitingIn
  <2>2. \A e, f \in WaitingIn(r) : e.owner = f.owner => e = f
    <3>1. WaitingIn(r) = ToSet(q.read_wait) \cup {xs[i] : i \in 1 .. N}
      BY <1>6, <1>7 DEF WaitingIn
    <3>2. \A e, f \in ToSet(q.read_wait) : e.owner = f.owner => e = f
      BY <1>1 DEF WaitersInv, WaitingIn
    <3>. QED BY <1>7, <1>8, <2>1, <3>1, <3>2
  <2>3. \A e \in WaitingIn(r), f \in GrantedIn(r) : e.owner # f.owner
    BY <1>1, <1>3, <1>6, <1>7, <1>9 DEF WaitersInv, WaitingIn
  <2>. QED BY <2>2, <2>3 DEF WaitersInv
<1>13. CountInv(r) /\ CompatibleInv(r) /\ OrderInv(r)
  BY <1>1, <1>6, <1>9 DEF CountInv, CompatibleInv, OrderInv
<1>14. Moved(q, r)
  BY <1>6, <1>9, <1>10 DEF Moved
<1>15. r.write_wait # <<>>
  BY <1>3, <1>5, <1>6, EmptySeq
<1>. QED BY <1>6, <1>11, <1>12, <1>13, <1>14, <1>15 DEF QueueInv, r

LEMMA CountZero ==
  ASSUME NEW q, QueueInv(q), q.read_no_write_count = 0
  PROVE  \A e \in ToSet(q.read) : ~NoInsert(e)
<1>. SUFFICES ASSUME NEW e \in ToSet(q.read), NoInsert(e) PROVE FALSE
  OBVIOUS
<1>. DEFINE A == {x \in ToSet(q.read) : NoInsert(x)}
<1>1. A \in SUBSET ToSet(q.read) /\ A # {}
  OBVIOUS
<1>2. IsFiniteSet(ToSet(q.read))
  BY QueueTypes, CountNoInsertFacts DEF QueueInv, EntriesInv
<1>3. IsFiniteSet(A)
  BY <1>1, <1>2, FS_Subset
<1>4. Cardinality(A) = 0
  BY DEF QueueInv, CountInv
<1>. HIDE DEF A
<1>. QED BY <1>1, <1>3, <1>4, FS_EmptySet

LEMMA WakeBesideFacts ==
  ASSUME NEW q, QueueInv(q), NEW unfit \in BOOLEAN, q.write = <<>>, q.read # <<>>
  PROVE  LET r == WakeBesideReaders(q, unfit) IN QueueInv(r) /\ Moved(q, r) /\ Awake(r)
<1>. DEFINE r == WakeBesideReaders(q, unfit)
            head == Head(q.write_wait)
<1>1. /\ q \in THRLock /\ WaitingIn(q) \subseteq Entry /\ EntriesInv(q) /\ CountInv(q)
  BY QueueTypes DEF QueueInv, EntriesInv
<1>2. \A c \in BOOLEAN : LetsIn(q, c)
  BY EmptyFacts DEF LetsIn
<1>3. CASE q.write_wait = <<>>
  <2>1. r = FreeReaders(q, FALSE)
    BY <1>3 DEF WakeBesideReaders
  <2>2. QueueInv(r) /\ Moved(q, r) /\ r.read_wait = <<>> /\ r.read # <<>>
    BY <1>2, <2>1, FreeReadersFacts
  <2>. QED BY <2>2 DEF Awake
<1>4. CASE /\ q.write_wait # <<>>
           /\ \/ Rank[head.type] > Rank["TL_WRITE_DELAYED"]
              \/ head.type \in Sharing /\ q.read_no_write_count > 0
  <2>1. r = q
    BY <1>4 DEF WakeBesideReaders
  <2>2. Moved(q, q)
    BY DEF Moved, Became
  <2>. QED BY <1>4, <2>1, <2>2 DEF Awake
<1>5. CASE /\ q.write_wait # <<>>
           /\ ~(\/ Rank[head.type] > Rank["TL_WRITE_DELAYED"]
                \/ head.type \in Sharing /\ q.read_no_write_count > 0)
           /\ head.type = "TL_WRITE_CONCURRENT_INSERT" /\ unfit
  <2>. DEFINE p == [q EXCEPT !.write_wait[1].type = "TL_WRITE"]
  <2>1. r = FreeReaders(p, FALSE)
    BY <1>5 DEF WakeBesideReaders
  <2>2. /\ QueueInv(p) /\ Moved(q, p) /\ p.read # <<>> /\ p.write = <<>> /\ p.write_wait # <<>>
    BY <1>5, RetypeFacts
  <2>. HIDE DEF p
  <2>3. LetsIn(p, FALSE)
    BY <2>2, EmptyFacts DEF LetsIn
  <2>4. QueueInv(r) /\ Moved(p, r) /\ r.write_wait = p.write_wait /\ r.read # <<>>
    BY <2>1, <2>2, <2>3, FreeReadersFacts
  <2>5. Moved(q, r)
    BY <1>1, <2>2, <2>4, MovedTransitive
  <2>. QED BY <2>2, <2>4, <2>5 DEF Awake
<1>6. CASE /\ q.write_wait # <<>>
           /\ ~(\/ Rank[head.type] > Rank["TL_WRITE_DELAYED"]
                \/ head.type \in Sharing /\ q.read_no_write_count > 0)
           /\ ~(head.type = "TL_WRITE_CONCURRENT_INSERT" /\ unfit)
  <2>. DEFINE next == GrantWriters(q, FALSE)
              type == Last(next.write).type
  <2>1. r = FreeReaders(next, head.type \in Sharing)
    BY <1>6 DEF WakeBesideReaders
  <2>2. /\ next.write # <<>> /\ \A w \in ToSet(next.write) : w.type = type
        /\ type \in Types /\ type = head.type
    BY <1>1, <1>6, GrantTypes
  <2>3. type \notin StrongTypes
    BY <1>6, <2>2, TypeFacts
  <2>4. type = "TL_WRITE_CONCURRENT_INSERT" => \A e \in ToSet(q.read) : ~NoInsert(e)
    <3>1. q.read_no_write_count \in Nat
      BY <1>1, QueueTypes
    <3>2. type = "TL_WRITE_CONCURRENT_INSERT" => q.read_no_write_count = 0
      <4>. SUFFICES ASSUME type = "TL_WRITE_CONCURRENT_INSERT" PROVE q.read_no_write_count = 0
        OBVIOUS
      <4>1. head.type \in Sharing
        BY <2>2 DEF Sharing
      <4>2. ~(q.read_no_write_count > 0)
        BY <1>6, <4>1
      <4>. QED BY <3>1, <4>2
    <3>. QED BY <3>2, CountZero
  <2>5. QueueInv(next) /\ Moved(q, next)
    BY <1>6, <2>3, <2>4, GrantKeeps DEF ReadersAllow
  <2>. HIDE DEF next, type
  <2>6. LetsIn(next, type \in Sharing) /\ (type \in Sharing) \in BOOLEAN
    BY <2>2, <2>3 DEF LetsIn, Sharing
  <2>7. QueueInv(r) /\ Moved(next, r) /\ r.write = next.write
    BY <2>1, <2>2, <2>5, <2>6, FreeReadersFacts
  <2>8. Moved(q, r)
    BY <1>1, <2>5, <2>7, MovedTransitive
  <2>. QED BY <2>2, <2>7, <2>8 DEF Awake
<1>. QED BY <1>3, <1>4, <1>5, <1>6

(* wake_up_waiters() grants what may run, and leaves nobody forgotten.     *)
LEMMA WakeFacts ==
  ASSUME NEW q, QueueInv(q), NEW unfit \in BOOLEAN
  PROVE  LET r == wake_up_waiters(q, unfit) IN QueueInv(r) /\ Moved(q, r) /\ Awake(r)
<1>1. CASE q.write # <<>>
  <2>1. Moved(q, q)
    BY DEF Moved, Became
  <2>. QED BY <1>1, <2>1 DEF wake_up_waiters, Awake
<1>2. CASE q.write = <<>> /\ q.read = <<>>
  BY <1>2, WakeFreeFacts DEF wake_up_waiters
<1>3. CASE q.write = <<>> /\ q.read # <<>>
  BY <1>3, WakeBesideFacts DEF wake_up_waiters
<1>. QED BY <1>1, <1>2, <1>3

-----------------------------------------------------------------------------
(* Requests that leave a THR_LOCK, and requests that come.                 *)

LEMMA FewerFacts ==
  ASSUME NEW q, QueueInv(q), NEW r \in THRLock,
         ToSet(r.read) \subseteq ToSet(q.read), ToSet(r.write) \subseteq ToSet(q.write),
         ToSet(r.read_wait) \subseteq ToSet(q.read_wait),
         ToSet(r.write_wait) \subseteq ToSet(q.write_wait),
         Distinct(r.read), Distinct(r.write), Distinct(r.read_wait), Distinct(r.write_wait),
         CountInv(r), OrderInv(r)
  PROVE  QueueInv(r)
<1>1. GrantedIn(r) \subseteq GrantedIn(q) /\ WaitingIn(r) \subseteq WaitingIn(q)
  BY DEF GrantedIn, WaitingIn
<1>2. EntriesInv(r)
  BY <1>1 DEF QueueInv, EntriesInv
<1>3. WaitersInv(r)
  BY <1>1 DEF QueueInv, WaitersInv
<1>4. CompatibleInv(r)
  BY <1>1 DEF QueueInv, CompatibleInv
<1>. QED BY <1>2, <1>3, <1>4 DEF QueueInv

LEMMA OrderKept ==
  ASSUME NEW q, QueueInv(q), NEW P, P \subseteq DOMAIN q.write, NEW r,
         r.write = Sublist(q.write, P)
  PROVE  OrderInv(r)
<1>1. q.write \in Seq(Entry)
  BY QueueTypes DEF QueueInv, EntriesInv
<1>. SUFFICES ASSUME NEW i \in DOMAIN r.write, NEW j \in DOMAIN r.write, i < j
              PROVE  NoStronger(r.write[j].type, r.write[i].type)
  BY DEF OrderInv
<1>2. PICK a, b \in P : a < b /\ r.write[i] = q.write[a] /\ r.write[j] = q.write[b]
  BY <1>1, SublistOrder
<1>. QED BY <1>2 DEF QueueInv, OrderInv

LEMMA WithoutFacts ==
  ASSUME NEW s \in Seq(Entry), Distinct(s), NEW o, NEW k
  PROVE  /\ Without(s, o, k) \in Seq(Entry) /\ Distinct(Without(s, o, k))
         /\ ToSet(Without(s, o, k)) = {e \in ToSet(s) : ~Is(e, o, k)}
         /\ \E P : P \subseteq DOMAIN s /\ Without(s, o, k) = Sublist(s, P)
<1>. DEFINE P == {i \in DOMAIN s : ~Is(s[i], o, k)}
<1>1. P \subseteq DOMAIN s /\ Without(s, o, k) = Sublist(s, P)
  BY DEF Without
<1>2. {s[i] : i \in P} = {e \in ToSet(s) : ~Is(e, o, k)}
  BY DEF ToSet
<1>. HIDE DEF P
<1>3. Sublist(s, P) \in Seq(Entry) /\ ToSet(Sublist(s, P)) = {s[i] : i \in P}
      /\ Distinct(Sublist(s, P))
  BY <1>1, SublistFacts
<1>. QED BY <1>1, <1>2, <1>3

(* thr_lock() grants a read lock.                                          *)
LEMMA AddReadFacts ==
  ASSUME NEW q, QueueInv(q), NEW e \in Entry, IsRead(e.type),
         \A f \in GrantedIn(q) : ~(f.owner = e.owner /\ f.k = e.k),
         \A f \in WaitingIn(q) : f.owner # e.owner,
         \A w \in ToSet(q.write) : w.owner # e.owner => Compatible(w, e)
  PROVE  LET r == [q EXCEPT !.read = Append(@, e),
                            !.read_no_write_count = @ + (IF NoInsert(e) THEN 1 ELSE 0)]
         IN /\ QueueInv(r) /\ r.write = q.write /\ r.read # <<>>
            /\ ToSet(r.read) = ToSet(q.read) \cup {e}
            /\ r.read_wait = q.read_wait /\ r.write_wait = q.write_wait
            /\ r.write_lock_count = q.write_lock_count
<1>. DEFINE n == q.read_no_write_count + (IF NoInsert(e) THEN 1 ELSE 0)
            s == Append(q.read, e)
            r == [q EXCEPT !.read = Append(@, e),
                           !.read_no_write_count = @ + (IF NoInsert(e) THEN 1 ELSE 0)]
<1>1. EntriesInv(q) /\ WaitersInv(q) /\ CountInv(q) /\ CompatibleInv(q) /\ OrderInv(q)
  BY DEF QueueInv
<1>2. q \in THRLock /\ q.read \in Seq(Entry) /\ q.read_no_write_count \in Nat
      /\ e \notin ToSet(q.read)
  BY <1>1, QueueTypes DEF EntriesInv, GrantedIn
<1>3. s \in Seq(Entry) /\ ToSet(s) = ToSet(q.read) \cup {e} /\ Distinct(s) /\ n \in Nat
  BY <1>1, <1>2, AppendFacts DEF EntriesInv
<1>4. s # <<>>
  BY <1>2, AppendProperties
<1>5. /\ r \in THRLock /\ r.read = s /\ r.write = q.write
      /\ r.read_wait = q.read_wait /\ r.write_wait = q.write_wait
      /\ r.read_no_write_count = n /\ r.write_lock_count = q.write_lock_count
  <2>1. r = [q EXCEPT !.read = s, !.read_no_write_count = n]
    OBVIOUS
  <2>. HIDE DEF r, s, n
  <2>. QED BY <1>2, <1>3, <2>1 DEF THRLock
<1>. HIDE DEF r, s
<1>6. GrantedIn(r) = GrantedIn(q) \cup {e} /\ WaitingIn(r) = WaitingIn(q)
  BY <1>3, <1>5 DEF GrantedIn, WaitingIn
<1>7. EntriesInv(r)
  BY <1>1, <1>3, <1>5, <1>6 DEF EntriesInv
<1>8. WaitersInv(r)
  BY <1>1, <1>6 DEF WaitersInv
<1>9. CountInv(r)
  <2>. DEFINE A == {x \in ToSet(q.read) : NoInsert(x)}
              B == {x \in ToSet(r.read) : NoInsert(x)}
  <2>1. IsFiniteSet(ToSet(q.read)) /\ A \in SUBSET ToSet(q.read)
    BY <1>1, <1>2, CountNoInsertFacts DEF EntriesInv
  <2>2. IsFiniteSet(A) /\ e \notin A
    BY <1>2, <2>1, FS_Subset
  <2>3. /\ NoInsert(e) => B = A \cup {e}
        /\ ~NoInsert(e) => B = A
    BY <1>3, <1>5
  <2>4. q.read_no_write_count = Cardinality(A)
    BY <1>1 DEF CountInv
  <2>. HIDE DEF A, B
  <2>5. Cardinality(A \cup {e}) = Cardinality(A) + 1
    BY <2>2, FS_AddElement
  <2>6. CASE NoInsert(e)
    BY <1>5, <2>3, <2>4, <2>5, <2>6 DEF CountInv, B
  <2>7. CASE ~NoInsert(e)
    <3>1. n = q.read_no_write_count
      BY <1>2, <2>7
    <3>. HIDE DEF n
    <3>. QED BY <1>5, <2>3, <2>4, <2>7, <3>1 DEF CountInv, B
  <2>. QED BY <2>6, <2>7
<1>10. CompatibleInv(r)
  BY <1>1, <1>5, <1>6 DEF CompatibleInv
<1>11. OrderInv(r)
  BY <1>1, <1>5 DEF OrderInv
<1>. QED BY <1>3, <1>4, <1>5, <1>7, <1>8, <1>9, <1>10, <1>11 DEF QueueInv, r

(* thr_lock() grants a write lock.                                         *)
LEMMA AddWriteFacts ==
  ASSUME NEW q, QueueInv(q), NEW e \in Entry, ~IsRead(e.type),
         \A f \in GrantedIn(q) : ~(f.owner = e.owner /\ f.k = e.k),
         \A f \in WaitingIn(q) : f.owner # e.owner,
         \A w \in ToSet(q.write) : w.owner # e.owner => Compatible(w, e),
         \A f \in GrantedIn(q) : f.owner # e.owner => Compatible(e, f),
         \A w \in ToSet(q.write) : NoStronger(e.type, w.type)
  PROVE  LET r == [q EXCEPT !.write = Append(@, e)]
         IN /\ QueueInv(r) /\ r.read = q.read /\ r.write # <<>>
            /\ ToSet(r.write) = ToSet(q.write) \cup {e}
            /\ r.read_wait = q.read_wait /\ r.write_wait = q.write_wait
            /\ r.write_lock_count = q.write_lock_count
<1>. DEFINE s == Append(q.write, e)
            r == [q EXCEPT !.write = Append(@, e)]
<1>1. EntriesInv(q) /\ WaitersInv(q) /\ CountInv(q) /\ CompatibleInv(q) /\ OrderInv(q)
  BY DEF QueueInv
<1>2. q \in THRLock /\ q.write \in Seq(Entry) /\ e \notin ToSet(q.write)
  BY <1>1, QueueTypes DEF EntriesInv, GrantedIn
<1>3. s \in Seq(Entry) /\ ToSet(s) = ToSet(q.write) \cup {e} /\ Distinct(s)
  BY <1>1, <1>2, AppendFacts DEF EntriesInv
<1>4. s # <<>> /\ Len(s) = Len(q.write) + 1 /\ s[Len(q.write) + 1] = e
      /\ \A i \in 1 .. Len(q.write) : s[i] = q.write[i]
  BY <1>2, AppendProperties
<1>5. /\ r \in THRLock /\ r.write = s /\ r.read = q.read
      /\ r.read_wait = q.read_wait /\ r.write_wait = q.write_wait
      /\ r.read_no_write_count = q.read_no_write_count /\ r.write_lock_count = q.write_lock_count
  <2>1. r = [q EXCEPT !.write = s]
    OBVIOUS
  <2>. HIDE DEF r, s
  <2>. QED BY <1>2, <1>3, <2>1 DEF THRLock
<1>. HIDE DEF r, s
<1>6. GrantedIn(r) = GrantedIn(q) \cup {e} /\ WaitingIn(r) = WaitingIn(q)
  BY <1>3, <1>5 DEF GrantedIn, WaitingIn
<1>7. EntriesInv(r)
  BY <1>1, <1>3, <1>5, <1>6 DEF EntriesInv
<1>8. WaitersInv(r)
  BY <1>1, <1>6 DEF WaitersInv
<1>9. CountInv(r)
  BY <1>1, <1>5 DEF CountInv
<1>10. CompatibleInv(r)
  <2>1. \A w \in ToSet(q.write), f \in GrantedIn(q) : w.owner # f.owner => Compatible(w, f)
    BY <1>1 DEF CompatibleInv
  <2>. QED BY <1>3, <1>5, <1>6, <2>1 DEF CompatibleInv
<1>11. OrderInv(r)
  <2>1. DOMAIN q.write = 1 .. Len(q.write) /\ DOMAIN s = 1 .. Len(s) /\ Len(q.write) \in Nat
    BY <1>2, <1>3, LenProperties
  <2>. SUFFICES ASSUME NEW i \in DOMAIN s, NEW j \in DOMAIN s, i < j
                PROVE  NoStronger(s[j].type, s[i].type)
    BY <1>5 DEF OrderInv
  <2>2. i \in 1 .. Len(q.write) /\ s[i] = q.write[i] /\ q.write[i] \in ToSet(q.write)
    BY <1>4, <2>1 DEF ToSet
  <2>3. CASE j = Len(q.write) + 1
    BY <1>4, <2>2, <2>3
  <2>4. CASE j # Len(q.write) + 1
    BY <1>1, <1>4, <2>1, <2>2, <2>4 DEF OrderInv
  <2>. QED BY <2>3, <2>4
<1>. QED BY <1>3, <1>4, <1>5, <1>7, <1>8, <1>9, <1>10, <1>11 DEF QueueInv, r

(* A request of a thread that has none on the table joins a queue.         *)
LEMMA MoreWaiters ==
  ASSUME NEW q, QueueInv(q), NEW e \in Entry, NEW r \in THRLock,
         \A f \in GrantedIn(q) \cup WaitingIn(q) : f.owner # e.owner,
         r.read = q.read, r.write = q.write, r.read_no_write_count = q.read_no_write_count,
         Distinct(r.read_wait), Distinct(r.write_wait),
         \/ /\ IsRead(e.type) /\ ToSet(r.read_wait) = ToSet(q.read_wait) \cup {e}
            /\ r.write_wait = q.write_wait
         \/ /\ ~IsRead(e.type) /\ ToSet(r.write_wait) = ToSet(q.write_wait) \cup {e}
            /\ r.read_wait = q.read_wait
  PROVE  QueueInv(r) /\ GrantedIn(r) = GrantedIn(q) /\ WaitingIn(r) = WaitingIn(q) \cup {e}
<1>1. EntriesInv(q) /\ WaitersInv(q) /\ CountInv(q) /\ CompatibleInv(q) /\ OrderInv(q)
  BY DEF QueueInv
<1>2. GrantedIn(r) = GrantedIn(q) /\ WaitingIn(r) = WaitingIn(q) \cup {e}
  BY DEF GrantedIn, WaitingIn
<1>3. EntriesInv(r)
  BY <1>1, <1>2 DEF EntriesInv
<1>4. WaitersInv(r)
  BY <1>1, <1>2 DEF WaitersInv
<1>5. CountInv(r) /\ CompatibleInv(r) /\ OrderInv(r)
  BY <1>1, <1>2 DEF CountInv, CompatibleInv, OrderInv
<1>. QED BY <1>2, <1>3, <1>4, <1>5 DEF QueueInv

-----------------------------------------------------------------------------
(* A step of thread o on a THR_LOCK.                                       *)

(* r is q after o has changed its own requests, and others were granted.   *)
Follows(q, r, o) ==
  /\ \A e \in ToSet(q.read) : e.owner # o => e \in ToSet(r.read)
  /\ \A e \in ToSet(q.write) : e.owner # o => e \in ToSet(r.write)
  /\ \A f \in GrantedIn(r) :
       f.owner # o => f \in GrantedIn(q) \/ \E e \in WaitingIn(q) : Became(e, f)
  /\ \A f \in WaitingIn(r) : f.owner # o => \E e \in WaitingIn(q) : Became(e, f)

LEMMA InvFacts ==
  ASSUME ThrLockInv
  PROVE  /\ \A o \in Threads : ThreadInv(o) /\ HoldsInv(o)
         /\ \A l \in Locks : /\ QueueInv(locks[l]) /\ Awake(locks[l]) /\ locks[l] \in THRLock
                             /\ GrantedIn(locks[l]) \subseteq Entry
                             /\ WaitingIn(locks[l]) \subseteq Entry
                             /\ \A e \in GrantedIn(locks[l]) : EntryInv(l, e)
                             /\ \A e \in WaitingIn(locks[l]) : EntryInv(l, e) /\ QueuedInv(l, e)
BY QueueTypes DEF ThrLockInv, LockInv

LEMMA BecameEntry ==
  ASSUME NEW e \in Entry, NEW f, NEW l, Became(e, f), EntryInv(l, e)
  PROVE  /\ f \in Entry /\ f.owner = e.owner /\ f.k = e.k /\ EntryInv(l, f)
         /\ QueuedInv(l, e) => QueuedInv(l, f)
<1>1. CASE f = e
  BY <1>1
<1>2. CASE f # e
  <2>1. e.type = "TL_WRITE_CONCURRENT_INSERT" /\ f = [e EXCEPT !.type = "TL_WRITE"]
    BY <1>2 DEF Became
  <2>2. f \in Entry /\ f.owner = e.owner /\ f.k = e.k /\ f.type = "TL_WRITE"
    BY <2>1, TypeFacts DEF Entry, Types, StrongTypes
  <2>3. EntryOf(l, f, data[e.owner])
    BY <2>1, <2>2 DEF EntryInv, EntryOf, StrongTypes
  <2>4. EntryInv(l, f)
    <3>1. e.owner \notin Handlers
      BY <2>1, HandlerTypes DEF EntryInv
    <3>. QED BY <2>1, <2>2, <2>3, <3>1 DEF EntryInv
  <2>. QED BY <2>2, <2>4 DEF QueuedInv
<1>. QED BY <1>1, <1>2

LEMMA StepKeeps ==
  ASSUME ThrLockInv, NEW o \in Threads, NEW l \in Locks, NEW r,
         locks' = [locks EXCEPT ![l] = r],
         pc' \in [Threads -> Positions], data' \in [Threads -> Seq(THRLockData)],
         todo' \in [Threads -> Seq(THRLockData)], overtaken' \in [Threads -> Nat],
         \A p \in Threads \ {o} : pc'[p] = pc[p] /\ data'[p] = data[p] /\ todo'[p] = todo[p],
         QueueInv(r), Awake(r), Follows(locks[l], r, o),
         ThreadInv(o)', HoldsInv(o)',
         \A m \in Locks : \A e \in GrantedIn(locks'[m]) : e.owner = o => EntryInv(m, e)',
         \A m \in Locks : \A e \in WaitingIn(locks'[m]) :
            e.owner = o => EntryInv(m, e)' /\ QueuedInv(m, e)'
  PROVE  ThrLockInv'
<1>1. /\ locks \in [Locks -> THRLock] /\ r \in THRLock
      /\ locks'[l] = r /\ \A m \in Locks : m # l => locks'[m] = locks[m]
      /\ locks' \in [Locks -> THRLock]
  BY DEF ThrLockInv, QueueInv, EntriesInv
<1>2. ASSUME NEW e \in Entry, NEW m \in Locks, e.owner # o
      PROVE  /\ EntryInv(m, e) => EntryInv(m, e)'
             /\ QueuedInv(m, e) => QueuedInv(m, e)'
  <2>1. e.owner \in Threads \ {o}
    BY <1>2 DEF Entry
  <2>2. pc'[e.owner] = pc[e.owner] /\ data'[e.owner] = data[e.owner]
        /\ todo'[e.owner] = todo[e.owner]
    BY <2>1
  <2>. QED BY <2>2 DEF EntryInv, EntryOf, QueuedInv
<1>3. ASSUME NEW p \in Threads, p # o PROVE ThreadInv(p)'
  <2>1. ThreadInv(p) /\ pc'[p] = pc[p] /\ data'[p] = data[p] /\ todo'[p] = todo[p]
    BY <1>3, InvFacts
  <2>. QED BY <2>1 DEF ThreadInv
<1>4. ASSUME NEW p \in Threads, p # o PROVE HoldsInv(p)'
  <2>1. HoldsInv(p) /\ pc'[p] = pc[p] /\ data'[p] = data[p] /\ todo'[p] = todo[p]
        /\ ThreadInv(p)
    BY <1>4, InvFacts
  <2>2. ASSUME NEW m \in Locks, NEW e \in GrantedIn(locks[m]), e.owner = p
        PROVE  e \in GrantedIn(locks'[m])
    BY <1>1, <1>4, <2>2 DEF Follows, GrantedIn
  <2>3. ASSUME NEW d \in THRLockData, Has(p, d) PROVE Has(p, d)'
    <3>1. PICK e \in GrantedIn(locks[d.lock]) : e.owner = p /\ e.k = d.k
      BY <2>3 DEF Has
    <3>2. d.lock \in Locks
      BY DEF THRLockData
    <3>3. e \in GrantedIn(locks[d.lock])'
      BY <2>2, <3>1, <3>2 DEF GrantedIn
    <3>. QED BY <3>1, <3>3 DEF Has
  <2>4. ToSet(data[p]) \subseteq THRLockData
    BY <2>1, ToSetFacts DEF ThreadInv
  <2>5. DelayedLock \in Locks
    BY LocksAssumption
  <2>6. ASSUME NEW e \in ToSet(locks[DelayedLock].write), e.owner = p
        PROVE  e \in ToSet(locks'[DelayedLock].write)
    BY <1>1, <1>4, <2>5, <2>6 DEF Follows
  <2>. QED BY <2>1, <2>3, <2>4, <2>6 DEF HoldsInv
<1>5. ASSUME NEW m \in Locks PROVE LockInv(m)'
  <2>1. QueueInv(locks'[m]) /\ Awake(locks'[m])
    BY <1>1, InvFacts
  <2>2. ASSUME NEW f \in GrantedIn(locks'[m]) PROVE EntryInv(m, f)'
    <3>1. CASE f.owner = o
      BY <3>1
    <3>2. CASE f.owner # o
      <4>1. f \in GrantedIn(locks[m]) \/ \E e \in WaitingIn(locks[m]) : Became(e, f)
        BY <1>1, <3>2 DEF Follows
      <4>2. CASE f \in GrantedIn(locks[m])
        BY <1>2, <3>2, <4>2, InvFacts
      <4>3. ASSUME NEW e \in WaitingIn(locks[m]), Became(e, f) PROVE EntryInv(m, f)'
        <5>1. e \in Entry /\ EntryInv(m, e)
          BY InvFacts
        <5>2. f \in Entry /\ EntryInv(m, f)
          BY <4>3, <5>1, BecameEntry
        <5>. QED BY <1>2, <3>2, <5>2
      <4>. QED BY <4>1, <4>2, <4>3
    <3>. QED BY <3>1, <3>2
  <2>3. ASSUME NEW f \in WaitingIn(locks'[m]) PROVE EntryInv(m, f)' /\ QueuedInv(m, f)'
    <3>1. CASE f.owner = o
      BY <3>1
    <3>2. CASE f.owner # o
      <4>1. \E e \in WaitingIn(locks[m]) : Became(e, f)
        <5>1. Became(f, f)
          BY DEF Became
        <5>. QED BY <1>1, <3>2, <5>1 DEF Follows
      <4>2. PICK e \in WaitingIn(locks[m]) : Became(e, f)
        BY <4>1
      <4>3. e \in Entry /\ EntryInv(m, e) /\ QueuedInv(m, e)
        BY InvFacts
      <4>4. f \in Entry /\ EntryInv(m, f) /\ QueuedInv(m, f)
        BY <4>2, <4>3, BecameEntry
      <4>. QED BY <1>2, <3>2, <4>4
    <3>. QED BY <3>1, <3>2
  <2>4. /\ QueueInv(locks[m])' /\ Awake(locks[m])'
        /\ (\A e \in GrantedIn(locks[m]) : EntryInv(m, e))'
        /\ (\A e \in WaitingIn(locks[m]) : EntryInv(m, e) /\ QueuedInv(m, e))'
    BY <2>1, <2>2, <2>3
  <2>. QED BY <2>4 DEF LockInv
<1>6. \A p \in Threads : ThreadInv(p)' /\ HoldsInv(p)'
  BY <1>3, <1>4
<1>. QED BY <1>1, <1>5, <1>6 DEF ThrLockInv

-----------------------------------------------------------------------------
(* thr_lock(): the strongest lock of a thread on a table comes first, so   *)
(* that the next one is granted ahead of the queue.                        *)

LEMMA SortedFacts ==
  ASSUME NEW D \in Seq(THRLockData), \A i \in DOMAIN D : D[i].k = i,
         NEW s \in Seq(THRLockData), s # <<>>, Remains(s, sort_locks(D))
  PROVE  /\ Head(s) \in THRLockData /\ Head(s) \in ToSet(D) /\ Head(s) \in ToSet(s)
         /\ Head(s).k \in DOMAIN D /\ Head(s) = D[Head(s).k]
         /\ ToSet(s) \subseteq ToSet(D)
         /\ Tail(s) \in Seq(THRLockData) /\ ToSet(s) = ToSet(Tail(s)) \cup {Head(s)}
         /\ Head(s) \notin ToSet(Tail(s)) /\ Remains(Tail(s), sort_locks(D))
         /\ \A x \in ToSet(D) \ ToSet(s) :
              /\ x.lock <= Head(s).lock
              /\ x.lock = Head(s).lock => Rank[Head(s).type] <= Rank[x.type]
<1>. DEFINE t == sort_locks(D)
            n == Len(s)
            N == Len(t)
            d == Head(s)
            u == Tail(s)
<1>1. Distinct(D)
  BY DEF Distinct
<1>2. /\ t \in Seq(THRLockData) /\ N = Len(D) /\ ToSet(t) = ToSet(D) /\ Distinct(t)
      /\ \A i, j \in DOMAIN D : i < j => ~LOCK_CMP(t[j], t[i])
  BY <1>1, SortFacts
<1>3. /\ DOMAIN D = 1 .. N /\ DOMAIN t = 1 .. N /\ DOMAIN s = 1 .. n /\ N \in Nat /\ n \in Nat \ {0}
      /\ d = s[1] /\ d \in THRLockData
  <2>1. DOMAIN D = 1 .. N /\ DOMAIN t = 1 .. N /\ DOMAIN s = 1 .. n /\ N \in Nat /\ n \in Nat
    BY <1>2, LenProperties
  <2>2. n # 0 /\ d = s[1] /\ d \in THRLockData
    BY EmptySeq, TailFacts
  <2>. QED BY <2>1, <2>2
<1>. HIDE DEF t
<1>4. n <= N /\ \A i \in 1 .. n : s[i] = t[N - n + i]
  BY DEF Remains, t
<1>. HIDE DEF n, N
<1>5. PICK m \in Nat : m = N - n
  BY <1>3, <1>4
<1>6. ASSUME NEW i \in 1 .. n PROVE m + i \in 1 .. N /\ s[i] = t[m + i]
  BY <1>3, <1>4, <1>5
<1>7. Distinct(s) /\ ToSet(s) \subseteq ToSet(D)
  <2>1. \A i \in 1 .. n : m + i \in 1 .. N /\ s[i] = t[m + i]
    BY <1>6
  <2>2. ASSUME NEW i \in 1 .. n, NEW j \in 1 .. n, s[i] = s[j] PROVE i = j
    <3>1. m + i \in 1 .. N /\ m + j \in 1 .. N /\ t[m + i] = t[m + j]
      BY <2>1, <2>2
    <3>2. m + i = m + j
      BY <1>2, <1>3, <3>1 DEF Distinct
    <3>. QED BY <3>2
  <2>3. ASSUME NEW i \in 1 .. n PROVE s[i] \in ToSet(D)
    <3>1. t[m + i] \in {t[j] : j \in 1 .. N}
      BY <2>1
    <3>. QED BY <1>2, <1>3, <2>1, <3>1 DEF ToSet
  <2>4. ToSet(s) = {s[i] : i \in 1 .. n}
    BY <1>3 DEF ToSet
  <2>. QED BY <1>3, <2>2, <2>3, <2>4 DEF Distinct
<1>8. d \in ToSet(s) /\ d \in ToSet(D)
  BY <1>7, TailFacts
<1>9. d.k \in DOMAIN D /\ d = D[d.k]
  BY <1>8 DEF ToSet
<1>10. /\ u \in Seq(THRLockData) /\ Len(u) = n - 1 /\ \A i \in 1 .. n - 1 : u[i] = s[i + 1]
       /\ ToSet(s) = ToSet(u) \cup {d} /\ d \notin ToSet(u)
  BY <1>7, HeadTailProperties, TailFacts DEF n
<1>. HIDE DEF u
<1>11. Remains(u, t)
  <2>. SUFFICES ASSUME NEW i \in 1 .. n - 1 PROVE u[i] = t[N - (n - 1) + i]
    BY <1>3, <1>4, <1>10 DEF Remains, N
  <2>1. i + 1 \in 1 .. n /\ N - (n - 1) + i = N - n + (i + 1)
    BY <1>3
  <2>. QED BY <1>4, <1>10, <2>1
<1>12. ASSUME NEW x \in ToSet(D), x \notin ToSet(s)
       PROVE  x.lock <= d.lock /\ (x.lock = d.lock => Rank[d.type] <= Rank[x.type])
  <2>1. PICK i \in 1 .. N : x = t[i]
    BY <1>2, <1>3 DEF ToSet
  <2>2. ~(i \in (N - n + 1) .. N)
    <3>. SUFFICES ASSUME i \in (N - n + 1) .. N PROVE FALSE
      OBVIOUS
    <3>1. i - (N - n) \in 1 .. n /\ N - n + (i - (N - n)) = i
      BY <1>3, <1>4
    <3>2. s[i - (N - n)] = x
      BY <1>4, <2>1, <3>1
    <3>. QED BY <1>3, <1>12, <3>1, <3>2 DEF ToSet
  <2>3. i < N - n + 1 /\ N - n + 1 \in 1 .. N
    BY <1>3, <1>4, <2>2
  <2>4. t[N - n + 1] = d
    BY <1>3, <1>4
  <2>5. ~LOCK_CMP(d, x)
    BY <1>2, <1>3, <2>1, <2>3, <2>4
  <2>6. ~(d.lock < x.lock) /\ (x.lock = d.lock => ~(Rank[d.type] > Rank[x.type]))
    BY <2>5 DEF LOCK_CMP
  <2>7. x \in THRLockData
    BY <1>2, <1>3, <2>1, ElementOfSeq
  <2>8. Rank[d.type] \in Nat /\ Rank[x.type] \in Nat /\ d.lock \in Nat /\ x.lock \in Nat
    BY <1>3, <2>7, TypeFacts, LocksAssumption DEF THRLockData
  <2>. QED BY <2>6, <2>8
<1>. QED BY <1>3, <1>7, <1>8, <1>9, <1>10, <1>11, <1>12 DEF t, u

(* Thread o asks for the locks s of a call for the locks D.                *)
Called(o, s, D) ==
  /\ D \in Seq(THRLockData) /\ s \in Seq(THRLockData) /\ s # <<>>
  /\ \A i \in DOMAIN D : D[i].k = i
  /\ Remains(s, sort_locks(D))
  /\ o \in Handlers => D = DelayedData
  /\ o \in Sessions => \A i \in DOMAIN D : D[i].type # "TL_WRITE_DELAYED"
  /\ \A l \in Locks : \A e \in GrantedIn(locks[l]) :
       e.owner = o => EntryOf(l, e, D) /\ D[e.k] \notin ToSet(s)
  /\ \A l \in Locks : \A e \in WaitingIn(locks[l]) : e.owner # o
  /\ \A d \in ToSet(D) \ ToSet(s) : Has(o, d)

Request(o, d, unfit) ==
  [owner |-> o, k |-> d.k, type |-> TypeAsked(locks[d.lock], d, unfit)]

LEMMA RequestFacts ==
  ASSUME ThrLockInv, NEW o \in Threads, NEW s, NEW D, Called(o, s, D), NEW unfit \in BOOLEAN
  PROVE  LET d == Head(s)
             q == locks[d.lock]
             e == Request(o, d, unfit)
         IN /\ d.lock \in Locks /\ e \in Entry /\ e.owner = o /\ e.k = d.k /\ d = D[d.k]
            /\ EntryOf(d.lock, e, D)
            /\ \A x \in GrantedIn(q) : ~(x.owner = o /\ x.k = d.k)
            /\ \A x \in ToSet(q.write) :
                 x.owner = o /\ ~IsRead(e.type) => NoStronger(e.type, x.type)
            /\ \A x \in GrantedIn(q) : x.owner = o /\ ~IsRead(e.type) => x \in ToSet(q.write)
            /\ \A x \in GrantedIn(q) :
                 x.owner = o /\ NoInsert(e) /\ IsRead(x.type) => NoInsert(x)
            /\ o \in Handlers => /\ e.type = "TL_WRITE_DELAYED"
                                 /\ \A x \in GrantedIn(q) : x.owner # o
            /\ o \in Sessions => e.type # "TL_WRITE_DELAYED"
<1>. DEFINE d == Head(s)
            q == locks[d.lock]
            e == Request(o, d, unfit)
<1>1. /\ d \in THRLockData /\ d \in ToSet(D) /\ d \in ToSet(s)
      /\ d.k \in DOMAIN D /\ d = D[d.k] /\ ToSet(s) \subseteq ToSet(D)
      /\ \A x \in ToSet(D) \ ToSet(s) : x.lock = d.lock => Rank[d.type] <= Rank[x.type]
  BY SortedFacts DEF Called
<1>2. d.lock \in Locks /\ d.k \in Nat /\ d.type \in Types
  BY <1>1 DEF THRLockData
<1>. HIDE DEF d
<1>3. /\ e.owner = o /\ e.k = d.k /\ e \in Entry
      /\ e.type = d.type \/ (d.type = "TL_WRITE_CONCURRENT_INSERT" /\ e.type \in StrongTypes)
      /\ d.type = "TL_WRITE_CONCURRENT_INSERT" /\ e.type # d.type
           => d.lock \notin CheckStatus \/ q.write = <<>>
      /\ e.type = "TL_WRITE_CONCURRENT_INSERT" => d.lock \in CheckStatus
  <2>1. TypeAsked(q, d, unfit) \in Types
    BY <1>2, LocksAssumption, TypeFacts DEF TypeAsked, StrongTypes
  <2>2. e = [owner |-> o, k |-> d.k, type |-> TypeAsked(q, d, unfit)]
    BY DEF Request
  <2>3. e.owner = o /\ e.k = d.k /\ e.type = TypeAsked(q, d, unfit) /\ e \in Entry
    BY <1>2, <2>1, <2>2 DEF Entry, Types
  <2>. HIDE DEF e, q
  <2>4. thr_upgraded_concurrent_insert_lock \in StrongTypes
        /\ thr_upgraded_concurrent_insert_lock # "TL_WRITE_CONCURRENT_INSERT"
    BY LocksAssumption DEF StrongTypes
  <2>. QED BY <2>3, <2>4 DEF TypeAsked
<1>. HIDE DEF e
<1>4. EntryOf(d.lock, e, D)
  BY <1>1, <1>3 DEF EntryOf
<1>5. /\ QueueInv(q) /\ EntriesInv(q) /\ GrantedIn(q) \subseteq Entry
      /\ \A x \in GrantedIn(q) : x.owner = o => EntryOf(d.lock, x, D) /\ D[x.k] \notin ToSet(s)
  BY <1>2, InvFacts DEF Called, QueueInv
<1>6. \A x \in GrantedIn(q) : ~(x.owner = o /\ x.k = d.k)
  BY <1>1, <1>5
<1>7. o \in Handlers => e.type = "TL_WRITE_DELAYED" /\ \A x \in GrantedIn(q) : x.owner # o
  <2>. SUFFICES ASSUME o \in Handlers
                PROVE  e.type = "TL_WRITE_DELAYED" /\ \A x \in GrantedIn(q) : x.owner # o
    OBVIOUS
  <2>1. D = DelayedData /\ DOMAIN D = {1}
    BY DEF Called, DelayedData
  <2>2. d = D[1] /\ d.type = "TL_WRITE_DELAYED"
    BY <1>1, <2>1 DEF DelayedData
  <2>3. \A x \in GrantedIn(q) : x.owner = o => x.k = 1
    BY <1>5, <2>1 DEF EntryOf
  <2>. QED BY <1>1, <1>3, <1>5, <2>2, <2>3
<1>8. o \in Sessions => d.type # "TL_WRITE_DELAYED" /\ e.type # "TL_WRITE_DELAYED"
  BY <1>1, <1>3 DEF Called, StrongTypes
<1>9. ASSUME NEW x \in GrantedIn(q), x.owner = o
      PROVE  /\ o \in Sessions /\ D[x.k].type \in Types /\ Rank[d.type] <= Rank[D[x.k].type]
             /\ x.type = D[x.k].type
                \/ (D[x.k].type = "TL_WRITE_CONCURRENT_INSERT" /\ x.type \in StrongTypes)
             /\ x.type = "TL_WRITE_CONCURRENT_INSERT" => d.lock \in CheckStatus
             /\ D[x.k].type # "TL_WRITE_DELAYED" /\ x.type \in Types
  <2>1. o \in Sessions /\ EntryOf(d.lock, x, D) /\ D[x.k] \notin ToSet(s)
    BY <1>5, <1>7, <1>9 DEF Threads
  <2>2. D[x.k] \in ToSet(D) /\ D[x.k].lock = d.lock /\ x.k \in DOMAIN D
    BY <2>1 DEF EntryOf, ToSet
  <2>3. Rank[d.type] <= Rank[D[x.k].type]
    BY <1>1, <2>1, <2>2
  <2>4. D[x.k] \in THRLockData
    BY <2>2, ToSetFacts DEF Called
  <2>. QED BY <1>5, <1>9, <2>1, <2>2, <2>3, <2>4 DEF EntryOf, Called, THRLockData, Entry, Types
<1>10. ASSUME NEW x \in GrantedIn(q), x.owner = o, ~IsRead(e.type) PROVE x \in ToSet(q.write)
  <2>1. ~IsRead(d.type)
    BY <1>3, <1>10, TypeFacts DEF ReadTypes
  <2>2. ~IsRead(D[x.k].type)
    BY <1>2, <1>9, <1>10, <2>1, TypeFacts, RankFacts DEF IsRead
  <2>3. ~IsRead(x.type)
    BY <1>9, <1>10, <2>2, TypeFacts DEF StrongTypes, ReadTypes
  <2>. QED BY <1>5, <2>3 DEF EntriesInv, GrantedIn
<1>11. ASSUME NEW x \in ToSet(q.write), x.owner = o, ~IsRead(e.type)
       PROVE  NoStronger(e.type, x.type)
  <2>1. x \in GrantedIn(q) /\ q.write # <<>> /\ ~IsRead(x.type)
    BY <1>5, EmptyFacts DEF GrantedIn, EntriesInv
  <2>2. CASE x.type \in StrongTypes
    BY <2>2 DEF NoStronger
  <2>3. CASE x.type \notin StrongTypes
    <3>1. /\ x.type = D[x.k].type
          /\ x.type \in {"TL_WRITE_ALLOW_WRITE", "TL_WRITE_CONCURRENT_INSERT"}
      BY <1>9, <1>11, <2>1, <2>3, TypeFacts
    <3>2. ~IsRead(d.type) /\ d.type # "TL_WRITE_DELAYED"
      BY <1>3, <1>8, <1>9, <1>11, <2>1, TypeFacts DEF ReadTypes
    <3>3. Rank[d.type] <= Rank[x.type]
      BY <1>9, <1>11, <2>1, <3>1
    <3>4. \/ d.type = "TL_WRITE_ALLOW_WRITE"
          \/ d.type = "TL_WRITE_CONCURRENT_INSERT" /\ x.type = "TL_WRITE_CONCURRENT_INSERT"
      BY <1>2, <3>1, <3>2, <3>3, TypeFacts, RankFacts DEF StrongTypes
    <3>5. CASE d.type = "TL_WRITE_ALLOW_WRITE"
      BY <1>3, <3>1, <3>5 DEF NoStronger
    <3>6. CASE d.type = "TL_WRITE_CONCURRENT_INSERT" /\ x.type = "TL_WRITE_CONCURRENT_INSERT"
      <4>1. d.lock \in CheckStatus
        BY <1>9, <1>11, <2>1, <3>6
      <4>. QED BY <1>3, <2>1, <3>6, <4>1 DEF NoStronger
    <3>. QED BY <3>4, <3>5, <3>6
  <2>. QED BY <2>2, <2>3
<1>12. ASSUME NEW x \in GrantedIn(q), x.owner = o, NoInsert(e), IsRead(x.type)
       PROVE  NoInsert(x)
  <2>1. d.type = "TL_READ_NO_INSERT"
    BY <1>3, <1>12 DEF NoInsert, StrongTypes
  <2>2. x.type = D[x.k].type /\ x.type \in ReadTypes
    BY <1>9, <1>12, TypeFacts DEF StrongTypes, ReadTypes
  <2>3. 4 <= Rank[x.type]
    BY <1>9, <1>12, <2>1, <2>2, RankFacts
  <2>. QED BY <2>2, <2>3, RankFacts DEF ReadTypes, NoInsert
<1>. QED BY <1>1, <1>2, <1>3, <1>4, <1>6, <1>7, <1>8, <1>10, <1>11, <1>12 DEF d, e

LEMMA HeadFacts ==
  ASSUME NEW q, QueueInv(q), q.write # <<>>
  PROVE  LET h == Head(q.write)
         IN /\ h \in ToSet(q.write) /\ h \in GrantedIn(q) /\ h \in Entry
            /\ ~IsRead(h.type) /\ h.type \in Types
            /\ \A w \in ToSet(q.write) : w = h \/ NoStronger(w.type, h.type)
<1>. DEFINE h == Head(q.write)
<1>1. q.write \in Seq(Entry) /\ EntriesInv(q)
  BY QueueTypes DEF QueueInv, EntriesInv
<1>2. h \in ToSet(q.write) /\ h \in Entry
  BY <1>1, TailFacts
<1>3. h = q.write[1] /\ DOMAIN q.write = 1 .. Len(q.write) /\ Len(q.write) \in Nat
  BY <1>1, LenProperties
<1>4. ASSUME NEW w \in ToSet(q.write) PROVE w = h \/ NoStronger(w.type, h.type)
  <2>1. PICK i \in 1 .. Len(q.write) : w = q.write[i]
    BY <1>3 DEF ToSet
  <2>2. i = 1 \/ (1 < i /\ 1 \in DOMAIN q.write /\ i \in DOMAIN q.write)
    BY <1>3
  <2>. QED BY <1>3, <2>1, <2>2 DEF QueueInv, OrderInv
<1>. QED BY <1>1, <1>2, <1>4 DEF GrantedIn, EntriesInv, Entry, Types

LEMMA ReadGranted ==
  ASSUME NEW q, QueueInv(q), NEW e \in Entry, IsRead(e.type), ReadAtOnce(q, e)
  PROVE  \A w \in ToSet(q.write) : w.owner # e.owner => Compatible(w, e)
<1>. SUFFICES ASSUME NEW w \in ToSet(q.write), w.owner # e.owner PROVE Compatible(w, e)
  OBVIOUS
<1>. DEFINE h == Head(q.write)
<1>1. q.write # <<>>
  BY EmptyFacts
<1>2. /\ h \in ToSet(q.write) /\ h \in GrantedIn(q) /\ h.type \in Types /\ ~IsRead(h.type)
      /\ w = h \/ NoStronger(w.type, h.type)
  BY <1>1, HeadFacts
<1>3. w \in GrantedIn(q) /\ ~IsRead(w.type) /\ w.type \in Types
  <2>1. w \in GrantedIn(q) /\ ~IsRead(w.type)
    BY DEF QueueInv, EntriesInv, GrantedIn
  <2>. QED BY <2>1, QueueTypes DEF QueueInv, EntriesInv, Entry, Types
<1>. HIDE DEF h
<1>4. CASE h.owner = e.owner
  <2>1. Compatible(h, w)
    BY <1>2, <1>3, <1>4 DEF QueueInv, CompatibleInv
  <2>2. w.type = "TL_WRITE_ALLOW_WRITE"
    BY <1>3, <2>1 DEF Compatible
  <2>. QED BY <1>3, <2>2, TypeFacts DEF Compatible, StrongTypes
<1>5. CASE /\ Rank[h.type] <= Rank["TL_WRITE_DELAYED"]
           /\ NoInsert(e) => h.type # "TL_WRITE_CONCURRENT_INSERT"
  <2>1. h.type \notin StrongTypes
    BY <1>2, <1>5, TypeFacts
  <2>2. w.type = h.type \/ w.type = "TL_WRITE_ALLOW_WRITE"
    BY <1>2, <2>1 DEF NoStronger
  <2>3. w.type \notin StrongTypes /\ (NoInsert(e) => w.type # "TL_WRITE_CONCURRENT_INSERT")
    BY <1>5, <2>1, <2>2 DEF StrongTypes
  <2>. QED BY <1>3, <2>3, TypeFacts DEF Compatible
<1>. QED BY <1>1, <1>4, <1>5 DEF ReadAtOnce, h

LEMMA ReadQueued ==
  ASSUME NEW q, QueueInv(q), Awake(q), NEW e \in Entry, IsRead(e.type), ~ReadAtOnce(q, e),
         \A x \in GrantedIn(q) : x.owner = e.owner /\ NoInsert(e) /\ IsRead(x.type) => NoInsert(x)
  PROVE  /\ \A x \in GrantedIn(q) : x.owner # e.owner
         /\ q.write # <<>> \/ (q.write_wait # <<>> /\ q.read # <<>>)
<1>1. CASE q.write = <<>>
  <2>1. q.write_wait # <<>> /\ ~has_old_lock(q.read, e.owner)
    BY <1>1 DEF ReadAtOnce
  <2>2. q.read # <<>>
    BY <1>1, <2>1 DEF Awake
  <2>3. \A x \in GrantedIn(q) : x.owner # e.owner
    BY <1>1, <2>1, EmptyFacts DEF GrantedIn, has_old_lock, ToSet
  <2>. QED BY <2>1, <2>2, <2>3
<1>2. CASE q.write # <<>>
  <2>. DEFINE h == Head(q.write)
  <2>1. h \in ToSet(q.write) /\ h \in GrantedIn(q) /\ h.type \in Types /\ ~IsRead(h.type)
    BY <1>2, HeadFacts
  <2>2. /\ h.owner # e.owner
        /\ ~(/\ Rank[h.type] <= Rank["TL_WRITE_DELAYED"]
             /\ NoInsert(e) => h.type # "TL_WRITE_CONCURRENT_INSERT")
    BY <1>2 DEF ReadAtOnce
  <2>. HIDE DEF h
  <2>3. h.type \in StrongTypes \/ (NoInsert(e) /\ h.type = "TL_WRITE_CONCURRENT_INSERT")
    BY <2>1, <2>2, TypeFacts
  <2>4. ASSUME NEW x \in GrantedIn(q), x.owner = e.owner PROVE FALSE
    <3>1. Compatible(h, x)
      BY <2>1, <2>2, <2>4 DEF QueueInv, CompatibleInv
    <3>2. CASE IsRead(x.type)
      <4>1. h.type \notin StrongTypes /\ (NoInsert(x) => h.type # "TL_WRITE_CONCURRENT_INSERT")
        BY <2>1, <3>1, <3>2, TypeFacts DEF Compatible
      <4>. QED BY <2>3, <2>4, <3>2, <4>1
    <3>3. CASE ~IsRead(x.type)
      BY <2>3, <3>1, <3>3 DEF Compatible, StrongTypes
    <3>. QED BY <3>2, <3>3
  <2>. QED BY <1>2, <2>4
<1>. QED BY <1>1, <1>2

LEMMA WriteGranted ==
  ASSUME NEW q, QueueInv(q), NEW e \in Entry, ~IsRead(e.type), WriteAtOnce(q, e),
         \A x \in ToSet(q.write) : x.owner = e.owner => NoStronger(e.type, x.type),
         e.type = "TL_WRITE_DELAYED" => q.read = <<>>
  PROVE  /\ \A w \in ToSet(q.write) : w.owner # e.owner => Compatible(w, e)
         /\ \A f \in GrantedIn(q) : f.owner # e.owner => Compatible(e, f)
         /\ \A w \in ToSet(q.write) : NoStronger(e.type, w.type)
<1>1. /\ GrantedIn(q) \subseteq Entry /\ EntriesInv(q) /\ q.read_no_write_count \in Nat
      /\ e.type \in Types
  BY QueueTypes DEF QueueInv, EntriesInv, Entry, Types
<1>2. \A f \in GrantedIn(q) : f.type \in Types
  BY <1>1 DEF Entry, Types
<1>3. /\ \A w \in ToSet(q.write) : w \in GrantedIn(q) /\ ~IsRead(w.type)
      /\ \A f \in GrantedIn(q) : IsRead(f.type) => f \in ToSet(q.read)
      /\ \A f \in GrantedIn(q) : ~IsRead(f.type) => f \in ToSet(q.write)
  BY <1>1 DEF EntriesInv, GrantedIn
<1>4. CASE q.write = <<>>
  <2>1. /\ q.read = <<>> \/ (/\ Rank[e.type] <= Rank["TL_WRITE_DELAYED"]
                             /\ e.type \in Sharing => q.read_no_write_count = 0)
    BY <1>4 DEF WriteAtOnce
  <2>2. GrantedIn(q) = ToSet(q.read) /\ ToSet(q.write) = {}
    BY <1>4, EmptyFacts DEF GrantedIn
  <2>3. ASSUME NEW f \in GrantedIn(q) PROVE Compatible(e, f)
    <3>1. f \in ToSet(q.read) /\ q.read # <<>> /\ IsRead(f.type)
      BY <1>1, <2>2, EmptyFacts DEF EntriesInv
    <3>2. e.type \notin StrongTypes
      BY <1>1, <2>1, <3>1, TypeFacts
    <3>3. e.type = "TL_WRITE_CONCURRENT_INSERT" => ~NoInsert(f)
      BY <2>1, <3>1, CountZero DEF Sharing
    <3>. QED BY <1>1, <3>1, <3>2, <3>3, TypeFacts DEF Compatible
  <2>. QED BY <2>2, <2>3
<1>5. CASE /\ q.write # <<>> /\ e.type = "TL_WRITE_ALLOW_WRITE"
           /\ Head(q.write).type = "TL_WRITE_ALLOW_WRITE"
  <2>1. \A w \in ToSet(q.write) : w.type = "TL_WRITE_ALLOW_WRITE"
    BY <1>5, HeadFacts DEF NoStronger, StrongTypes
  <2>2. \A f \in GrantedIn(q) : IsRead(f.type) \/ f.type = "TL_WRITE_ALLOW_WRITE"
    BY <1>3, <2>1
  <2>. QED BY <1>1, <1>3, <1>5, <2>1, <2>2, TypeFacts DEF Compatible, NoStronger, StrongTypes
<1>6. CASE /\ q.write # <<>> /\ has_old_lock(q.write, e.owner)
  <2>1. PICK x \in ToSet(q.write) : x.owner = e.owner
    BY <1>6 DEF has_old_lock, ToSet
  <2>2. NoStronger(e.type, x.type) /\ x \in GrantedIn(q) /\ x.type \in Types /\ ~IsRead(x.type)
    BY <1>2, <1>3, <2>1
  <2>3. ASSUME NEW f \in GrantedIn(q), f.owner # e.owner
        PROVE  Compatible(e, f) /\ x.type \notin StrongTypes
    <3>1. Compatible(x, f)
      BY <2>1, <2>3 DEF QueueInv, CompatibleInv
    <3>2. x.type \notin StrongTypes
      BY <2>2, <3>1, TypeFacts DEF Compatible, StrongTypes
    <3>3. e.type = x.type \/ (e.type = "TL_WRITE_ALLOW_WRITE" /\ x.type = "TL_WRITE_CONCURRENT_INSERT")
      BY <2>2, <3>2 DEF NoStronger
    <3>4. CASE IsRead(f.type)
      BY <2>2, <3>1, <3>2, <3>3, <3>4, TypeFacts DEF Compatible, StrongTypes
    <3>5. CASE ~IsRead(f.type)
      <4>1. x.type = "TL_WRITE_ALLOW_WRITE" /\ f.type = "TL_WRITE_ALLOW_WRITE"
        BY <3>1, <3>5 DEF Compatible
      <4>2. e.type = "TL_WRITE_ALLOW_WRITE"
        BY <3>3, <4>1
      <4>. QED BY <3>2, <3>5, <4>1, <4>2 DEF Compatible
    <3>. QED BY <3>2, <3>4, <3>5
  <2>4. ASSUME NEW w \in ToSet(q.write), w.owner # e.owner
        PROVE  Compatible(w, e) /\ NoStronger(e.type, w.type)
    <3>1. Compatible(w, x) /\ w \in GrantedIn(q)
      BY <1>3, <2>1, <2>2, <2>4 DEF QueueInv, CompatibleInv
    <3>2. x.type = "TL_WRITE_ALLOW_WRITE" /\ w.type = "TL_WRITE_ALLOW_WRITE"
      BY <2>2, <3>1 DEF Compatible
    <3>3. e.type = "TL_WRITE_ALLOW_WRITE"
      BY <2>2, <3>2 DEF NoStronger, StrongTypes
    <3>. QED BY <3>2, <3>3 DEF Compatible, NoStronger
  <2>. QED BY <2>3, <2>4
<1>. QED BY <1>4, <1>5, <1>6 DEF WriteAtOnce

LEMMA WriteQueued ==
  ASSUME NEW q, QueueInv(q), Awake(q), NEW e \in Entry, ~WriteAtOnce(q, e),
         \A x \in GrantedIn(q) : x.owner = e.owner => x \in ToSet(q.write)
  PROVE  /\ \A x \in GrantedIn(q) : x.owner # e.owner
         /\ q.write # <<>> \/ q.read # <<>>
<1>1. CASE q.write = <<>>
  BY <1>1, EmptyFacts DEF WriteAtOnce, Awake
<1>2. CASE q.write # <<>>
  <2>1. ~has_old_lock(q.write, e.owner)
    BY <1>2 DEF WriteAtOnce
  <2>2. \A x \in ToSet(q.write) : x.owner # e.owner
    BY <2>1 DEF has_old_lock, ToSet
  <2>. QED BY <1>2, <2>2
<1>. QED BY <1>1, <1>2

LEMMA SetLockFacts ==
  ASSUME ThrLockInv, NEW l \in Locks, NEW r, SetLock(l, r)
  PROVE  locks' = [locks EXCEPT ![l] = r] /\ overtaken' \in [Threads -> Nat]
BY DEF SetLock, ThrLockInv

(* The thread o has asked for the first of the locks s.                    *)
LEMMA AskedKeeps ==
  ASSUME ThrLockInv, NEW o \in Threads, NEW s, NEW D, Called(o, s, D), NEW r, NEW e,
         NEW waits \in BOOLEAN,
         data' = [data EXCEPT ![o] = D],
         SetLock(Head(s).lock, r),
         QueueInv(r), Awake(r), e.owner = o, e.k = Head(s).k, e \in Entry,
         EntryOf(Head(s).lock, e, D),
         e.type = "TL_WRITE_DELAYED" <=> o \in Handlers,
         ToSet(locks[Head(s).lock].read) \subseteq ToSet(r.read),
         ToSet(locks[Head(s).lock].write) \subseteq ToSet(r.write),
         \/ /\ GrantedIn(r) = GrantedIn(locks[Head(s).lock]) \cup {e}
            /\ WaitingIn(r) = WaitingIn(locks[Head(s).lock])
            /\ ~waits
         \/ /\ GrantedIn(r) = GrantedIn(locks[Head(s).lock])
            /\ WaitingIn(r) = WaitingIn(locks[Head(s).lock]) \cup {e}
            /\ waits \/ o \in Handlers,
         ~waits => LockRest(o, Tail(s)),
         waits => o \in Sessions /\ todo' = [todo EXCEPT ![o] = s] /\ Goto(o, "wait")
  PROVE  ThrLockInv'
<1>. DEFINE d == Head(s)
            q == locks[d.lock]
            rest == Tail(s)
<1>1. /\ d \in THRLockData /\ d \in ToSet(D) /\ d \in ToSet(s)
      /\ d.k \in DOMAIN D /\ d = D[d.k] /\ ToSet(s) \subseteq ToSet(D)
      /\ rest \in Seq(THRLockData) /\ ToSet(s) = ToSet(rest) \cup {d}
      /\ d \notin ToSet(rest) /\ Remains(rest, sort_locks(D))
  BY SortedFacts DEF Called
<1>2. /\ D \in Seq(THRLockData) /\ s \in Seq(THRLockData) /\ s # <<>>
      /\ \A i \in DOMAIN D : D[i].k = i
      /\ Remains(s, sort_locks(D))
      /\ o \in Handlers => D = DelayedData
      /\ o \in Sessions => \A i \in DOMAIN D : D[i].type # "TL_WRITE_DELAYED"
  BY DEF Called
<1>3. d.lock \in Locks /\ o \in Sessions \cup Handlers /\ ~(o \in Sessions /\ o \in Handlers)
  BY <1>1, LocksAssumption DEF THRLockData, Threads
<1>. HIDE DEF d, rest
<1>4. /\ pc \in [Threads -> Positions] /\ data \in [Threads -> Seq(THRLockData)]
      /\ todo \in [Threads -> Seq(THRLockData)] /\ locks \in [Locks -> THRLock]
  BY DEF ThrLockInv
<1>5. /\ locks' = [locks EXCEPT ![d.lock] = r] /\ overtaken' \in [Threads -> Nat]
  BY <1>3, SetLockFacts DEF d
<1>6. data' \in [Threads -> Seq(THRLockData)] /\ data'[o] = D
      /\ \A p \in Threads \ {o} : data'[p] = data[p]
  BY <1>2, <1>4
<1>7. ~waits => LockRest(o, rest)
  BY DEF rest
<1>8. /\ ~waits => todo'[o] = rest /\ pc'[o] = IF rest = <<>> THEN "run" ELSE "lock"
      /\ waits => todo'[o] = s /\ pc'[o] = "wait" /\ o \in Sessions
      /\ pc' \in [Threads -> Positions] /\ todo' \in [Threads -> Seq(THRLockData)]
      /\ \A p \in Threads \ {o} : pc'[p] = pc[p] /\ todo'[p] = todo[p]
  <2>1. "run" \in Positions /\ "lock" \in Positions /\ "wait" \in Positions
    BY DEF Positions
  <2>2. CASE waits
    <3>1. todo' = [todo EXCEPT ![o] = s] /\ pc' = [pc EXCEPT ![o] = "wait"] /\ o \in Sessions
      BY <2>2 DEF Goto
    <3>. QED BY <1>2, <1>4, <2>1, <2>2, <3>1
  <2>3. CASE ~waits
    <3>. DEFINE at == IF rest = <<>> THEN "run" ELSE "lock"
    <3>1. todo' = [todo EXCEPT ![o] = rest] /\ pc' = [pc EXCEPT ![o] = at] /\ at \in Positions
      BY <1>7, <2>1, <2>3 DEF LockRest, Goto
    <3>2. /\ todo'[o] = rest /\ pc'[o] = at
          /\ pc' \in [Threads -> Positions] /\ todo' \in [Threads -> Seq(THRLockData)]
          /\ \A p \in Threads \ {o} : pc'[p] = pc[p] /\ todo'[p] = todo[p]
      <4>. HIDE DEF at
      <4>. QED BY <1>1, <1>4, <3>1
    <3>. QED BY <2>3, <3>2
  <2>. QED BY <2>2, <2>3
<1>9. o \in Handlers => rest = <<>> /\ ~waits
  <2>. SUFFICES ASSUME o \in Handlers PROVE rest = <<>>
    BY <1>3
  <2>1. ToSet(D) = {D[1]}
    BY <1>2 DEF DelayedData, ToSet
  <2>2. ToSet(rest) = {}
    BY <1>1, <2>1
  <2>. QED BY <1>1, <2>2, ToSetFacts
<1>10. ToSet(todo'[o]) \subseteq ToSet(s) /\ ToSet(s) \subseteq ToSet(todo'[o]) \cup {d}
  BY <1>1, <1>8
<1>11. ThreadInv(o)'
  <2>1. D # <<>> /\ pc'[o] \in {"run", "lock", "wait"}
    BY <1>1, <1>8, EmptyFacts
  <2>2. pc'[o] # "run" => todo'[o] # <<>> /\ Remains(todo'[o], sort_locks(D))
    BY <1>1, <1>2, <1>8
  <2>3. pc'[o] = "run" => todo'[o] = <<>>
    BY <1>8
  <2>4. o \in Handlers => pc'[o] = "run"
    BY <1>8, <1>9
  <2>5. todo'[o] \in Seq(THRLockData)
    BY <1>8
  <2>. QED BY <1>1, <1>2, <1>3, <1>6, <1>10, <2>1, <2>2, <2>3, <2>4, <2>5 DEF ThreadInv
<1>12. Follows(locks[d.lock], r, o)
  <2>1. \A f : Became(f, f)
    BY DEF Became
  <2>. QED BY <2>1 DEF Follows, d
<1>13. /\ \A m \in Locks : m # d.lock => locks'[m] = locks[m]
       /\ locks'[d.lock] = r
  BY <1>3, <1>4, <1>5
<1>14. /\ \A m \in Locks : GrantedIn(locks[m]) \subseteq GrantedIn(locks'[m])
       /\ \A m \in Locks : \A f \in GrantedIn(locks'[m]) :
            f \in GrantedIn(locks[m]) \/ (f = e /\ m = d.lock)
       /\ \A m \in Locks : \A f \in WaitingIn(locks'[m]) :
            f \in WaitingIn(locks[m]) \/ (f = e /\ m = d.lock)
       /\ waits \/ e \in GrantedIn(r) \/ o \in Handlers
  BY <1>13 DEF d
<1>15. HoldsInv(o)'
  <2>1. pc'[o] # "insert"
    BY <1>8
  <2>2. ASSUME NEW x \in ToSet(D) \ ToSet(todo'[o]), o \in Sessions PROVE Has(o, x)'
    <3>1. CASE x \notin ToSet(s)
      <4>1. Has(o, x) /\ x \in THRLockData
        BY <1>2, <3>1, ToSetFacts DEF Called
      <4>2. PICK f \in GrantedIn(locks[x.lock]) : f.owner = o /\ f.k = x.k
        BY <4>1 DEF Has
      <4>3. x.lock \in Locks
        BY <4>1 DEF THRLockData
      <4>4. f \in GrantedIn(locks'[x.lock])
        BY <1>14, <4>2, <4>3
      <4>. QED BY <4>2, <4>4 DEF Has, GrantedIn
    <3>2. CASE x \in ToSet(s)
      <4>1. x = d /\ ~waits
        BY <1>8, <1>10, <2>2, <3>2
      <4>2. e \in GrantedIn(locks'[d.lock])
        BY <1>3, <1>13, <1>14, <2>2, <4>1
      <4>. QED BY <4>1, <4>2 DEF Has, GrantedIn, d
    <3>. QED BY <3>1, <3>2
  <2>. QED BY <1>6, <2>1, <2>2 DEF HoldsInv
<1>16. ASSUME NEW m \in Locks, NEW f, f \in GrantedIn(locks'[m]) \/ f \in WaitingIn(locks'[m]), f.owner = o
       PROVE  EntryInv(m, f)'
  <2>1. EntryOf(m, f, D) /\ (D[f.k] \notin ToSet(s) \/ D[f.k] = d)
    <3>1. CASE f = e /\ m = d.lock
      BY <1>1, <3>1 DEF d
    <3>2. CASE f \in GrantedIn(locks[m])
      BY <1>16, <3>2 DEF Called
    <3>3. f \notin WaitingIn(locks[m])
      BY <1>16 DEF Called
    <3>. QED BY <1>14, <1>16, <3>1, <3>2, <3>3
  <2>2. \/ D[f.k] \notin ToSet(todo'[o])
        \/ pc'[o] = "wait" /\ D[f.k] = Head(todo'[o])
    BY <1>1, <1>8, <1>10, <2>1 DEF d
  <2>3. pc'[o] # "unlock"
    BY <1>8
  <2>4. o \in Handlers => f.type = "TL_WRITE_DELAYED" /\ pc'[o] = "run"
    <3>. SUFFICES ASSUME o \in Handlers PROVE f.type = "TL_WRITE_DELAYED" /\ pc'[o] = "run"
      OBVIOUS
    <3>1. \A l \in Locks : \A x \in GrantedIn(locks[l]) \cup WaitingIn(locks[l]) : x.owner # o
      <4>1. D = DelayedData /\ ToSet(s) = {D[1]} /\ DOMAIN D = {1}
        <5>1. D = DelayedData /\ DOMAIN D = {1}
          BY <1>2 DEF DelayedData
        <5>2. ToSet(D) = {D[1]}
          BY <5>1 DEF ToSet
        <5>. QED BY <1>1, <5>1, <5>2
      <4>. QED BY <4>1 DEF Called, EntryOf
    <3>2. f = e
      BY <1>14, <1>16, <3>1
    <3>. QED BY <1>8, <1>9, <3>2
  <2>5. EntryOf(m, f, data[f.owner])'
    BY <1>6, <1>16, <2>1 DEF EntryOf
  <2>. QED BY <1>6, <1>16, <2>2, <2>3, <2>4, <2>5 DEF EntryInv
<1>17. ASSUME NEW m \in Locks, NEW f \in WaitingIn(locks'[m]), f.owner = o PROVE QueuedInv(m, f)'
  <2>1. f \notin WaitingIn(locks[m])
    BY <1>17 DEF Called
  <2>2. f = e
    BY <1>14, <2>1
  <2>3. o \in Sessions => pc'[o] = "wait" /\ todo'[o] = s
    <3>. SUFFICES ASSUME o \in Sessions, ~waits PROVE FALSE
      BY <1>8
    <3>1. WaitingIn(r) = WaitingIn(locks[d.lock])
      BY <1>3 DEF d
    <3>. QED BY <1>13, <1>14, <2>1, <3>1
  <2>4. pc'[o] # "insert"
    BY <1>8
  <2>. QED BY <1>1, <1>6, <1>17, <2>2, <2>3, <2>4 DEF QueuedInv, d
<1>18. /\ \A m \in Locks : \A f \in GrantedIn(locks'[m]) : f.owner = o => EntryInv(m, f)'
       /\ \A m \in Locks : \A f \in WaitingIn(locks'[m]) :
            f.owner = o => EntryInv(m, f)' /\ QueuedInv(m, f)'
  BY <1>16, <1>17
<1>19. \A p \in Threads \ {o} : pc'[p] = pc[p] /\ data'[p] = data[p] /\ todo'[p] = todo[p]
  BY <1>6, <1>8
<1>. QED BY <1>3, <1>5, <1>6, <1>8, <1>11, <1>12, <1>15, <1>18, <1>19, StepKeeps

LEMMA ThrLockKeeps ==
  ASSUME ThrLockInv, NEW o \in Threads, NEW s, NEW D, Called(o, s, D),
         data' = [data EXCEPT ![o] = D], thr_lock(o, s)
  PROVE  ThrLockInv'
<1>. DEFINE d == Head(s)
            q == locks[d.lock]
<1>1. PICK unfit \in BOOLEAN :
        LET e == Request(o, d, unfit)
        IN \/ /\ IsRead(e.type) /\ ReadAtOnce(q, e)
              /\ SetLock(d.lock, [q EXCEPT !.read = Append(@, e),
                                    !.read_no_write_count = @ + (IF NoInsert(e) THEN 1 ELSE 0)])
              /\ LockRest(o, Tail(s))
           \/ /\ ~IsRead(e.type) /\ WriteAtOnce(q, e)
              /\ e.type = "TL_WRITE_DELAYED" => q.read = <<>>
              /\ SetLock(d.lock, [q EXCEPT !.write = Append(@, e)])
              /\ LockRest(o, Tail(s))
           \/ /\ e.type = "TL_WRITE_DELAYED" /\ (q.write # <<>> \/ q.read # <<>>)
              /\ SetLock(d.lock, [q EXCEPT !.write_wait = Append(@, e)])
              /\ LockRest(o, Tail(s))
           \/ /\ IsRead(e.type) /\ ~ReadAtOnce(q, e)
              /\ SetLock(d.lock, [q EXCEPT !.read_wait = Append(@, e)])
              /\ todo' = [todo EXCEPT ![o] = s] /\ Goto(o, "wait")
           \/ /\ ~IsRead(e.type) /\ ~WriteAtOnce(q, e) /\ e.type # "TL_WRITE_DELAYED"
              /\ SetLock(d.lock, [q EXCEPT !.write_wait = Append(@, e)])
              /\ todo' = [todo EXCEPT ![o] = s] /\ Goto(o, "wait")
  BY DEF thr_lock, Request
<1>. DEFINE e == Request(o, d, unfit)
            readers == Append(q.read_wait, e)
            writers == Append(q.write_wait, e)
            rr == [q EXCEPT !.read_wait = Append(@, e)]
            rw == [q EXCEPT !.write_wait = Append(@, e)]
<1>2. /\ d.lock \in Locks /\ e \in Entry /\ e.owner = o /\ e.k = d.k
      /\ EntryOf(d.lock, e, D)
      /\ \A x \in GrantedIn(q) : ~(x.owner = e.owner /\ x.k = e.k)
      /\ \A x \in ToSet(q.write) :
           x.owner = e.owner /\ ~IsRead(e.type) => NoStronger(e.type, x.type)
      /\ \A x \in GrantedIn(q) : x.owner = e.owner /\ ~IsRead(e.type) => x \in ToSet(q.write)
      /\ \A x \in GrantedIn(q) :
           x.owner = e.owner /\ NoInsert(e) /\ IsRead(x.type) => NoInsert(x)
      /\ o \in Handlers => e.type = "TL_WRITE_DELAYED" /\ \A x \in GrantedIn(q) : x.owner # o
      /\ o \in Sessions => e.type # "TL_WRITE_DELAYED"
  BY RequestFacts
<1>3. /\ QueueInv(q) /\ Awake(q) /\ q \in THRLock /\ Distinct(q.read_wait) /\ Distinct(q.write_wait)
      /\ q.read_wait \in Seq(Entry) /\ q.write_wait \in Seq(Entry)
  <2>1. QueueInv(q) /\ Awake(q) /\ q \in THRLock
    BY <1>2, InvFacts
  <2>. QED BY <2>1, QueueTypes DEF QueueInv, EntriesInv
<1>4. \A x \in WaitingIn(q) : x.owner # e.owner
  BY <1>2 DEF Called
<1>5. e.type = "TL_WRITE_DELAYED" <=> o \in Handlers
  BY <1>2 DEF Threads
<1>6. e \notin ToSet(q.read_wait) /\ e \notin ToSet(q.write_wait)
  BY <1>4 DEF WaitingIn
<1>7. /\ readers \in Seq(Entry) /\ ToSet(readers) = ToSet(q.read_wait) \cup {e} /\ Distinct(readers)
      /\ writers \in Seq(Entry) /\ ToSet(writers) = ToSet(q.write_wait) \cup {e} /\ Distinct(writers)
  <2>. HIDE DEF q, e
  <2>. QED BY <1>2, <1>3, <1>6, AppendFacts
<1>8. writers # <<>>
  BY <1>7, EmptyFacts
<1>9. /\ rr \in THRLock /\ rr.read = q.read /\ rr.write = q.write
      /\ rr.read_no_write_count = q.read_no_write_count
      /\ rr.read_wait = readers /\ rr.write_wait = q.write_wait
  <2>1. rr = [q EXCEPT !.read_wait = readers]
    OBVIOUS
  <2>. HIDE DEF q, rr, readers
  <2>. QED BY <1>3, <1>7, <2>1 DEF THRLock
<1>10. /\ rw \in THRLock /\ rw.read = q.read /\ rw.write = q.write
       /\ rw.read_no_write_count = q.read_no_write_count
       /\ rw.write_wait = writers /\ rw.read_wait = q.read_wait
  <2>1. rw = [q EXCEPT !.write_wait = writers]
    OBVIOUS
  <2>. HIDE DEF q, rw, writers
  <2>. QED BY <1>3, <1>7, <2>1 DEF THRLock
<1>. HIDE DEF e
<1>11. CASE /\ IsRead(e.type) /\ ReadAtOnce(q, e)
            /\ SetLock(d.lock, [q EXCEPT !.read = Append(@, e),
                                  !.read_no_write_count = @ + (IF NoInsert(e) THEN 1 ELSE 0)])
            /\ LockRest(o, Tail(s))
  <2>. DEFINE r == [q EXCEPT !.read = Append(@, e),
                             !.read_no_write_count = @ + (IF NoInsert(e) THEN 1 ELSE 0)]
  <2>1. \A w \in ToSet(q.write) : w.owner # e.owner => Compatible(w, e)
    BY <1>2, <1>3, <1>11, ReadGranted
  <2>2. /\ QueueInv(r) /\ r.write = q.write /\ r.read # <<>>
        /\ ToSet(r.read) = ToSet(q.read) \cup {e}
        /\ r.read_wait = q.read_wait /\ r.write_wait = q.write_wait
    BY <1>2, <1>3, <1>4, <1>11, <2>1, AddReadFacts
  <2>3. SetLock(d.lock, r) /\ LockRest(o, Tail(s))
    BY <1>11
  <2>. HIDE DEF r
  <2>4. Awake(r)
    BY <1>3, <2>2 DEF Awake
  <2>5. GrantedIn(r) = GrantedIn(q) \cup {e} /\ WaitingIn(r) = WaitingIn(q)
    BY <2>2 DEF GrantedIn, WaitingIn
  <2>. QED BY <1>2, <1>5, <2>2, <2>3, <2>4, <2>5, AskedKeeps
<1>12. CASE /\ ~IsRead(e.type) /\ WriteAtOnce(q, e)
            /\ e.type = "TL_WRITE_DELAYED" => q.read = <<>>
            /\ SetLock(d.lock, [q EXCEPT !.write = Append(@, e)])
            /\ LockRest(o, Tail(s))
  <2>. DEFINE r == [q EXCEPT !.write = Append(@, e)]
  <2>1. /\ \A w \in ToSet(q.write) : w.owner # e.owner => Compatible(w, e)
        /\ \A f \in GrantedIn(q) : f.owner # e.owner => Compatible(e, f)
        /\ \A w \in ToSet(q.write) : NoStronger(e.type, w.type)
    BY <1>2, <1>3, <1>12, WriteGranted
  <2>2. /\ QueueInv(r) /\ r.read = q.read /\ r.write # <<>>
        /\ ToSet(r.write) = ToSet(q.write) \cup {e}
        /\ r.read_wait = q.read_wait /\ r.write_wait = q.write_wait
    BY <1>2, <1>3, <1>4, <1>12, <2>1, AddWriteFacts
  <2>3. SetLock(d.lock, r) /\ LockRest(o, Tail(s))
    BY <1>12
  <2>. HIDE DEF r
  <2>4. Awake(r)
    BY <2>2 DEF Awake
  <2>5. GrantedIn(r) = GrantedIn(q) \cup {e} /\ WaitingIn(r) = WaitingIn(q)
    BY <2>2 DEF GrantedIn, WaitingIn
  <2>. QED BY <1>2, <1>5, <2>2, <2>3, <2>4, <2>5, AskedKeeps
<1>13. CASE /\ e.type = "TL_WRITE_DELAYED" /\ (q.write # <<>> \/ q.read # <<>>)
            /\ SetLock(d.lock, rw) /\ LockRest(o, Tail(s))
  <2>1. ~IsRead(e.type) /\ o \in Handlers
    BY <1>5, <1>13, RankFacts DEF IsRead
  <2>. HIDE DEF rw, writers
  <2>2. QueueInv(rw) /\ GrantedIn(rw) = GrantedIn(q) /\ WaitingIn(rw) = WaitingIn(q) \cup {e}
    BY <1>2, <1>3, <1>4, <1>7, <1>10, <2>1, MoreWaiters, SMTT(40)
  <2>3. Awake(rw)
    BY <1>8, <1>10, <1>13 DEF Awake
  <2>. QED BY <1>2, <1>5, <1>10, <1>13, <2>1, <2>2, <2>3, AskedKeeps
<1>14. CASE /\ IsRead(e.type) /\ ~ReadAtOnce(q, e) /\ SetLock(d.lock, rr)
            /\ todo' = [todo EXCEPT ![o] = s] /\ Goto(o, "wait")
  <2>1. o \in Sessions
    BY <1>2, <1>14, RankFacts DEF Threads, IsRead
  <2>2. /\ \A x \in GrantedIn(q) : x.owner # e.owner
        /\ q.write # <<>> \/ (q.write_wait # <<>> /\ q.read # <<>>)
    BY <1>2, <1>3, <1>14, ReadQueued
  <2>. HIDE DEF rr, readers
  <2>3. QueueInv(rr) /\ GrantedIn(rr) = GrantedIn(q) /\ WaitingIn(rr) = WaitingIn(q) \cup {e}
    BY <1>2, <1>3, <1>4, <1>7, <1>9, <1>14, <2>2, MoreWaiters
  <2>4. Awake(rr)
    BY <1>9, <2>2 DEF Awake
  <2>. QED BY <1>2, <1>5, <1>9, <1>14, <2>1, <2>3, <2>4, AskedKeeps
<1>15. CASE /\ ~IsRead(e.type) /\ ~WriteAtOnce(q, e) /\ e.type # "TL_WRITE_DELAYED"
            /\ SetLock(d.lock, rw)
            /\ todo' = [todo EXCEPT ![o] = s] /\ Goto(o, "wait")
  <2>1. o \in Sessions
    BY <1>5, <1>15 DEF Threads
  <2>2. /\ \A x \in GrantedIn(q) : x.owner # e.owner
        /\ q.write # <<>> \/ q.read # <<>>
    BY <1>2, <1>3, <1>15, WriteQueued
  <2>. HIDE DEF rw, writers
  <2>3. QueueInv(rw) /\ GrantedIn(rw) = GrantedIn(q) /\ WaitingIn(rw) = WaitingIn(q) \cup {e}
    BY <1>2, <1>3, <1>4, <1>7, <1>10, <1>15, <2>2, MoreWaiters
  <2>4. Awake(rw)
    BY <1>8, <1>10, <2>2 DEF Awake
  <2>. QED BY <1>2, <1>5, <1>10, <1>15, <2>1, <2>3, <2>4, AskedKeeps
<1>. QED BY <1>1, <1>11, <1>12, <1>13, <1>14, <1>15 DEF e

-----------------------------------------------------------------------------
(* thr_multi_lock() and wait_for_lock().                                   *)

LEMMA MultiLockKeeps ==
  ASSUME ThrLockInv, NEW o \in Threads, thr_multi_lock(o)
  PROVE  ThrLockInv'
<1>1. PICK r \in IF o \in Handlers THEN {<<[lock |-> DelayedLock, type |-> "TL_WRITE_DELAYED"]>>}
                 ELSE Requests :
        LET D == [n \in DOMAIN r |-> [k |-> n, lock |-> r[n].lock, type |-> r[n].type]]
        IN data' = [data EXCEPT ![o] = D] /\ thr_lock(o, sort_locks(D))
  BY DEF thr_multi_lock
<1>. DEFINE D == [n \in DOMAIN r |-> [k |-> n, lock |-> r[n].lock, type |-> r[n].type]]
            s == sort_locks(D)
<1>2. pc[o] = "idle" /\ ThreadInv(o) /\ data[o] = <<>>
  BY InvFacts DEF thr_multi_lock, ThreadInv
<1>3. /\ r \in Seq([lock : Locks, type : Types]) /\ r # <<>>
      /\ o \in Handlers => r = <<[lock |-> DelayedLock, type |-> "TL_WRITE_DELAYED"]>>
      /\ o \in Sessions => r \in Seq([lock : Locks, type : Types \ {"TL_WRITE_DELAYED"}])
  <2>1. CASE o \in Handlers
    <3>1. r = <<[lock |-> DelayedLock, type |-> "TL_WRITE_DELAYED"]>>
      BY <1>1, <2>1
    <3>2. DelayedLock \in Locks /\ "TL_WRITE_DELAYED" \in Types /\ o \notin Sessions
      BY <2>1, LocksAssumption, TypeFacts
    <3>. QED BY <3>1, <3>2
  <2>2. CASE o \notin Handlers
    <3>1. r \in Requests
      BY <1>1, <2>2
    <3>2. r \in Seq([lock : Locks, type : Types \ {"TL_WRITE_DELAYED"}]) /\ r # <<>>
      BY <3>1, RequestsAssumption DEF Types
    <3>. DEFINE T == [lock : Locks, type : Types \ {"TL_WRITE_DELAYED"}]
    <3>3. PICK n \in Nat : r \in [1 .. n -> T]
      <4>1. r \in Seq(T)
        BY <3>2
      <4>. HIDE DEF T
      <4>. QED BY <4>1, SeqDef
    <3>4. r \in Seq([lock : Locks, type : Types])
      <4>1. r \in [1 .. n -> [lock : Locks, type : Types]]
        BY <3>3
      <4>. QED BY <4>1, SeqDef
    <3>. QED BY <2>2, <3>2, <3>4
  <2>. QED BY <2>1, <2>2
<1>4. /\ DOMAIN r = 1 .. Len(r) /\ Len(r) \in Nat /\ Len(r) # 0
      /\ \A n \in 1 .. Len(r) : r[n] \in [lock : Locks, type : Types]
  BY <1>3, LenProperties, ElementOfSeq, EmptySeq
<1>5. D \in Seq(THRLockData) /\ DOMAIN D = 1 .. Len(r) /\ D # <<>> /\ \A i \in DOMAIN D : D[i].k = i
  <2>1. \A n \in 1 .. Len(r) : [k |-> n, lock |-> r[n].lock, type |-> r[n].type] \in THRLockData
    BY <1>4 DEF THRLockData
  <2>2. D \in [1 .. Len(r) -> THRLockData]
    BY <1>4, <2>1
  <2>3. D \in Seq(THRLockData)
    BY <1>4, <2>2, SeqDef
  <2>4. 1 \in DOMAIN D
    BY <1>4
  <2>. QED BY <1>4, <2>3, <2>4
<1>6. o \in Handlers => D = DelayedData
  <2>. SUFFICES ASSUME o \in Handlers PROVE D = DelayedData
    OBVIOUS
  <2>1. r = <<[lock |-> DelayedLock, type |-> "TL_WRITE_DELAYED"]>>
    BY <1>3
  <2>. QED BY <2>1 DEF DelayedData
<1>7. o \in Sessions => \A i \in DOMAIN D : D[i].type # "TL_WRITE_DELAYED"
  <2>. SUFFICES ASSUME o \in Sessions, NEW i \in 1 .. Len(r) PROVE D[i].type # "TL_WRITE_DELAYED"
    BY <1>4
  <2>1. r \in Seq([lock : Locks, type : Types \ {"TL_WRITE_DELAYED"}])
    BY <1>3
  <2>2. r[i] \in [lock : Locks, type : Types \ {"TL_WRITE_DELAYED"}]
    BY <2>1, ElementOfSeq
  <2>3. r[i].type # "TL_WRITE_DELAYED"
    BY <2>2
  <2>. QED BY <1>4, <2>3
<1>8. data' = [data EXCEPT ![o] = D] /\ thr_lock(o, s)
  BY <1>1
<1>. HIDE DEF D
<1>9. s \in Seq(THRLockData) /\ Len(s) = Len(D) /\ ToSet(s) = ToSet(D)
  BY <1>5, SortFacts
<1>10. s # <<>> /\ Remains(s, s)
  <2>1. Len(D) \in Nat /\ Len(D) # 0
    BY <1>5, EmptySeq, LenProperties
  <2>. HIDE DEF s
  <2>2. s # <<>>
    BY <1>9, <2>1
  <2>3. \A i \in 1 .. Len(s) : Len(s) - Len(s) + i = i
    BY <1>9, <2>1
  <2>. QED BY <1>9, <2>1, <2>2, <2>3 DEF Remains
<1>11. \A l \in Locks : \A e \in GrantedIn(locks[l]) \cup WaitingIn(locks[l]) : e.owner # o
  BY <1>2, InvFacts DEF EntryInv, EntryOf
<1>12. Called(o, s, D)
  BY <1>5, <1>6, <1>7, <1>9, <1>10, <1>11 DEF Called
<1>. QED BY <1>8, <1>12, ThrLockKeeps

LEMMA LockNextKeeps ==
  ASSUME ThrLockInv, NEW o \in Threads, LockNext(o)
  PROVE  ThrLockInv'
<1>1. /\ pc[o] = "lock" /\ thr_lock(o, todo[o]) /\ data' = data
      /\ ThreadInv(o) /\ HoldsInv(o) /\ o \in Sessions /\ o \notin Handlers
  BY InvFacts, LocksAssumption DEF LockNext, ThreadInv, Threads
<1>2. data' = [data EXCEPT ![o] = data[o]]
  BY <1>1 DEF ThrLockInv
<1>3. \A l \in Locks : \A e \in GrantedIn(locks[l]) :
        e.owner = o => EntryOf(l, e, data[o]) /\ data[o][e.k] \notin ToSet(todo[o])
  BY <1>1, InvFacts DEF EntryInv
<1>4. \A l \in Locks : \A e \in WaitingIn(locks[l]) : e.owner # o
  BY <1>1, InvFacts DEF QueuedInv
<1>5. Called(o, todo[o], data[o])
  BY <1>1, <1>3, <1>4 DEF Called, ThreadInv, HoldsInv
<1>. QED BY <1>1, <1>2, <1>5, ThrLockKeeps

LEMMA InFacts ==
  ASSUME NEW q, NEW o, NEW k
  PROVE  /\ Granted(q, o, k) <=> \E e \in GrantedIn(q) : Is(e, o, k)
         /\ Queued(q, o, k) <=> \E e \in WaitingIn(q) : Is(e, o, k)
BY DEF Granted, Queued, In, GrantedIn, WaitingIn, ToSet

(* The lock a thread waits for.                                            *)
LEMMA AwaitedFacts ==
  ASSUME ThrLockInv, NEW o \in Threads, pc[o] = "wait"
  PROVE  LET d == Awaited(o)
         IN /\ d \in THRLockData /\ d.lock \in Locks /\ d.k \in DOMAIN data[o]
            /\ d = data[o][d.k]
            /\ o \in Handlers => /\ data[o] = DelayedData /\ d = data[o][1] /\ d.k = 1
                                 /\ d.lock = DelayedLock /\ o \notin Sessions
            /\ o \notin Handlers => /\ d = Head(todo[o]) /\ o \in Sessions /\ todo[o] # <<>>
                                    /\ Remains(todo[o], sort_locks(data[o]))
            /\ \A l \in Locks : \A e \in WaitingIn(locks[l]) :
                 e.owner = o => l = d.lock /\ e.k = d.k
<1>. DEFINE d == Awaited(o)
<1>1. ThreadInv(o)
  BY InvFacts
<1>2. /\ d \in THRLockData /\ d.k \in DOMAIN data[o] /\ d = data[o][d.k]
      /\ o \in Handlers => /\ data[o] = DelayedData /\ d = data[o][1] /\ d.k = 1
                           /\ d.lock = DelayedLock /\ o \notin Sessions
      /\ o \notin Handlers => /\ d = Head(todo[o]) /\ o \in Sessions /\ todo[o] # <<>>
                              /\ Remains(todo[o], sort_locks(data[o]))
  <2>1. CASE o \in Handlers
    <3>1. data[o] = DelayedData /\ d = data[o][1] /\ DOMAIN data[o] = {1}
      BY <1>1, <2>1 DEF ThreadInv, Awaited, DelayedData
    <3>2. d = [k |-> 1, lock |-> DelayedLock, type |-> "TL_WRITE_DELAYED"]
      BY <3>1 DEF DelayedData
    <3>3. d \in THRLockData
      BY <3>2, LocksAssumption, TypeFacts DEF THRLockData
    <3>4. o \notin Sessions
      BY <2>1, LocksAssumption
    <3>5. d.k = 1 /\ d.lock = DelayedLock
      BY <3>2
    <3>. HIDE DEF d
    <3>. QED BY <2>1, <3>1, <3>3, <3>4, <3>5
  <2>2. CASE o \notin Handlers
    <3>1. /\ d = Head(todo[o]) /\ o \in Sessions /\ todo[o] # <<>>
          /\ Remains(todo[o], sort_locks(data[o]))
          /\ data[o] \in Seq(THRLockData) /\ todo[o] \in Seq(THRLockData)
          /\ \A i \in DOMAIN data[o] : data[o][i].k = i
      BY <1>1, <2>2 DEF ThreadInv, Awaited, Threads
    <3>. QED BY <2>2, <3>1, SortedFacts
  <2>. QED BY <2>1, <2>2
<1>3. d.lock \in Locks
  BY <1>2 DEF THRLockData
<1>. HIDE DEF d
<1>4. ASSUME NEW l \in Locks, NEW e \in WaitingIn(locks[l]), e.owner = o
      PROVE  l = d.lock /\ e.k = d.k
  <2>1. EntryOf(l, e, data[o]) /\ QueuedInv(l, e)
    BY <1>4, InvFacts DEF EntryInv
  <2>2. data[o][e.k] = d
    <3>1. CASE o \in Handlers
      <4>1. e.k = 1
        BY <1>2, <2>1, <3>1 DEF EntryOf, DelayedData
      <4>. QED BY <1>2, <3>1, <4>1
    <3>2. CASE o \notin Handlers
      BY <1>2, <1>4, <2>1, <3>2 DEF QueuedInv
    <3>. QED BY <3>1, <3>2
  <2>. QED BY <1>1, <2>1, <2>2 DEF EntryOf, ThreadInv
<1>. QED BY <1>2, <1>3, <1>4 DEF d

LEMMA GotKeeps ==
  ASSUME ThrLockInv, NEW o \in Threads, Got(o)
  PROVE  ThrLockInv'
<1>. DEFINE d == Awaited(o)
            l == d.lock
<1>1. /\ pc[o] = "wait" /\ Granted(locks[l], o, d.k)
      /\ IF o \in Handlers THEN Goto(o, "insert") /\ UNCHANGED todo
         ELSE LockRest(o, Tail(todo[o]))
      /\ locks' = locks /\ data' = data /\ overtaken' = overtaken
  BY DEF Got
<1>2. /\ d \in THRLockData /\ l \in Locks /\ d.k \in DOMAIN data[o] /\ d = data[o][d.k]
      /\ o \in Handlers => /\ data[o] = DelayedData /\ d = data[o][1] /\ d.k = 1
                           /\ l = DelayedLock /\ o \notin Sessions
      /\ o \notin Handlers => /\ d = Head(todo[o]) /\ o \in Sessions /\ todo[o] # <<>>
                              /\ Remains(todo[o], sort_locks(data[o]))
      /\ \A m \in Locks : \A e \in WaitingIn(locks[m]) : e.owner = o => m = l /\ e.k = d.k
  BY <1>1, AwaitedFacts
<1>. HIDE DEF d
<1>3. PICK g \in GrantedIn(locks[l]) : Is(g, o, d.k)
  BY <1>1, InFacts
<1>4. g.owner = o /\ g.k = d.k
  BY <1>3 DEF Is
<1>5. \A m \in Locks : \A e \in WaitingIn(locks[m]) : e.owner # o
  <2>1. \A e \in WaitingIn(locks[l]), f \in GrantedIn(locks[l]) : e.owner # f.owner
    BY <1>2, InvFacts DEF QueueInv, WaitersInv
  <2>. QED BY <1>2, <1>3, <1>4, <2>1
<1>6. /\ locks \in [Locks -> THRLock] /\ pc \in [Threads -> Positions]
      /\ data \in [Threads -> Seq(THRLockData)] /\ todo \in [Threads -> Seq(THRLockData)]
      /\ overtaken \in [Threads -> Nat] /\ ThreadInv(o) /\ HoldsInv(o)
      /\ QueueInv(locks[l]) /\ Awake(locks[l]) /\ EntryInv(l, g)
  BY <1>2, <1>3, InvFacts DEF ThrLockInv
<1>7. locks' = [locks EXCEPT ![l] = locks[l]]
  BY <1>1, <1>6
<1>8. Follows(locks[l], locks[l], o)
  <2>1. \A f : Became(f, f)
    BY DEF Became
  <2>. QED BY <2>1 DEF Follows
<1>9. CASE o \in Handlers
  <2>1. pc' = [pc EXCEPT ![o] = "insert"] /\ todo' = todo /\ "insert" \in Positions
    BY <1>1, <1>9 DEF Goto, Positions
  <2>2. /\ pc' \in [Threads -> Positions] /\ pc'[o] = "insert"
        /\ \A p \in Threads \ {o} : pc'[p] = pc[p] /\ data'[p] = data[p] /\ todo'[p] = todo[p]
    BY <1>1, <1>6, <2>1
  <2>3. ThreadInv(o)'
    BY <1>1, <1>2, <1>6, <1>9, <2>1, <2>2 DEF ThreadInv
  <2>4. g \in ToSet(locks[DelayedLock].write)
    <3>1. g.type = delayed_lock
      BY <1>1, <1>4, <1>6, <1>9 DEF EntryInv
    <3>2. ~IsRead(g.type)
      BY <3>1, HandlerTypes
    <3>. QED BY <1>2, <1>3, <1>6, <1>9, <3>2 DEF QueueInv, EntriesInv, GrantedIn
  <2>5. HoldsInv(o)'
    BY <1>1, <1>2, <1>4, <1>9, <2>2, <2>4 DEF HoldsInv
  <2>6. ASSUME NEW m \in Locks, NEW e \in GrantedIn(locks'[m]), e.owner = o PROVE EntryInv(m, e)'
    <3>1. EntryInv(m, e)
      BY <1>1, <2>6, InvFacts
    <3>. QED BY <1>1, <1>2, <1>9, <2>2, <2>6, <3>1 DEF EntryInv, EntryOf
  <2>7. /\ data' \in [Threads -> Seq(THRLockData)] /\ todo' \in [Threads -> Seq(THRLockData)]
        /\ overtaken' \in [Threads -> Nat]
    BY <1>1, <1>6, <2>1
  <2>8. \A m \in Locks : \A e \in WaitingIn(locks'[m]) : e.owner # o
    BY <1>1, <1>5
  <2>. QED BY <1>2, <1>6, <1>7, <1>8, <2>2, <2>3, <2>5, <2>6, <2>7, <2>8, StepKeeps, ZenonT(60)
<1>10. CASE o \notin Handlers
  <2>. DEFINE rest == Tail(todo[o])
              at == IF rest = <<>> THEN "run" ELSE "lock"
  <2>1. pc' = [pc EXCEPT ![o] = at] /\ todo' = [todo EXCEPT ![o] = rest] /\ at \in Positions
    BY <1>1, <1>10 DEF LockRest, Goto, Positions
  <2>2. /\ rest \in Seq(THRLockData) /\ ToSet(todo[o]) = ToSet(rest) \cup {d}
        /\ ToSet(todo[o]) \subseteq ToSet(data[o]) /\ d \notin ToSet(rest)
        /\ Remains(rest, sort_locks(data[o]))
    <3>1. /\ data[o] \in Seq(THRLockData) /\ \A i \in DOMAIN data[o] : data[o][i].k = i
          /\ todo[o] \in Seq(THRLockData) /\ ToSet(todo[o]) \subseteq ToSet(data[o])
      BY <1>6 DEF ThreadInv
    <3>2. /\ todo[o] # <<>> /\ Remains(todo[o], sort_locks(data[o])) /\ d = Head(todo[o])
      BY <1>2, <1>10
    <3>. QED BY <3>1, <3>2, SortedFacts
  <2>. HIDE DEF rest
  <2>3. /\ pc' \in [Threads -> Positions] /\ pc'[o] = at /\ todo'[o] = rest /\ data'[o] = data[o]
        /\ todo' \in [Threads -> Seq(THRLockData)]
        /\ \A p \in Threads \ {o} : pc'[p] = pc[p] /\ data'[p] = data[p] /\ todo'[p] = todo[p]
    <3>. HIDE DEF at
    <3>. QED BY <1>1, <1>6, <2>1, <2>2
  <2>4. data' \in [Threads -> Seq(THRLockData)] /\ overtaken' \in [Threads -> Nat]
    BY <1>1, <1>6
  <2>5. ThreadInv(o)'
    <3>1. pc'[o] \in {"run", "lock"} /\ (pc'[o] = "run" <=> rest = <<>>)
      BY <2>3
    <3>. HIDE DEF at
    <3>. QED BY <1>1, <1>2, <1>6, <1>10, <2>2, <2>3, <3>1 DEF ThreadInv
  <2>6. HoldsInv(o)'
    <3>1. ASSUME NEW x \in ToSet(data[o]) \ ToSet(rest) PROVE Has(o, x)
      <4>1. CASE x = d
        BY <1>3, <1>4, <4>1 DEF Has
      <4>2. CASE x # d
        BY <1>1, <1>2, <1>6, <1>10, <2>2, <3>1, <4>2 DEF HoldsInv
      <4>. QED BY <4>1, <4>2
    <3>2. pc'[o] # "insert"
      BY <2>3
    <3>3. \A x \in ToSet(data[o]) \ ToSet(rest) : Has(o, x)'
      BY <1>1, <3>1 DEF Has
    <3>. QED BY <2>3, <3>2, <3>3 DEF HoldsInv
  <2>7. ASSUME NEW m \in Locks, NEW e \in GrantedIn(locks'[m]), e.owner = o PROVE EntryInv(m, e)'
    <3>1. EntryInv(m, e)
      BY <1>1, <2>7, InvFacts
    <3>2. data[o][e.k] \notin ToSet(rest)
      BY <1>1, <1>2, <1>10, <2>2, <2>7, <3>1 DEF EntryInv
    <3>3. EntryOf(m, e, data[e.owner])'
      BY <1>1, <3>1 DEF EntryInv, EntryOf
    <3>4. pc'[o] # "unlock"
      BY <2>3
    <3>. HIDE DEF at
    <3>. QED BY <1>2, <1>10, <2>3, <2>7, <3>2, <3>3, <3>4 DEF EntryInv
  <2>8. \A m \in Locks : \A e \in WaitingIn(locks'[m]) : e.owner # o
    BY <1>1, <1>5
  <2>. HIDE DEF at
  <2>. QED BY <1>2, <1>6, <1>7, <1>8, <2>3, <2>4, <2>5, <2>6, <2>7, <2>8, StepKeeps, ZenonT(60)
<1>. QED BY <1>9, <1>10

-----------------------------------------------------------------------------
(* Leaving a lock.                                                         *)

LEMMA UnlockRestKeeps ==
  ASSUME ThrLockInv, NEW o \in Threads, NEW l \in Locks, NEW r, NEW rest,
         locks' = [locks EXCEPT ![l] = r], overtaken' \in [Threads -> Nat],
         QueueInv(r), Awake(r), Follows(locks[l], r, o), pc[o] # "idle",
         rest \in Seq(THRLockData), ToSet(rest) \subseteq ToSet(data[o]),
         o \in Handlers => rest = <<>>,
         \A m \in Locks : \A e \in GrantedIn(locks'[m]) :
            e.owner = o => EntryOf(m, e, data[o]) /\ data[o][e.k] \in ToSet(rest),
         \A m \in Locks : \A e \in WaitingIn(locks'[m]) : e.owner # o,
         UnlockRest(o, rest)
  PROVE  ThrLockInv'
<1>. DEFINE at == IF rest = <<>> THEN "idle" ELSE "unlock"
            D == IF rest = <<>> THEN <<>> ELSE data[o]
<1>1. /\ pc \in [Threads -> Positions] /\ data \in [Threads -> Seq(THRLockData)]
      /\ todo \in [Threads -> Seq(THRLockData)] /\ ThreadInv(o) /\ data[o] \in Seq(THRLockData)
  BY InvFacts DEF ThrLockInv
<1>2. at \in Positions /\ D \in Seq(THRLockData)
  BY <1>1 DEF Positions
<1>3. /\ todo' = [todo EXCEPT ![o] = rest] /\ data' = [data EXCEPT ![o] = D]
      /\ pc' = [pc EXCEPT ![o] = at]
  BY DEF UnlockRest, Goto
<1>4. /\ pc' \in [Threads -> Positions] /\ data' \in [Threads -> Seq(THRLockData)]
      /\ todo' \in [Threads -> Seq(THRLockData)]
      /\ pc'[o] = at /\ data'[o] = D /\ todo'[o] = rest
      /\ \A p \in Threads \ {o} : pc'[p] = pc[p] /\ data'[p] = data[p] /\ todo'[p] = todo[p]
  <2>. HIDE DEF at, D
  <2>. QED BY <1>1, <1>2, <1>3
<1>5. o \in Sessions \/ o \in Handlers
  BY DEF Threads
<1>6. CASE rest = <<>>
  <2>1. pc'[o] = "idle" /\ data'[o] = <<>> /\ todo'[o] = <<>>
    BY <1>4, <1>6
  <2>2. ThreadInv(o)' /\ HoldsInv(o)'
    BY <2>1, EmptyFacts DEF ThreadInv, HoldsInv
  <2>3. \A m \in Locks : \A e \in GrantedIn(locks'[m]) : e.owner # o
    BY <1>6, EmptyFacts
  <2>. QED BY <1>4, <2>2, <2>3, StepKeeps
<1>7. CASE rest # <<>>
  <2>1. /\ pc'[o] = "unlock" /\ data'[o] = data[o] /\ todo'[o] = rest
        /\ o \in Sessions /\ o \notin Handlers
    BY <1>4, <1>5, <1>7
  <2>2. ThreadInv(o)' /\ HoldsInv(o)'
    BY <1>1, <1>7, <2>1 DEF ThreadInv, HoldsInv
  <2>3. \A m \in Locks : \A e \in GrantedIn(locks'[m]) : e.owner = o => EntryInv(m, e)'
    <3>. SUFFICES ASSUME NEW m \in Locks, NEW e \in GrantedIn(locks'[m]), e.owner = o
                  PROVE  EntryInv(m, e)'
      OBVIOUS
    <3>1. EntryOf(m, e, data[o]) /\ data[o][e.k] \in ToSet(rest)
      OBVIOUS
    <3>2. EntryOf(m, e, data[e.owner])'
      BY <2>1, <3>1 DEF EntryOf
    <3>. QED BY <2>1, <3>1, <3>2 DEF EntryInv
  <2>. QED BY <1>4, <2>2, <2>3, StepKeeps
<1>. QED BY <1>6, <1>7

(* p is q without some of the requests of o; then others are woken up.     *)
LEMMA WakeFollows ==
  ASSUME NEW q, QueueInv(q), NEW p, QueueInv(p), NEW o, NEW unfit \in BOOLEAN,
         GrantedIn(p) \subseteq GrantedIn(q), WaitingIn(p) \subseteq WaitingIn(q),
         \A e \in ToSet(q.read) : e.owner # o => e \in ToSet(p.read),
         \A e \in ToSet(q.write) : e.owner # o => e \in ToSet(p.write)
  PROVE  LET r == wake_up_waiters(p, unfit)
         IN /\ QueueInv(r) /\ Awake(r) /\ Follows(q, r, o)
            /\ ToSet(p.read) \subseteq ToSet(r.read) /\ ToSet(p.write) \subseteq ToSet(r.write)
            /\ (\A e \in WaitingIn(p) : e.owner # o) =>
                 /\ \A f \in GrantedIn(r) : f.owner = o => f \in GrantedIn(p)
                 /\ \A f \in WaitingIn(r) : f.owner # o
<1>. DEFINE r == wake_up_waiters(p, unfit)
<1>1. QueueInv(r) /\ Moved(p, r) /\ Awake(r)
  BY WakeFacts
<1>2. WaitingIn(q) \subseteq Entry
  BY QueueTypes DEF QueueInv, EntriesInv
<1>. HIDE DEF r
<1>3. Follows(q, r, o)
  BY <1>1 DEF Moved, Follows
<1>4. ToSet(p.read) \subseteq ToSet(r.read) /\ ToSet(p.write) \subseteq ToSet(r.write)
  BY <1>1 DEF Moved
<1>5. \A e \in WaitingIn(p) : \A f : Became(e, f) => f.owner = e.owner
  BY <1>2 DEF Became, Entry
<1>6. (\A e \in WaitingIn(p) : e.owner # o) =>
        /\ \A f \in GrantedIn(r) : f.owner = o => f \in GrantedIn(p)
        /\ \A f \in WaitingIn(r) : f.owner # o
  BY <1>1, <1>5 DEF Moved
<1>. QED BY <1>1, <1>3, <1>4, <1>6 DEF r

(* What thr_multi_lock() still has to unlock when a wait fails.            *)
LEMMA FailFacts ==
  ASSUME ThrLockInv, NEW o \in Threads, pc[o] = "wait" \/ o \in Handlers, pc[o] # "idle"
  PROVE  LET rest == IF o \in Handlers THEN <<>>
                     ELSE SubSeq(sort_locks(data[o]), 1, Len(data[o]) - Len(todo[o]))
         IN /\ rest \in Seq(THRLockData) /\ ToSet(rest) \subseteq ToSet(data[o])
            /\ o \in Handlers => rest = <<>>
            /\ o \notin Handlers =>
                 \A x \in ToSet(data[o]) : x \in ToSet(todo[o]) \/ x \in ToSet(rest)
<1>1. CASE o \in Handlers
  BY <1>1, EmptyFacts
<1>2. CASE o \notin Handlers
  <2>. DEFINE D == data[o]
              s == todo[o]
              t == sort_locks(D)
              n == Len(s)
              N == Len(D)
              rest == SubSeq(t, 1, N - n)
  <2>1. /\ D \in Seq(THRLockData) /\ s \in Seq(THRLockData) /\ Remains(s, t)
    BY <1>2, InvFacts DEF ThreadInv, Threads
  <2>2. t \in Seq(THRLockData) /\ Len(t) = N /\ ToSet(t) = ToSet(D)
    BY <2>1, SortFacts
  <2>3. N \in Nat /\ n \in Nat /\ DOMAIN t = 1 .. N /\ DOMAIN s = 1 .. n
    BY <2>1, <2>2, LenProperties
  <2>4. n <= N /\ \A i \in 1 .. n : s[i] = t[N - n + i]
    BY <2>1, <2>2 DEF Remains
  <2>5. PICK m \in Nat : m = N - n /\ m \in 0 .. N
    <3>. HIDE DEF N, n
    <3>. QED BY <2>3, <2>4
  <2>6. rest \in Seq(THRLockData) /\ ToSet(rest) = {t[i] : i \in 1 .. m}
    BY <2>2, <2>5, PrefixFacts
  <2>. HIDE DEF rest, t, n, N, s, D
  <2>7. ToSet(rest) \subseteq ToSet(t)
    <3>1. \A i \in 1 .. m : i \in 1 .. N
      BY <2>3, <2>5
    <3>2. ToSet(t) = {t[i] : i \in 1 .. N}
      BY <2>3 DEF ToSet
    <3>. QED BY <2>6, <3>1, <3>2
  <2>8. ASSUME NEW x \in ToSet(D), x \notin ToSet(rest) PROVE x \in ToSet(s)
    <3>1. PICK i \in 1 .. N : x = t[i]
      BY <2>2, <2>3, <2>8 DEF ToSet
    <3>2. ~(i \in 1 .. m)
      BY <2>6, <2>8, <3>1
    <3>3. i - m \in 1 .. n /\ N - n + (i - m) = i
      BY <2>3, <2>5, <3>2
    <3>4. s[i - m] = x
      BY <2>4, <3>1, <3>3
    <3>. QED BY <2>3, <3>3, <3>4 DEF ToSet
  <2>. QED BY <1>2, <2>2, <2>6, <2>7, <2>8 DEF rest, t, n, N, s, D
<1>. QED BY <1>1, <1>2

LEMMA AbortedKeeps ==
  ASSUME ThrLockInv, NEW o \in Threads, Aborted(o)
  PROVE  ThrLockInv'
<1>. DEFINE d == Awaited(o)
            l == d.lock
            rest == IF o \in Handlers THEN <<>>
                    ELSE SubSeq(sort_locks(data[o]), 1, Len(data[o]) - Len(todo[o]))
<1>1. /\ pc[o] = "wait" /\ ~Granted(locks[l], o, d.k) /\ ~Queued(locks[l], o, d.k)
      /\ locks' = locks /\ overtaken' = overtaken /\ UnlockRest(o, rest)
  BY DEF Aborted, Fail
<1>2. /\ d \in THRLockData /\ l \in Locks /\ d.k \in DOMAIN data[o] /\ d = data[o][d.k]
      /\ o \in Handlers => /\ data[o] = DelayedData /\ d = data[o][1] /\ d.k = 1
                           /\ l = DelayedLock /\ o \notin Sessions
      /\ o \notin Handlers => d = Head(todo[o]) /\ o \in Sessions /\ todo[o] # <<>>
      /\ \A m \in Locks : \A e \in WaitingIn(locks[m]) : e.owner = o => m = l /\ e.k = d.k
  BY <1>1, AwaitedFacts
<1>3. /\ rest \in Seq(THRLockData) /\ ToSet(rest) \subseteq ToSet(data[o])
      /\ o \in Handlers => rest = <<>>
      /\ o \notin Handlers => \A x \in ToSet(data[o]) : x \in ToSet(todo[o]) \/ x \in ToSet(rest)
  BY <1>1, FailFacts
<1>. HIDE DEF d, rest
<1>4. /\ \A e \in GrantedIn(locks[l]) : ~(e.owner = o /\ e.k = d.k)
      /\ \A m \in Locks : \A e \in WaitingIn(locks[m]) : e.owner # o
  BY <1>1, <1>2, InFacts DEF Is
<1>5. ASSUME NEW m \in Locks, NEW e \in GrantedIn(locks[m]), e.owner = o
      PROVE  EntryOf(m, e, data[o]) /\ data[o][e.k] \in ToSet(rest)
  <2>1. EntryInv(m, e) /\ EntryOf(m, e, data[o])
    BY <1>5, InvFacts DEF EntryInv
  <2>2. ~(m = l /\ e.k = d.k)
    BY <1>4, <1>5
  <2>3. o \notin Handlers
    BY <1>2, <2>1, <2>2 DEF EntryOf, DelayedData
  <2>4. data[o][e.k] # d
    BY <1>2, <2>1, <2>2, InvFacts DEF EntryOf, ThreadInv
  <2>5. data[o][e.k] \notin ToSet(todo[o])
    BY <1>1, <1>2, <1>5, <2>1, <2>3, <2>4 DEF EntryInv
  <2>6. data[o][e.k] \in ToSet(data[o])
    BY <2>1 DEF EntryOf, ToSet
  <2>. QED BY <1>3, <2>1, <2>3, <2>5, <2>6
<1>6. /\ locks \in [Locks -> THRLock] /\ overtaken \in [Threads -> Nat]
      /\ QueueInv(locks[l]) /\ Awake(locks[l])
  BY <1>2, InvFacts DEF ThrLockInv
<1>7. locks' = [locks EXCEPT ![l] = locks[l]]
  BY <1>1, <1>6
<1>8. Follows(locks[l], locks[l], o)
  <2>1. \A f : Became(f, f)
    BY DEF Became
  <2>. QED BY <2>1 DEF Follows
<1>9. /\ \A m \in Locks : \A e \in GrantedIn(locks'[m]) :
           e.owner = o => EntryOf(m, e, data[o]) /\ data[o][e.k] \in ToSet(rest)
      /\ \A m \in Locks : \A e \in WaitingIn(locks'[m]) : e.owner # o
  BY <1>1, <1>4, <1>5
<1>. QED BY <1>1, <1>2, <1>3, <1>6, <1>7, <1>8, <1>9, UnlockRestKeeps

LEMMA WaitForLockKeeps ==
  ASSUME ThrLockInv, NEW o \in Threads, wait_for_lock(o)
  PROVE  ThrLockInv'
<1>. DEFINE d == Awaited(o)
            l == d.lock
            q == locks[l]
            p == [q EXCEPT !.read_wait = Without(@, o, d.k), !.write_wait = Without(@, o, d.k)]
            rest == IF o \in Handlers THEN <<>>
                    ELSE SubSeq(sort_locks(data[o]), 1, Len(data[o]) - Len(todo[o]))
<1>1. /\ pc[o] = "wait" /\ Queued(q, o, d.k) /\ UnlockRest(o, rest)
      /\ \E unfit \in BOOLEAN : SetLock(l, wake_up_waiters(p, unfit))
  BY DEF wait_for_lock, Fail
<1>2. /\ d \in THRLockData /\ l \in Locks /\ d.k \in DOMAIN data[o] /\ d = data[o][d.k]
      /\ o \in Handlers => /\ data[o] = DelayedData /\ d = data[o][1] /\ d.k = 1
                           /\ l = DelayedLock /\ o \notin Sessions
      /\ o \notin Handlers => d = Head(todo[o]) /\ o \in Sessions /\ todo[o] # <<>>
      /\ \A m \in Locks : \A e \in WaitingIn(locks[m]) : e.owner = o => m = l /\ e.k = d.k
  BY <1>1, AwaitedFacts
<1>3. /\ rest \in Seq(THRLockData) /\ ToSet(rest) \subseteq ToSet(data[o])
      /\ o \in Handlers => rest = <<>>
      /\ o \notin Handlers => \A x \in ToSet(data[o]) : x \in ToSet(todo[o]) \/ x \in ToSet(rest)
  BY <1>1, FailFacts
<1>4. PICK unfit \in BOOLEAN : SetLock(l, wake_up_waiters(p, unfit))
  BY <1>1
<1>5. /\ QueueInv(q) /\ q \in THRLock /\ locks \in [Locks -> THRLock]
      /\ q.read_wait \in Seq(Entry) /\ q.write_wait \in Seq(Entry)
      /\ Distinct(q.read_wait) /\ Distinct(q.write_wait) /\ Distinct(q.read) /\ Distinct(q.write)
  <2>1. QueueInv(q) /\ q \in THRLock /\ locks \in [Locks -> THRLock]
    BY <1>2, InvFacts DEF ThrLockInv
  <2>. QED BY <2>1, QueueTypes DEF QueueInv, EntriesInv
<1>. HIDE DEF d, rest, q
<1>6. /\ p \in THRLock /\ p.read = q.read /\ p.write = q.write
      /\ p.read_no_write_count = q.read_no_write_count
      /\ p.read_wait = Without(q.read_wait, o, d.k) /\ p.write_wait = Without(q.write_wait, o, d.k)
  <2>1. Without(q.read_wait, o, d.k) \in Seq(Entry) /\ Without(q.write_wait, o, d.k) \in Seq(Entry)
    BY <1>5, WithoutFacts
  <2>2. p = [q EXCEPT !.read_wait = Without(q.read_wait, o, d.k),
                      !.write_wait = Without(q.write_wait, o, d.k)]
    OBVIOUS
  <2>. HIDE DEF p
  <2>. QED BY <1>5, <2>1, <2>2 DEF THRLock
<1>. HIDE DEF p
<1>7. /\ ToSet(p.read_wait) = {e \in ToSet(q.read_wait) : ~Is(e, o, d.k)} /\ Distinct(p.read_wait)
      /\ ToSet(p.write_wait) = {e \in ToSet(q.write_wait) : ~Is(e, o, d.k)}
      /\ Distinct(p.write_wait)
  BY <1>5, <1>6, WithoutFacts
<1>8. QueueInv(p)
  <2>1. CountInv(p) /\ OrderInv(p)
    BY <1>5, <1>6 DEF QueueInv, CountInv, OrderInv
  <2>. QED BY <1>5, <1>6, <1>7, <2>1, FewerFacts
<1>9. /\ GrantedIn(p) = GrantedIn(q) /\ WaitingIn(p) = {e \in WaitingIn(q) : ~Is(e, o, d.k)}
  BY <1>6, <1>7 DEF GrantedIn, WaitingIn
<1>10. \A e \in WaitingIn(p) : e.owner # o
  BY <1>2, <1>9 DEF Is, q
<1>11. \A e \in GrantedIn(q) : e.owner # o
  <2>1. PICK x \in WaitingIn(q) : x.owner = o
    BY <1>1, InFacts DEF Is
  <2>. QED BY <1>5, <2>1 DEF QueueInv, WaitersInv
<1>. DEFINE r == wake_up_waiters(p, unfit)
<1>12. /\ QueueInv(r) /\ Awake(r) /\ Follows(q, r, o)
       /\ \A f \in GrantedIn(r) : f.owner = o => f \in GrantedIn(p)
       /\ \A f \in WaitingIn(r) : f.owner # o
  BY <1>5, <1>6, <1>8, <1>9, <1>10, WakeFollows
<1>13. locks' = [locks EXCEPT ![l] = r] /\ overtaken' \in [Threads -> Nat]
  BY <1>2, <1>4, SetLockFacts
<1>. HIDE DEF r
<1>14. locks'[l] = r /\ \A m \in Locks : m # l => locks'[m] = locks[m]
  BY <1>2, <1>5, <1>13
<1>15. \A m \in Locks : \A e \in WaitingIn(locks'[m]) : e.owner # o
  BY <1>2, <1>12, <1>14
<1>16. ASSUME NEW m \in Locks, NEW e \in GrantedIn(locks'[m]), e.owner = o
       PROVE  EntryOf(m, e, data[o]) /\ data[o][e.k] \in ToSet(rest)
  <2>1. m # l /\ e \in GrantedIn(locks[m])
    BY <1>9, <1>11, <1>12, <1>14, <1>16
  <2>2. EntryInv(m, e) /\ EntryOf(m, e, data[o])
    BY <1>16, <2>1, InvFacts DEF EntryInv
  <2>3. o \notin Handlers
    BY <1>2, <2>1, <2>2 DEF EntryOf, DelayedData
  <2>4. data[o][e.k] # d
    BY <2>1, <2>2 DEF EntryOf
  <2>5. data[o][e.k] \notin ToSet(todo[o])
    BY <1>1, <1>2, <1>16, <2>2, <2>3, <2>4 DEF EntryInv
  <2>6. data[o][e.k] \in ToSet(data[o])
    BY <2>2 DEF EntryOf, ToSet
  <2>. QED BY <1>3, <2>2, <2>3, <2>5, <2>6
<1>17. pc[o] # "idle" /\ Follows(locks[l], r, o)
  BY <1>1, <1>12 DEF q
<1>. QED BY <1>1, <1>2, <1>3, <1>12, <1>13, <1>15, <1>16, <1>17, UnlockRestKeeps

(* A THR_LOCK without the lock or the queued request (o, k).               *)
Unlocked(q, o, k) ==
  [q EXCEPT !.read = Without(@, o, k), !.write = Without(@, o, k),
            !.write_wait = Without(@, o, k),
            !.read_no_write_count =
               @ - Cardinality({i \in DOMAIN q.read : Is(q.read[i], o, k) /\ NoInsert(q.read[i])})]

LEMMA UnlockFields ==
  ASSUME NEW q, QueueInv(q), NEW o, NEW k
  PROVE  LET p == Unlocked(q, o, k)
         IN /\ QueueInv(p) /\ p.read_wait = q.read_wait
            /\ \A e : e \in ToSet(p.read) <=> e \in ToSet(q.read) /\ ~Is(e, o, k)
            /\ \A e : e \in ToSet(p.write) <=> e \in ToSet(q.write) /\ ~Is(e, o, k)
            /\ \A e : e \in ToSet(p.write_wait) <=> e \in ToSet(q.write_wait) /\ ~Is(e, o, k)
<1>. DEFINE P == {i \in DOMAIN q.read : Is(q.read[i], o, k) /\ NoInsert(q.read[i])}
            n == q.read_no_write_count - Cardinality(P)
            p == Unlocked(q, o, k)
            A == {e \in ToSet(q.read) : NoInsert(e)}
            B == {e \in A : Is(e, o, k)}
            C == {e \in A : ~Is(e, o, k)}
<1>1. /\ q \in THRLock /\ EntriesInv(q) /\ CountInv(q)
      /\ q.read \in Seq(Entry) /\ q.write \in Seq(Entry) /\ q.write_wait \in Seq(Entry)
      /\ Distinct(q.read) /\ Distinct(q.write) /\ Distinct(q.read_wait) /\ Distinct(q.write_wait)
  BY QueueTypes DEF QueueInv, EntriesInv
<1>2. /\ Without(q.read, o, k) \in Seq(Entry) /\ Distinct(Without(q.read, o, k))
      /\ ToSet(Without(q.read, o, k)) = {e \in ToSet(q.read) : ~Is(e, o, k)}
      /\ Without(q.write, o, k) \in Seq(Entry) /\ Distinct(Without(q.write, o, k))
      /\ ToSet(Without(q.write, o, k)) = {e \in ToSet(q.write) : ~Is(e, o, k)}
      /\ Without(q.write_wait, o, k) \in Seq(Entry) /\ Distinct(Without(q.write_wait, o, k))
      /\ ToSet(Without(q.write_wait, o, k)) = {e \in ToSet(q.write_wait) : ~Is(e, o, k)}
  BY <1>1, WithoutFacts
<1>3. Cardinality(P) = Cardinality(B)
  <2>1. EntriesAt(q.read, P) = B
    BY DEF EntriesAt, ToSet
  <2>2. P \subseteq DOMAIN q.read
    OBVIOUS
  <2>. HIDE DEF P, B
  <2>3. Cardinality(P) = Cardinality(EntriesAt(q.read, P))
    BY <1>1, <2>2, CountPositions
  <2>. QED BY <2>1, <2>3
<1>4. n = Cardinality(C) /\ n \in Nat
  <2>1. IsFiniteSet(ToSet(q.read)) /\ B \in SUBSET ToSet(q.read) /\ C \in SUBSET ToSet(q.read)
    BY <1>1, CountNoInsertFacts
  <2>2. IsFiniteSet(B) /\ IsFiniteSet(C)
    BY <2>1, FS_Subset
  <2>3. A = B \cup C /\ B \cap C = {}
    OBVIOUS
  <2>4. q.read_no_write_count = Cardinality(A)
    BY <1>1 DEF CountInv
  <2>. HIDE DEF A, B, C, P
  <2>5. Cardinality(A) = Cardinality(B) + Cardinality(C)
    BY <2>2, <2>3, DisjointUnion
  <2>6. Cardinality(B) \in Nat /\ Cardinality(C) \in Nat
    BY <2>2, FS_CardinalityType
  <2>. QED BY <1>3, <2>4, <2>5, <2>6
<1>5. /\ p \in THRLock /\ p.read = Without(q.read, o, k) /\ p.write = Without(q.write, o, k)
      /\ p.write_wait = Without(q.write_wait, o, k) /\ p.read_wait = q.read_wait
      /\ p.read_no_write_count = n
  <2>1. p = [q EXCEPT !.read = Without(q.read, o, k), !.write = Without(q.write, o, k),
                      !.write_wait = Without(q.write_wait, o, k), !.read_no_write_count = n]
    BY DEF Unlocked
  <2>. HIDE DEF p, n
  <2>. QED BY <1>1, <1>2, <1>4, <2>1 DEF THRLock
<1>. HIDE DEF p, n
<1>6. CountInv(p)
  <2>1. {e \in ToSet(p.read) : NoInsert(e)} = C
    BY <1>2, <1>5
  <2>. QED BY <1>4, <1>5, <2>1 DEF CountInv
<1>7. OrderInv(p)
  <2>1. PICK Q : Q \subseteq DOMAIN q.write /\ Without(q.write, o, k) = Sublist(q.write, Q)
    BY <1>1, WithoutFacts
  <2>. QED BY <1>5, <2>1, OrderKept
<1>8. QueueInv(p)
  BY <1>1, <1>2, <1>5, <1>6, <1>7, FewerFacts
<1>. QED BY <1>2, <1>5, <1>8 DEF p

(* What thread o unlocks while it holds the locks it has yet to unlock.    *)
LEMMA UnlockKeeps ==
  ASSUME ThrLockInv, NEW o \in Threads, NEW s \in Seq(THRLockData), s # <<>>,
         ToSet(s) \subseteq ToSet(data[o]), pc[o] # "idle",
         o \in Handlers => Tail(s) = <<>>,
         \A m \in Locks : \A e \in GrantedIn(locks[m]) :
            e.owner = o => data[o][e.k] \in ToSet(s),
         \A m \in Locks : \A e \in WaitingIn(locks[m]) :
            e.owner = o => m = Head(s).lock /\ e.k = Head(s).k /\ ~IsRead(e.type),
         thr_unlock(o, s)
  PROVE  ThrLockInv'
<1>. DEFINE d == Head(s)
            l == d.lock
            q == locks[l]
            rest == Tail(s)
            p == Unlocked(q, o, d.k)
<1>1. /\ d \in THRLockData /\ d \in ToSet(s) /\ rest \in Seq(THRLockData)
      /\ ToSet(s) = ToSet(rest) \cup {d}
  BY TailFacts, ToSetFacts
<1>2. /\ l \in Locks /\ ThreadInv(o) /\ locks \in [Locks -> THRLock]
      /\ overtaken \in [Threads -> Nat]
  BY <1>1, InvFacts DEF THRLockData, ThrLockInv
<1>3. QueueInv(q) /\ EntriesInv(q) /\ Awake(q)
  BY <1>2, InvFacts DEF QueueInv
<1>4. /\ UnlockRest(o, rest)
      /\ IF Granted(q, o, d.k) \/ Queued(q, o, d.k)
         THEN \E unfit \in BOOLEAN : SetLock(l, wake_up_waiters(p, unfit))
         ELSE UNCHANGED <<locks, overtaken>>
  BY DEF thr_unlock, Unlocked
<1>5. ASSUME NEW m \in Locks, NEW e \in GrantedIn(locks[m]), e.owner = o, ~(m = l /\ e.k = d.k)
      PROVE  EntryOf(m, e, data[o]) /\ data[o][e.k] \in ToSet(rest)
  <2>1. EntryOf(m, e, data[o])
    BY <1>5, InvFacts DEF EntryInv
  <2>2. data[o][e.k] # d
    BY <1>2, <1>5, <2>1 DEF EntryOf, ThreadInv
  <2>. QED BY <1>1, <1>5, <2>1, <2>2
<1>. HIDE DEF d, rest
<1>6. CASE Granted(q, o, d.k) \/ Queued(q, o, d.k)
  <2>1. PICK unfit \in BOOLEAN : SetLock(l, wake_up_waiters(p, unfit))
    BY <1>4, <1>6
  <2>2. /\ QueueInv(p) /\ p.read_wait = q.read_wait
        /\ \A e : e \in ToSet(p.read) <=> e \in ToSet(q.read) /\ ~Is(e, o, d.k)
        /\ \A e : e \in ToSet(p.write) <=> e \in ToSet(q.write) /\ ~Is(e, o, d.k)
        /\ \A e : e \in ToSet(p.write_wait) <=> e \in ToSet(q.write_wait) /\ ~Is(e, o, d.k)
    BY <1>3, UnlockFields
  <2>. HIDE DEF p
  <2>3. /\ GrantedIn(p) = {e \in GrantedIn(q) : ~Is(e, o, d.k)}
        /\ WaitingIn(p) = ToSet(q.read_wait) \cup {e \in ToSet(q.write_wait) : ~Is(e, o, d.k)}
    BY <2>2 DEF GrantedIn, WaitingIn
  <2>4. \A e \in WaitingIn(p) : e.owner # o /\ e \in WaitingIn(q)
    <3>1. \A e \in ToSet(q.read_wait) : IsRead(e.type) /\ e \in WaitingIn(q)
      BY <1>3 DEF EntriesInv, WaitingIn
    <3>2. \A e \in ToSet(q.write_wait) : e \in WaitingIn(q)
      BY DEF WaitingIn
    <3>. QED BY <1>2, <2>3, <3>1, <3>2 DEF Is, d
  <2>. DEFINE r == wake_up_waiters(p, unfit)
  <2>5. /\ QueueInv(r) /\ Awake(r) /\ Follows(q, r, o)
        /\ \A f \in GrantedIn(r) : f.owner = o => f \in GrantedIn(p)
        /\ \A f \in WaitingIn(r) : f.owner # o
    <3>1. GrantedIn(p) \subseteq GrantedIn(q) /\ WaitingIn(p) \subseteq WaitingIn(q)
      BY <2>3, <2>4
    <3>2. /\ \A e \in ToSet(q.read) : e.owner # o => e \in ToSet(p.read)
          /\ \A e \in ToSet(q.write) : e.owner # o => e \in ToSet(p.write)
      BY <2>2 DEF Is
    <3>. QED BY <1>3, <2>2, <2>4, <3>1, <3>2, WakeFollows
  <2>6. locks' = [locks EXCEPT ![l] = r] /\ overtaken' \in [Threads -> Nat]
    BY <1>2, <2>1, SetLockFacts
  <2>. HIDE DEF r
  <2>7. locks'[l] = r /\ \A m \in Locks : m # l => locks'[m] = locks[m]
    BY <1>2, <2>6
  <2>8. \A m \in Locks : \A e \in WaitingIn(locks'[m]) : e.owner # o
    BY <2>5, <2>7 DEF d
  <2>9. ASSUME NEW m \in Locks, NEW e \in GrantedIn(locks'[m]), e.owner = o
        PROVE  EntryOf(m, e, data[o]) /\ data[o][e.k] \in ToSet(rest)
    <3>1. CASE m = l
      <4>1. e \in GrantedIn(q) /\ ~Is(e, o, d.k)
        BY <2>3, <2>5, <2>7, <2>9, <3>1
      <4>. QED BY <1>5, <2>9, <3>1, <4>1 DEF Is
    <3>2. CASE m # l
      BY <1>5, <2>7, <2>9, <3>2
    <3>. QED BY <3>1, <3>2
  <2>10. ToSet(rest) \subseteq ToSet(data[o]) /\ (o \in Handlers => rest = <<>>)
    BY <1>1 DEF rest
  <2>. QED BY <1>1, <1>2, <1>4, <2>5, <2>6, <2>8, <2>9, <2>10, UnlockRestKeeps
<1>7. CASE ~(Granted(q, o, d.k) \/ Queued(q, o, d.k))
  <2>1. locks' = locks /\ overtaken' = overtaken
    BY <1>4, <1>7
  <2>2. /\ \A e \in GrantedIn(q) : ~(e.owner = o /\ e.k = d.k)
        /\ \A e \in WaitingIn(q) : ~(e.owner = o /\ e.k = d.k)
    BY <1>7, InFacts DEF Is
  <2>3. \A m \in Locks : \A e \in WaitingIn(locks'[m]) : e.owner # o
    BY <2>1, <2>2 DEF d
  <2>4. \A m \in Locks : \A e \in GrantedIn(locks'[m]) :
          e.owner = o => EntryOf(m, e, data[o]) /\ data[o][e.k] \in ToSet(rest)
    BY <1>5, <2>1, <2>2
  <2>5. Follows(q, q, o)
    <3>1. \A f : Became(f, f)
      BY DEF Became
    <3>. QED BY <3>1 DEF Follows
  <2>6. locks' = [locks EXCEPT ![l] = q] /\ overtaken' \in [Threads -> Nat]
    BY <1>2, <2>1
  <2>7. ToSet(rest) \subseteq ToSet(data[o]) /\ (o \in Handlers => rest = <<>>)
    BY <1>1 DEF rest
  <2>. QED BY <1>1, <1>2, <1>3, <1>4, <2>3, <2>4, <2>5, <2>6, <2>7, UnlockRestKeeps
<1>. QED BY <1>6, <1>7

LEMMA MultiUnlockKeeps ==
  ASSUME ThrLockInv, NEW o \in Threads, thr_multi_unlock(o)
  PROVE  ThrLockInv'
<1>1. pc[o] \in {"run", "insert"} /\ thr_unlock(o, data[o]) /\ ThreadInv(o)
  BY InvFacts DEF thr_multi_unlock
<1>2. data[o] \in Seq(THRLockData) /\ data[o] # <<>> /\ o \in Sessions \cup Handlers
  BY <1>1 DEF ThreadInv, Threads
<1>3. \A m \in Locks : \A e \in GrantedIn(locks[m]) :
        e.owner = o => data[o][e.k] \in ToSet(data[o])
  BY InvFacts DEF EntryInv, EntryOf, ToSet
<1>4. o \in Handlers => /\ Tail(data[o]) = <<>> /\ DOMAIN data[o] = {1}
                        /\ Head(data[o]) = data[o][1] /\ data[o][1].k = 1
  BY <1>1, <1>2 DEF ThreadInv, DelayedData
<1>5. ASSUME NEW m \in Locks, NEW e \in WaitingIn(locks[m]), e.owner = o
      PROVE  m = Head(data[o]).lock /\ e.k = Head(data[o]).k /\ ~IsRead(e.type)
  <2>1. EntryInv(m, e) /\ QueuedInv(m, e)
    BY InvFacts
  <2>2. o \in Handlers
    BY <1>1, <1>2, <1>5, <2>1 DEF QueuedInv
  <2>3. e.k = 1 /\ data[o][1].lock = m
    BY <1>4, <1>5, <2>1, <2>2 DEF EntryInv, EntryOf
  <2>4. e.type \in {"TL_WRITE_DELAYED", delayed_lock}
    BY <1>5, <2>1, <2>2 DEF EntryInv
  <2>. QED BY <1>4, <2>2, <2>3, <2>4, HandlerTypes
<1>. QED BY <1>1, <1>2, <1>3, <1>4, <1>5, UnlockKeeps

LEMMA UnlockNextKeeps ==
  ASSUME ThrLockInv, NEW o \in Threads, UnlockNext(o)
  PROVE  ThrLockInv'
<1>1. /\ pc[o] = "unlock" /\ thr_unlock(o, todo[o]) /\ o \in Sessions /\ o \notin Handlers
      /\ todo[o] \in Seq(THRLockData) /\ todo[o] # <<>> /\ ToSet(todo[o]) \subseteq ToSet(data[o])
  BY InvFacts DEF UnlockNext, ThreadInv, Threads
<1>2. \A m \in Locks : \A e \in GrantedIn(locks[m]) :
        e.owner = o => data[o][e.k] \in ToSet(todo[o])
  BY <1>1, InvFacts DEF EntryInv
<1>3. \A m \in Locks : \A e \in WaitingIn(locks[m]) : e.owner # o
  BY <1>1, InvFacts DEF QueuedInv
<1>. QED BY <1>1, <1>2, <1>3, UnlockKeeps

LEMMA AbortKeeps ==
  ASSUME ThrLockInv, NEW o \in Threads, NEW l \in Locks, thr_abort_locks_for_thread(o, l)
  PROVE  ThrLockInv'
<1>. DEFINE q == locks[l]
            others(x) == Sublist(x, {i \in DOMAIN x : x[i].owner # o})
            p == [q EXCEPT !.read_wait = others(@), !.write_wait = others(@)]
<1>1. /\ \E unfit \in BOOLEAN : SetLock(l, wake_up_waiters(p, unfit))
      /\ pc' = pc /\ data' = data /\ todo' = todo
  BY DEF thr_abort_locks_for_thread
<1>2. PICK unfit \in BOOLEAN : SetLock(l, wake_up_waiters(p, unfit))
  BY <1>1
<1>3. /\ QueueInv(q) /\ q \in THRLock /\ locks \in [Locks -> THRLock]
      /\ q.read_wait \in Seq(Entry) /\ q.write_wait \in Seq(Entry)
      /\ Distinct(q.read_wait) /\ Distinct(q.write_wait) /\ Distinct(q.read) /\ Distinct(q.write)
  <2>1. QueueInv(q) /\ q \in THRLock /\ locks \in [Locks -> THRLock]
    BY InvFacts DEF ThrLockInv
  <2>. QED BY <2>1, QueueTypes DEF QueueInv, EntriesInv
<1>4. ASSUME NEW x \in Seq(Entry), Distinct(x)
      PROVE  /\ others(x) \in Seq(Entry) /\ Distinct(others(x))
             /\ ToSet(others(x)) = {e \in ToSet(x) : e.owner # o}
  <2>. DEFINE P == {i \in DOMAIN x : x[i].owner # o}
  <2>1. P \subseteq DOMAIN x /\ {x[i] : i \in P} = {e \in ToSet(x) : e.owner # o}
    BY DEF ToSet
  <2>. HIDE DEF P
  <2>2. Sublist(x, P) \in Seq(Entry) /\ ToSet(Sublist(x, P)) = {x[i] : i \in P}
        /\ Distinct(Sublist(x, P))
    BY <1>4, <2>1, SublistFacts
  <2>. QED BY <2>1, <2>2 DEF P
<1>. HIDE DEF q, others
<1>5. /\ p \in THRLock /\ p.read = q.read /\ p.write = q.write
      /\ p.read_no_write_count = q.read_no_write_count
      /\ p.read_wait = others(q.read_wait) /\ p.write_wait = others(q.write_wait)
  <2>1. others(q.read_wait) \in Seq(Entry) /\ others(q.write_wait) \in Seq(Entry)
    BY <1>3, <1>4
  <2>2. p = [q EXCEPT !.read_wait = others(q.read_wait), !.write_wait = others(q.write_wait)]
    OBVIOUS
  <2>. HIDE DEF p
  <2>. QED BY <1>3, <2>1, <2>2 DEF THRLock
<1>. HIDE DEF p
<1>6. /\ ToSet(p.read_wait) = {e \in ToSet(q.read_wait) : e.owner # o} /\ Distinct(p.read_wait)
      /\ ToSet(p.write_wait) = {e \in ToSet(q.write_wait) : e.owner # o}
      /\ Distinct(p.write_wait)
  BY <1>3, <1>4, <1>5
<1>7. QueueInv(p)
  <2>1. CountInv(p) /\ OrderInv(p)
    BY <1>3, <1>5 DEF QueueInv, CountInv, OrderInv
  <2>. QED BY <1>3, <1>5, <1>6, <2>1, FewerFacts
<1>8. /\ GrantedIn(p) = GrantedIn(q) /\ WaitingIn(p) \subseteq WaitingIn(q)
      /\ \A e \in WaitingIn(p) : e.owner # o
  BY <1>5, <1>6 DEF GrantedIn, WaitingIn
<1>. DEFINE r == wake_up_waiters(p, unfit)
<1>9. /\ QueueInv(r) /\ Awake(r) /\ Follows(q, r, o)
      /\ ToSet(q.read) \subseteq ToSet(r.read) /\ ToSet(q.write) \subseteq ToSet(r.write)
      /\ \A f \in GrantedIn(r) : f.owner = o => f \in GrantedIn(p)
      /\ \A f \in WaitingIn(r) : f.owner # o
  BY <1>3, <1>5, <1>7, <1>8, WakeFollows
<1>10. locks' = [locks EXCEPT ![l] = r] /\ overtaken' \in [Threads -> Nat]
  BY <1>2, SetLockFacts
<1>. HIDE DEF r
<1>11. locks'[l] = r /\ \A m \in Locks : m # l => locks'[m] = locks[m]
  BY <1>3, <1>10
<1>12. ThreadInv(o)'
  BY <1>1, InvFacts DEF ThreadInv
<1>13. ASSUME NEW m \in Locks
       PROVE  /\ GrantedIn(locks[m]) \subseteq GrantedIn(locks'[m])
              /\ ToSet(locks[m].write) \subseteq ToSet(locks'[m].write)
  BY <1>9, <1>11 DEF GrantedIn, q
<1>14. HoldsInv(o)'
  <2>1. HoldsInv(o) /\ ToSet(data[o]) \subseteq THRLockData
    BY InvFacts, ToSetFacts DEF ThreadInv
  <2>2. ASSUME NEW x \in ToSet(data[o]), Has(o, x) PROVE Has(o, x)'
    <3>1. PICK e \in GrantedIn(locks[x.lock]) : e.owner = o /\ e.k = x.k
      BY <2>2 DEF Has
    <3>2. e \in GrantedIn(locks'[x.lock])
      BY <1>13, <2>1, <3>1 DEF THRLockData
    <3>. QED BY <3>1, <3>2 DEF Has, GrantedIn
  <2>3. ToSet(locks[DelayedLock].write) \subseteq ToSet(locks'[DelayedLock].write)
    BY <1>13, LocksAssumption
  <2>. QED BY <1>1, <2>1, <2>2, <2>3 DEF HoldsInv
<1>15. ASSUME NEW m \in Locks, NEW e \in GrantedIn(locks'[m]), e.owner = o PROVE EntryInv(m, e)'
  <2>1. e \in GrantedIn(locks[m])
    BY <1>8, <1>9, <1>11, <1>15 DEF q
  <2>2. EntryInv(m, e)
    BY <2>1, InvFacts
  <2>. QED BY <1>1, <2>2 DEF EntryInv, EntryOf
<1>16. ASSUME NEW m \in Locks, NEW e \in WaitingIn(locks'[m]), e.owner = o
       PROVE  EntryInv(m, e)' /\ QueuedInv(m, e)'
  <2>1. e \in WaitingIn(locks[m])
    BY <1>9, <1>11, <1>16
  <2>2. EntryInv(m, e) /\ QueuedInv(m, e)
    BY <2>1, InvFacts
  <2>. QED BY <1>1, <2>2 DEF EntryInv, EntryOf, QueuedInv
<1>17. /\ pc' \in [Threads -> Positions] /\ data' \in [Threads -> Seq(THRLockData)]
       /\ todo' \in [Threads -> Seq(THRLockData)]
       /\ \A x \in Threads \ {o} : pc'[x] = pc[x] /\ data'[x] = data[x] /\ todo'[x] = todo[x]
       /\ Follows(locks[l], r, o)
  BY <1>1, <1>9 DEF ThrLockInv, q
<1>. QED BY <1>9, <1>10, <1>12, <1>14, <1>15, <1>16, <1>17, StepKeeps

-----------------------------------------------------------------------------
(* INSERT DELAYED.                                                         *)

(* A handler's only entry is the lock of the delayed table, and nobody     *)
(* else writes while it is granted.                                        *)
LEMMA HandlerFacts ==
  ASSUME ThrLockInv, NEW o \in Handlers, pc[o] # "idle"
  PROVE  LET q == locks[DelayedLock]
         IN /\ o \in Threads /\ o \notin Sessions /\ DelayedLock \in Locks
            /\ data[o] = DelayedData /\ data[o][1].lock = DelayedLock /\ data[o][1].k = 1
            /\ \A l \in Locks : \A e \in GrantedIn(locks[l]) \cup WaitingIn(locks[l]) :
                 e.owner = o => /\ l = DelayedLock /\ e.k = 1 /\ ~IsRead(e.type)
                                /\ e.type = IF pc[o] \in {"run", "reschedule"}
                                              THEN "TL_WRITE_DELAYED" ELSE delayed_lock
            /\ \A e \in GrantedIn(q) : e.owner = o =>
                 /\ ToSet(q.write) = {e} /\ Len(q.write) = 1 /\ q.write[1] = e
                 /\ e.type = delayed_lock => q.read = <<>>
<1>. DEFINE q == locks[DelayedLock]
<1>1. o \in Threads /\ o \notin Sessions /\ DelayedLock \in Locks
  BY LocksAssumption DEF Threads
<1>2. data[o] = DelayedData /\ DOMAIN data[o] = {1} /\ data[o][1].lock = DelayedLock
      /\ data[o][1].k = 1
  <2>1. data[o] = DelayedData
    BY <1>1, InvFacts DEF ThreadInv
  <2>. QED BY <2>1 DEF DelayedData
<1>3. ASSUME NEW l \in Locks, NEW e \in GrantedIn(locks[l]) \cup WaitingIn(locks[l]), e.owner = o
      PROVE  /\ l = DelayedLock /\ e.k = 1 /\ ~IsRead(e.type)
             /\ e.type = IF pc[o] \in {"run", "reschedule"}
                           THEN "TL_WRITE_DELAYED" ELSE delayed_lock
  <2>1. EntryInv(l, e)
    BY InvFacts
  <2>2. e.k = 1 /\ l = DelayedLock
    BY <1>2, <1>3, <2>1 DEF EntryInv, EntryOf
  <2>3. e.type = IF pc[o] \in {"run", "reschedule"} THEN "TL_WRITE_DELAYED" ELSE delayed_lock
    BY <1>1, <1>3, <2>1 DEF EntryInv
  <2>. QED BY <2>2, <2>3, HandlerTypes
<1>4. QueueInv(q) /\ q.write \in Seq(Entry) /\ q.read \in Seq(Entry) /\ GrantedIn(q) \subseteq Entry
      /\ EntriesInv(q) /\ CompatibleInv(q) /\ Distinct(q.write)
  <2>1. QueueInv(q) /\ q \in THRLock
    BY <1>1, InvFacts
  <2>. QED BY <2>1, QueueTypes DEF QueueInv, EntriesInv
<1>5. ASSUME NEW e \in GrantedIn(q), e.owner = o
      PROVE  /\ ToSet(q.write) = {e} /\ Len(q.write) = 1 /\ q.write[1] = e
             /\ e.type = delayed_lock => q.read = <<>>
  <2>1. e.type \in {delayed_lock, "TL_WRITE_DELAYED"} /\ ~IsRead(e.type) /\ e.k = 1
    BY <1>1, <1>3, <1>5
  <2>. HIDE DEF q
  <2>2. e \in ToSet(q.write)
    BY <1>4, <2>1 DEF EntriesInv, GrantedIn
  <2>3. ASSUME NEW f \in ToSet(q.write) PROVE f = e
    <3>1. f \in GrantedIn(q) /\ ~IsRead(f.type)
      BY <1>4 DEF EntriesInv, GrantedIn
    <3>2. f.owner = o
      <4>1. f.owner # e.owner => Compatible(e, f)
        BY <1>4, <2>2, <3>1 DEF CompatibleInv
      <4>. QED BY <1>5, <2>1, <3>1, <4>1, HandlerTypes DEF Compatible
    <3>3. f.k = 1
      BY <1>1, <1>3, <3>1, <3>2 DEF q
    <3>. QED BY <1>4, <1>5, <2>1, <3>1, <3>2, <3>3 DEF EntriesInv
  <2>4. ToSet(q.write) = {e}
    BY <2>2, <2>3
  <2>5. Len(q.write) = 1 /\ q.write[1] = e
    <3>1. PICK n \in Nat : n = Len(q.write) /\ DOMAIN q.write = 1 .. n
      BY <1>4, LenProperties
    <3>2. \A i \in 1 .. n : q.write[i] = e
      BY <2>4, <3>1 DEF ToSet
    <3>3. n # 0
      BY <2>2, <3>1 DEF ToSet
    <3>4. ~(2 \in 1 .. n)
      BY <1>4, <3>1, <3>2 DEF Distinct
    <3>5. n = 1
      BY <3>3, <3>4
    <3>. QED BY <3>1, <3>2, <3>5
  <2>6. ASSUME e.type = delayed_lock PROVE q.read = <<>>
    <3>1. ASSUME NEW f \in ToSet(q.read) PROVE FALSE
      <4>1. f \in GrantedIn(q) /\ IsRead(f.type)
        BY <1>4 DEF EntriesInv, GrantedIn
      <4>2. f.owner # o
        BY <1>1, <1>3, <4>1 DEF q
      <4>3. Compatible(e, f)
        BY <1>4, <1>5, <2>2, <4>1, <4>2 DEF CompatibleInv
      <4>. QED BY <2>6, <4>1, <4>3, HandlerTypes DEF Compatible
    <3>. QED BY <1>4, <3>1, ToSetFacts
  <2>. QED BY <2>4, <2>5, <2>6
<1>. QED BY <1>1, <1>2, <1>3, <1>5

(* A handler upgrades or reschedules its lock.                             *)
LEMMA HandlerKeeps ==
  ASSUME ThrLockInv, NEW o \in Handlers, pc[o] # "idle",
         NEW at \in {"insert", "wait", "reschedule"}, NEW r,
         SetLock(DelayedLock, r), Goto(o, at), data' = data, todo' = todo,
         QueueInv(r), Awake(r), Follows(locks[DelayedLock], r, o),
         \A e \in GrantedIn(r) \cup WaitingIn(r) :
           e.owner = o => e.k = 1 /\ e.type = IF at = "reschedule" THEN "TL_WRITE_DELAYED"
                                              ELSE delayed_lock,
         at = "insert" => \E e \in ToSet(r.write) : e.owner = o
  PROVE  ThrLockInv'
<1>. DEFINE q == locks[DelayedLock]
<1>1. /\ o \in Threads /\ o \notin Sessions /\ DelayedLock \in Locks
      /\ data[o] = DelayedData
      /\ \A l \in Locks : \A e \in GrantedIn(locks[l]) \cup WaitingIn(locks[l]) :
           e.owner = o => l = DelayedLock
  BY HandlerFacts
<1>2. locks' = [locks EXCEPT ![DelayedLock] = r] /\ overtaken' \in [Threads -> Nat]
  BY <1>1, SetLockFacts
<1>3. /\ pc \in [Threads -> Positions] /\ data \in [Threads -> Seq(THRLockData)]
      /\ todo \in [Threads -> Seq(THRLockData)] /\ locks \in [Locks -> THRLock]
      /\ ThreadInv(o)
  BY <1>1, InvFacts DEF ThrLockInv
<1>4. /\ pc' \in [Threads -> Positions] /\ data' \in [Threads -> Seq(THRLockData)]
      /\ todo' \in [Threads -> Seq(THRLockData)]
      /\ pc'[o] = at /\ data'[o] = data[o] /\ todo'[o] = todo[o]
      /\ \A p \in Threads \ {o} : pc'[p] = pc[p] /\ data'[p] = data[p] /\ todo'[p] = todo[p]
  BY <1>1, <1>3 DEF Goto, Positions
<1>5. locks'[DelayedLock] = r /\ \A m \in Locks : m # DelayedLock => locks'[m] = locks[m]
  BY <1>1, <1>2, <1>3
<1>6. ThreadInv(o)'
  BY <1>1, <1>3, <1>4 DEF ThreadInv
<1>7. HoldsInv(o)'
  BY <1>1, <1>4, <1>5 DEF HoldsInv
<1>8. DOMAIN data[o] = {1} /\ data[o][1].lock = DelayedLock
  BY <1>1 DEF DelayedData
<1>9. ASSUME NEW m \in Locks, NEW e \in GrantedIn(locks'[m]) \cup WaitingIn(locks'[m]), e.owner = o
      PROVE  m = DelayedLock /\ EntryInv(m, e)'
  <2>1. m = DelayedLock
    BY <1>1, <1>5, <1>9
  <2>2. e.k = 1 /\ e.type = IF at = "reschedule" THEN "TL_WRITE_DELAYED" ELSE delayed_lock
    BY <1>5, <1>9, <2>1
  <2>. QED BY <1>1, <1>4, <1>8, <1>9, <2>1, <2>2 DEF EntryInv, EntryOf
<1>10. ASSUME NEW m \in Locks, NEW e \in WaitingIn(locks'[m]), e.owner = o
       PROVE  QueuedInv(m, e)'
  <2>1. e \in WaitingIn(r)
    BY <1>5, <1>9, <1>10
  <2>2. at # "insert"
    BY <1>10, <2>1 DEF QueueInv, WaitersInv, GrantedIn
  <2>. QED BY <1>1, <1>4, <1>10, <2>2 DEF QueuedInv
<1>. QED BY <1>1, <1>2, <1>4, <1>6, <1>7, <1>9, <1>10, StepKeeps

(* The lock of o becomes one of another type.                              *)
Retyped(s, o, u) == [i \in DOMAIN s |-> IF Is(s[i], o, 1) THEN u ELSE s[i]]

LEMMA RetypedFacts ==
  ASSUME NEW s \in Seq(Entry), NEW o, NEW u \in Entry
  PROVE  /\ Retyped(s, o, u) \in Seq(Entry) /\ Len(Retyped(s, o, u)) = Len(s)
         /\ \A i \in 1 .. Len(s) : Retyped(s, o, u)[i] = IF Is(s[i], o, 1) THEN u ELSE s[i]
<1>1. PICK n \in Nat : n = Len(s) /\ DOMAIN s = 1 .. n
  BY LenProperties
<1>2. \A i \in 1 .. n : s[i] \in Entry
  BY <1>1, ElementOfSeq
<1>. DEFINE f == [i \in 1 .. n |-> IF Is(s[i], o, 1) THEN u ELSE s[i]]
<1>3. Retyped(s, o, u) = f
  BY <1>1 DEF Retyped
<1>4. f \in [1 .. n -> Entry]
  BY <1>2
<1>5. \A i \in 1 .. n : f[i] = IF Is(s[i], o, 1) THEN u ELSE s[i]
  OBVIOUS
<1>. HIDE DEF f
<1>6. f \in Seq(Entry) /\ Len(f) = n
  BY <1>1, <1>4, IsASeq, LenProperties
<1>. QED BY <1>1, <1>3, <1>5, <1>6

(* The only granted lock is one for writing; it is upgraded.               *)
LEMMA UpgradeGranted ==
  ASSUME NEW q, QueueInv(q), NEW o, NEW x \in ToSet(q.write), Is(x, o, 1),
         Len(q.write) = 1, q.read = <<>>,
         NEW u \in Entry, u.owner = o, u.k = 1, ~IsRead(u.type)
  PROVE  LET r == [q EXCEPT !.write = Retyped(@, o, u)]
         IN /\ QueueInv(r) /\ GrantedIn(r) = {u} /\ WaitingIn(r) = WaitingIn(q)
            /\ u \in ToSet(r.write) /\ r.write # <<>> /\ ToSet(r.read) = {}
<1>. DEFINE r == [q EXCEPT !.write = Retyped(@, o, u)]
<1>1. q \in THRLock /\ q.write \in Seq(Entry) /\ x = q.write[1] /\ EntriesInv(q)
  <2>1. q \in THRLock /\ q.write \in Seq(Entry)
    BY QueueTypes DEF QueueInv, EntriesInv
  <2>2. ToSet(q.write) = {q.write[i] : i \in 1 .. 1}
    BY <2>1, ToSetFacts
  <2>. QED BY <2>1, <2>2 DEF QueueInv
<1>2. PICK w \in Seq(Entry) : w = Retyped(q.write, o, u) /\ Len(w) = 1 /\ w[1] = u
  <2>1. /\ Retyped(q.write, o, u) \in Seq(Entry) /\ Len(Retyped(q.write, o, u)) = 1
        /\ \A i \in 1 .. 1 : Retyped(q.write, o, u)[i] = IF Is(q.write[i], o, 1) THEN u ELSE q.write[i]
    BY <1>1, RetypedFacts
  <2>. QED BY <1>1, <2>1
<1>3. ToSet(w) = {u} /\ Distinct(w) /\ w # <<>>
  <2>1. DOMAIN w = 1 .. 1
    BY <1>2, LenProperties
  <2>. QED BY <1>2, <2>1 DEF ToSet, Distinct
<1>4. /\ r \in THRLock /\ r.write = w /\ r.read = q.read
      /\ r.read_wait = q.read_wait /\ r.write_wait = q.write_wait
      /\ r.read_no_write_count = q.read_no_write_count
  <2>1. r = [q EXCEPT !.write = w]
    BY <1>2
  <2>. HIDE DEF r
  <2>. QED BY <1>1, <2>1 DEF THRLock
<1>. HIDE DEF r
<1>5. GrantedIn(r) = {u} /\ WaitingIn(r) = WaitingIn(q) /\ ToSet(r.read) = {}
  BY <1>3, <1>4, EmptyFacts DEF GrantedIn, WaitingIn
<1>6. EntriesInv(r)
  BY <1>1, <1>3, <1>4, <1>5 DEF EntriesInv
<1>7. WaitersInv(r)
  <2>1. \A e \in WaitingIn(q) : e.owner # o
    BY <1>1 DEF QueueInv, WaitersInv, GrantedIn, Is
  <2>. QED BY <1>5, <2>1 DEF QueueInv, WaitersInv
<1>8. CountInv(r) /\ CompatibleInv(r)
  BY <1>3, <1>4, <1>5 DEF QueueInv, CountInv, CompatibleInv
<1>9. OrderInv(r)
  BY <1>2, <1>4, LenProperties DEF OrderInv
<1>. QED BY <1>3, <1>4, <1>5, <1>6, <1>7, <1>8, <1>9 DEF QueueInv, r

(* The only granted write lock goes back to the head of the queue.         *)
BackToQueue(q, o, u) == [q EXCEPT !.write = Without(@, o, 1), !.write_wait = <<u>> \o @]

LEMMA BackFacts ==
  ASSUME NEW q, QueueInv(q), NEW o, NEW x, ToSet(q.write) = {x}, Is(x, o, 1),
         \A e \in GrantedIn(q) : e.owner = o => e = x,
         NEW u \in Entry, u.owner = o, u.k = 1, ~IsRead(u.type)
  PROVE  LET r == BackToQueue(q, o, u)
         IN /\ QueueInv(r) /\ r.write = <<>> /\ r.read = q.read /\ r.write_wait # <<>>
            /\ r.read_wait = q.read_wait
            /\ GrantedIn(r) = ToSet(q.read) /\ WaitingIn(r) = WaitingIn(q) \cup {u}
            /\ \A e \in ToSet(q.read) : e.owner # o
            /\ \A e \in WaitingIn(q) : e.owner # o
<1>. DEFINE r == BackToQueue(q, o, u)
            p == [q EXCEPT !.write = <<>>]
<1>1. /\ q \in THRLock /\ EntriesInv(q) /\ q.write \in Seq(Entry) /\ q.write_wait \in Seq(Entry)
      /\ Distinct(q.write) /\ Distinct(q.write_wait)
  BY QueueTypes DEF QueueInv, EntriesInv
<1>2. Without(q.write, o, 1) = <<>>
  <2>1. /\ Without(q.write, o, 1) \in Seq(Entry)
        /\ ToSet(Without(q.write, o, 1)) = {e \in ToSet(q.write) : ~Is(e, o, 1)}
    BY <1>1, WithoutFacts
  <2>2. ToSet(Without(q.write, o, 1)) = {}
    BY <2>1
  <2>. QED BY <2>1, <2>2, ToSetFacts
<1>3. /\ <<u>> \o q.write_wait \in Seq(Entry) /\ <<u>> \o q.write_wait # <<>>
      /\ ToSet(<<u>> \o q.write_wait) = ToSet(q.write_wait) \cup {u}
      /\ u \notin ToSet(q.write_wait) => Distinct(<<u>> \o q.write_wait)
  BY <1>1, PushFacts
<1>4. /\ \A e \in ToSet(q.read) : e.owner # o
      /\ \A e \in WaitingIn(q) : e.owner # o
  <2>1. ~IsRead(x.type) /\ x \in GrantedIn(q)
    BY <1>1 DEF EntriesInv, GrantedIn
  <2>2. \A e \in ToSet(q.read) : IsRead(e.type) /\ e \in GrantedIn(q)
    BY <1>1 DEF EntriesInv, GrantedIn
  <2>3. \A e \in WaitingIn(q) : e.owner # x.owner
    BY <2>1 DEF QueueInv, WaitersInv
  <2>. QED BY <2>1, <2>2, <2>3 DEF Is
<1>5. /\ p \in THRLock /\ p.write = <<>> /\ p.read = q.read
      /\ p.read_wait = q.read_wait /\ p.write_wait = q.write_wait
      /\ p.read_no_write_count = q.read_no_write_count
  <2>0. <<>> \in Seq(Entry)
    OBVIOUS
  <2>1. PICK empty \in Seq(Entry) : empty = <<>>
    BY <2>0
  <2>2. p = [q EXCEPT !.write = empty]
    BY <2>1
  <2>. HIDE DEF p
  <2>. QED BY <1>1, <2>1, <2>2 DEF THRLock
<1>6. /\ r \in THRLock /\ r.write = <<>> /\ r.read = q.read
      /\ r.read_wait = q.read_wait /\ r.write_wait = <<u>> \o q.write_wait
      /\ r.read_no_write_count = q.read_no_write_count
  <2>1. r = [q EXCEPT !.write = <<>>, !.write_wait = <<u>> \o q.write_wait]
    BY <1>2 DEF BackToQueue
  <2>2. <<>> \in Seq(Entry)
    OBVIOUS
  <2>3. PICK ww \in Seq(Entry) : ww = <<u>> \o q.write_wait
    BY <1>3
  <2>. HIDE DEF r
  <2>. QED BY <1>1, <2>1, <2>2, <2>3 DEF THRLock
<1>. HIDE DEF r, p
<1>7. QueueInv(p) /\ GrantedIn(p) = ToSet(q.read) /\ WaitingIn(p) = WaitingIn(q)
  <2>1. GrantedIn(p) = ToSet(q.read) /\ WaitingIn(p) = WaitingIn(q)
    BY <1>5, EmptyFacts DEF GrantedIn, WaitingIn
  <2>2. CountInv(p) /\ OrderInv(p)
    BY <1>5 DEF QueueInv, CountInv, OrderInv
  <2>3. ToSet(p.write) = {} /\ Distinct(p.write)
    BY <1>5, EmptyFacts
  <2>4. Distinct(p.read) /\ Distinct(p.read_wait) /\ Distinct(p.write_wait)
    BY <1>1, <1>5 DEF EntriesInv
  <2>. QED BY <1>5, <2>1, <2>2, <2>3, <2>4, FewerFacts
<1>8. u \notin ToSet(q.write_wait)
  BY <1>4 DEF WaitingIn
<1>9. QueueInv(r) /\ GrantedIn(r) = GrantedIn(p) /\ WaitingIn(r) = WaitingIn(p) \cup {u}
  <2>1. \A f \in GrantedIn(p) \cup WaitingIn(p) : f.owner # u.owner
    BY <1>4, <1>7
  <2>2. Distinct(r.read_wait) /\ Distinct(r.write_wait)
    BY <1>1, <1>3, <1>6, <1>8 DEF EntriesInv
  <2>3. /\ r.read = p.read /\ r.write = p.write /\ r.read_wait = p.read_wait
        /\ r.read_no_write_count = p.read_no_write_count
        /\ ToSet(r.write_wait) = ToSet(p.write_wait) \cup {u}
    BY <1>3, <1>5, <1>6
  <2>. QED BY <1>6, <1>7, <2>1, <2>2, <2>3, MoreWaiters
<1>. QED BY <1>3, <1>4, <1>6, <1>7, <1>9 DEF r

(* The queued lock is upgraded in its place.                               *)
LEMMA UpgradeQueued ==
  ASSUME NEW q, QueueInv(q), NEW o, NEW x \in ToSet(q.write_wait), Is(x, o, 1),
         NEW u \in Entry, u.owner = o, u.k = 1, ~IsRead(u.type)
  PROVE  LET r == [q EXCEPT !.write_wait = Retyped(@, o, u)]
         IN /\ QueueInv(r) /\ r.read = q.read /\ r.write = q.write
            /\ r.read_wait = q.read_wait /\ r.write_wait # <<>>
            /\ \A e \in GrantedIn(q) : e.owner # o
            /\ \A e \in WaitingIn(r) : e = u \/ (e \in WaitingIn(q) /\ e.owner # o)
<1>. DEFINE r == [q EXCEPT !.write_wait = Retyped(@, o, u)]
            p == [q EXCEPT !.write_wait = Without(@, o, 1)]
            s == q.write_wait
<1>1. /\ q \in THRLock /\ EntriesInv(q) /\ s \in Seq(Entry) /\ Distinct(s)
      /\ Distinct(q.read) /\ Distinct(q.write) /\ Distinct(q.read_wait)
  BY QueueTypes DEF QueueInv, EntriesInv
<1>2. /\ \A e \in WaitingIn(q) : e.owner = o => e = x
      /\ \A e \in GrantedIn(q) : e.owner # o
      /\ x \in WaitingIn(q)
  BY DEF QueueInv, WaitersInv, WaitingIn, Is
<1>3. \A e \in ToSet(s) : e.owner = o <=> e = x
  BY <1>2 DEF WaitingIn, Is
<1>4. PICK t \in Seq(Entry) : /\ t = Without(s, o, 1) /\ Distinct(t)
                              /\ \A e : e \in ToSet(t) <=> e \in ToSet(s) /\ e # x
  <2>1. /\ Without(s, o, 1) \in Seq(Entry) /\ Distinct(Without(s, o, 1))
        /\ ToSet(Without(s, o, 1)) = {e \in ToSet(s) : ~Is(e, o, 1)}
    BY <1>1, WithoutFacts
  <2>. QED BY <1>3, <2>1 DEF Is
<1>5. PICK v \in Seq(Entry) : /\ v = Retyped(s, o, u) /\ Len(v) = Len(s)
                              /\ \A i \in 1 .. Len(s) : v[i] = IF Is(s[i], o, 1) THEN u ELSE s[i]
  BY <1>1, RetypedFacts
<1>6. PICK n \in Nat : n = Len(s) /\ DOMAIN s = 1 .. n /\ DOMAIN v = 1 .. n
  BY <1>1, <1>5, LenProperties
<1>7. \A i \in 1 .. n : v[i] = IF s[i] = x THEN u ELSE s[i]
  <2>1. \A i \in 1 .. n : s[i] \in ToSet(s)
    BY <1>6 DEF ToSet
  <2>. QED BY <1>3, <1>5, <1>6, <2>1 DEF Is
<1>8. ToSet(v) = ToSet(t) \cup {u}
  <2>1. ToSet(v) = {v[i] : i \in 1 .. n} /\ ToSet(s) = {s[i] : i \in 1 .. n}
    BY <1>6 DEF ToSet
  <2>2. PICK j \in 1 .. n : s[j] = x
    BY <2>1
  <2>. QED BY <1>4, <1>7, <2>1, <2>2, SMTT(30)
<1>9. Distinct(v) /\ v # <<>>
  <2>1. \A i \in 1 .. n : s[i] # u \/ s[i] = x
    BY <1>3, <1>6 DEF ToSet
  <2>2. \A i, j \in 1 .. n : s[i] = s[j] => i = j
    BY <1>1, <1>6 DEF Distinct
  <2>3. \A i, j \in 1 .. n : v[i] = v[j] => i = j
    BY <1>7, <2>1, <2>2
  <2>4. u \in ToSet(v)
    BY <1>8
  <2>. QED BY <1>6, <2>3, <2>4, EmptyFacts DEF Distinct
<1>10. /\ p \in THRLock /\ p.read = q.read /\ p.write = q.write
       /\ p.read_wait = q.read_wait /\ p.write_wait = t
       /\ p.read_no_write_count = q.read_no_write_count
  <2>1. p = [q EXCEPT !.write_wait = t]
    BY <1>4
  <2>. HIDE DEF p
  <2>. QED BY <1>1, <2>1 DEF THRLock
<1>11. /\ r \in THRLock /\ r.read = q.read /\ r.write = q.write
       /\ r.read_wait = q.read_wait /\ r.write_wait = v
       /\ r.read_no_write_count = q.read_no_write_count
  <2>1. r = [q EXCEPT !.write_wait = v]
    BY <1>5
  <2>. HIDE DEF r
  <2>. QED BY <1>1, <2>1 DEF THRLock
<1>. HIDE DEF r, p, s
<1>12. QueueInv(p)
  <2>1. CountInv(p) /\ OrderInv(p)
    BY <1>10 DEF QueueInv, CountInv, OrderInv
  <2>2. ToSet(p.write_wait) \subseteq ToSet(q.write_wait)
    BY <1>4, <1>10 DEF s
  <2>. QED BY <1>1, <1>4, <1>10, <2>1, <2>2, FewerFacts
<1>13. /\ GrantedIn(p) = GrantedIn(q)
       /\ \A e \in WaitingIn(p) : e \in WaitingIn(q) /\ e.owner # o
  <2>1. \A e \in ToSet(q.read_wait) : e \in WaitingIn(q) /\ e # x
    BY <1>1, <1>2 DEF WaitingIn, EntriesInv
  <2>2. \A e \in ToSet(t) : e \in WaitingIn(q) /\ e # x
    BY <1>4 DEF WaitingIn, s
  <2>. QED BY <1>2, <1>10, <2>1, <2>2 DEF GrantedIn, WaitingIn
<1>14. QueueInv(r) /\ WaitingIn(r) = WaitingIn(p) \cup {u}
  <2>1. \A f \in GrantedIn(p) \cup WaitingIn(p) : f.owner # u.owner
    BY <1>2, <1>13
  <2>2. Distinct(r.read_wait) /\ Distinct(r.write_wait)
    BY <1>1, <1>9, <1>11
  <2>3. /\ r.read = p.read /\ r.write = p.write /\ r.read_wait = p.read_wait
        /\ r.read_no_write_count = p.read_no_write_count
        /\ ToSet(r.write_wait) = ToSet(p.write_wait) \cup {u}
    BY <1>8, <1>10, <1>11
  <2>. QED BY <1>11, <1>12, <2>1, <2>2, <2>3, MoreWaiters
<1>. QED BY <1>2, <1>9, <1>11, <1>13, <1>14 DEF r

LEMMA UpgradeKeeps ==
  ASSUME ThrLockInv, NEW o \in Threads, thr_upgrade_write_delay_lock(o)
  PROVE  ThrLockInv'
<1>. DEFINE q == locks[DelayedLock]
            u == [owner |-> o, k |-> 1, type |-> delayed_lock]
            upgraded == [q EXCEPT !.write = Retyped(@, o, u)]
            back == BackToQueue(q, o, u)
            queued == [q EXCEPT !.write_wait = Retyped(@, o, u)]
<1>1. pc[o] \in {"run", "reschedule"} /\ o \in Handlers /\ pc[o] # "idle"
  BY DEF thr_upgrade_write_delay_lock
<1>2. /\ o \notin Sessions /\ DelayedLock \in Locks
      /\ data[o] = DelayedData /\ data[o][1].lock = DelayedLock /\ data[o][1].k = 1
      /\ \A l \in Locks : \A e \in GrantedIn(locks[l]) \cup WaitingIn(locks[l]) :
           e.owner = o => l = DelayedLock /\ e.k = 1 /\ ~IsRead(e.type)
      /\ \A e \in GrantedIn(q) : e.owner = o => ToSet(q.write) = {e} /\ Len(q.write) = 1
  BY <1>1, HandlerFacts
<1>3. \/ /\ Granted(q, o, 1) /\ q.read = <<>> /\ SetLock(DelayedLock, upgraded)
         /\ Goto(o, "insert") /\ UNCHANGED <<data, todo>>
      \/ /\ Granted(q, o, 1) /\ q.read # <<>> /\ SetLock(DelayedLock, back)
         /\ Goto(o, "wait") /\ UNCHANGED <<data, todo>>
      \/ /\ Queued(q, o, 1) /\ SetLock(DelayedLock, queued)
         /\ Goto(o, "wait") /\ UNCHANGED <<data, todo>>
      \/ /\ ~Granted(q, o, 1) /\ ~Queued(q, o, 1)
         /\ Fail(o) /\ UNCHANGED <<locks, overtaken>>
  BY <1>2 DEF thr_upgrade_write_delay_lock, Retyped, BackToQueue
<1>4. /\ QueueInv(q) /\ EntriesInv(q) /\ Awake(q) /\ q \in THRLock /\ locks \in [Locks -> THRLock]
      /\ overtaken \in [Threads -> Nat]
  BY <1>2, InvFacts DEF ThrLockInv, QueueInv
<1>5. /\ u \in Entry /\ u.owner = o /\ u.k = 1 /\ u.type = delayed_lock /\ ~IsRead(u.type)
  BY HandlerTypes DEF Entry, Types
<1>6. \A f : Became(f, f)
  BY DEF Became
<1>. HIDE DEF u
<1>7. ASSUME Granted(q, o, 1)
      PROVE  \E x \in GrantedIn(q) : /\ Is(x, o, 1) /\ ToSet(q.write) = {x} /\ Len(q.write) = 1
                                     /\ \A e \in GrantedIn(q) : e.owner = o => e = x
  <2>1. PICK x \in GrantedIn(q) : Is(x, o, 1)
    BY <1>7, InFacts
  <2>2. ToSet(q.write) = {x} /\ Len(q.write) = 1
    BY <1>2, <2>1 DEF Is
  <2>3. \A e \in GrantedIn(q) : e.owner = o => e = x
    BY <1>2, <2>1 DEF Is
  <2>. QED BY <2>1, <2>2, <2>3
<1>8. ASSUME Granted(q, o, 1), q.read = <<>>, SetLock(DelayedLock, upgraded),
             Goto(o, "insert"), UNCHANGED <<data, todo>>
      PROVE  ThrLockInv'
  <2>1. PICK x \in GrantedIn(q) : Is(x, o, 1) /\ ToSet(q.write) = {x} /\ Len(q.write) = 1
    BY <1>7, <1>8
  <2>2. /\ QueueInv(upgraded) /\ GrantedIn(upgraded) = {u} /\ WaitingIn(upgraded) = WaitingIn(q)
        /\ u \in ToSet(upgraded.write) /\ upgraded.write # <<>> /\ ToSet(upgraded.read) = {}
    <3>1. x \in ToSet(q.write)
      BY <2>1
    <3>2. Is(x, o, 1) /\ Len(q.write) = 1 /\ q.read = <<>> /\ QueueInv(q)
      BY <1>4, <1>8, <2>1
    <3>. HIDE DEF q
    <3>. QED BY <1>5, <3>1, <3>2, UpgradeGranted
  <2>. HIDE DEF upgraded
  <2>3. Awake(upgraded)
    BY <2>2 DEF Awake
  <2>4. \A e \in WaitingIn(q) : e.owner # o
    BY <1>4, <2>1 DEF QueueInv, WaitersInv, Is
  <2>5. Follows(q, upgraded, o)
    BY <1>5, <1>6, <1>8, <2>1, <2>2, EmptyFacts DEF Follows, Is
  <2>6. \A e \in GrantedIn(upgraded) \cup WaitingIn(upgraded) :
          e.owner = o => e.k = 1 /\ e.type = delayed_lock
    BY <1>5, <2>2, <2>4
  <2>. QED BY <1>1, <1>5, <1>8, <2>2, <2>3, <2>5, <2>6, HandlerKeeps
<1>9. ASSUME Granted(q, o, 1), q.read # <<>>, SetLock(DelayedLock, back),
             Goto(o, "wait"), UNCHANGED <<data, todo>>
      PROVE  ThrLockInv'
  <2>1. PICK x \in GrantedIn(q) : /\ Is(x, o, 1) /\ ToSet(q.write) = {x}
                                  /\ \A e \in GrantedIn(q) : e.owner = o => e = x
    BY <1>7, <1>9
  <2>2. /\ QueueInv(back) /\ back.write = <<>> /\ back.read = q.read /\ back.write_wait # <<>>
        /\ GrantedIn(back) = ToSet(q.read) /\ WaitingIn(back) = WaitingIn(q) \cup {u}
        /\ \A e \in ToSet(q.read) : e.owner # o
        /\ \A e \in WaitingIn(q) : e.owner # o
    <3>. HIDE DEF q
    <3>. QED BY <1>4, <1>5, <2>1, BackFacts
  <2>. HIDE DEF back
  <2>3. Awake(back)
    BY <1>9, <2>2 DEF Awake
  <2>4. Follows(q, back, o)
    <3>1. ToSet(q.read) \subseteq GrantedIn(q)
      BY DEF GrantedIn
    <3>. QED BY <1>5, <1>6, <2>1, <2>2, <3>1 DEF Follows, Is
  <2>5. \A e \in GrantedIn(back) \cup WaitingIn(back) :
          e.owner = o => e.k = 1 /\ e.type = delayed_lock
    BY <1>5, <2>2
  <2>. QED BY <1>1, <1>9, <2>2, <2>3, <2>4, <2>5, HandlerKeeps
<1>10. ASSUME Queued(q, o, 1), SetLock(DelayedLock, queued), Goto(o, "wait"),
              UNCHANGED <<data, todo>>
       PROVE  ThrLockInv'
  <2>1. PICK x \in WaitingIn(q) : Is(x, o, 1)
    BY <1>10, InFacts
  <2>2. x \in ToSet(q.write_wait)
    <3>1. ~IsRead(x.type)
      BY <1>2, <2>1 DEF Is
    <3>. QED BY <1>4, <3>1 DEF WaitingIn, EntriesInv
  <2>3. /\ QueueInv(queued) /\ queued.read = q.read /\ queued.write = q.write
        /\ queued.read_wait = q.read_wait /\ queued.write_wait # <<>>
        /\ \A e \in GrantedIn(q) : e.owner # o
        /\ \A e \in WaitingIn(queued) : e = u \/ (e \in WaitingIn(q) /\ e.owner # o)
    <3>. HIDE DEF q
    <3>. QED BY <1>4, <1>5, <2>1, <2>2, UpgradeQueued
  <2>. HIDE DEF queued
  <2>4. Awake(queued)
    <3>1. q.write_wait # <<>>
      BY <2>2, EmptyFacts
    <3>. QED BY <1>4, <2>3, <3>1 DEF Awake
  <2>5. Follows(q, queued, o) /\ GrantedIn(queued) = GrantedIn(q)
    BY <1>5, <1>6, <2>3 DEF Follows, GrantedIn
  <2>6. \A e \in GrantedIn(queued) \cup WaitingIn(queued) :
          e.owner = o => e.k = 1 /\ e.type = delayed_lock
    BY <1>5, <2>3, <2>5
  <2>. QED BY <1>1, <1>10, <2>3, <2>4, <2>5, <2>6, HandlerKeeps
<1>11. ASSUME ~Granted(q, o, 1), ~Queued(q, o, 1), Fail(o), UNCHANGED <<locks, overtaken>>
       PROVE  ThrLockInv'
  <2>1. UnlockRest(o, <<>>)
    BY <1>1, <1>11 DEF Fail
  <2>2. \A m \in Locks : \A e \in GrantedIn(locks'[m]) \cup WaitingIn(locks'[m]) : e.owner # o
    BY <1>2, <1>11, InFacts DEF Is
  <2>3. locks' = [locks EXCEPT ![DelayedLock] = q] /\ overtaken' \in [Threads -> Nat]
    BY <1>2, <1>4, <1>11
  <2>4. Follows(q, q, o)
    BY <1>6 DEF Follows
  <2>5. <<>> \in Seq(THRLockData) /\ ToSet(<<>>) \subseteq ToSet(data[o])
    BY EmptyFacts
  <2>. QED BY <1>1, <1>2, <1>4, <2>1, <2>2, <2>3, <2>4, <2>5, UnlockRestKeeps
<1>. HIDE DEF upgraded, back, queued, q
<1>. QED BY <1>3, <1>8, <1>9, <1>10, <1>11

LEMMA RescheduleKeeps ==
  ASSUME ThrLockInv, NEW o \in Threads, thr_reschedule_write_lock(o)
  PROVE  ThrLockInv'
<1>. DEFINE q == locks[DelayedLock]
            u == [owner |-> o, k |-> 1, type |-> "TL_WRITE_DELAYED"]
            back == BackToQueue(q, o, u)
            r == free_all_read_locks(back, FALSE)
<1>1. pc[o] = "insert" /\ o \in Handlers
  BY InvFacts DEF thr_reschedule_write_lock, ThreadInv, Threads
<1>2. /\ DelayedLock \in Locks
      /\ data[o] = DelayedData /\ data[o][1].lock = DelayedLock /\ data[o][1].k = 1
      /\ \A l \in Locks : \A e \in GrantedIn(locks[l]) \cup WaitingIn(locks[l]) :
           e.owner = o => e.k = 1
      /\ \A e \in GrantedIn(q) : e.owner = o => ToSet(q.write) = {e}
  BY <1>1, HandlerFacts
<1>3. /\ q.read_wait # <<>> /\ SetLock(DelayedLock, r) /\ Goto(o, "reschedule")
      /\ data' = data /\ todo' = todo
  BY <1>2 DEF thr_reschedule_write_lock, BackToQueue
<1>4. QueueInv(q) /\ EntriesInv(q) /\ q \in THRLock
  BY <1>2, InvFacts DEF QueueInv
<1>5. u \in Entry /\ u.owner = o /\ u.k = 1 /\ u.type = "TL_WRITE_DELAYED" /\ ~IsRead(u.type)
  BY RankFacts, TypeFacts DEF Entry, IsRead, Types
<1>. HIDE DEF u
<1>6. PICK x \in GrantedIn(q) : /\ Is(x, o, 1) /\ ToSet(q.write) = {x}
                                /\ \A e \in GrantedIn(q) : e.owner = o => e = x
  <2>1. PICK x \in ToSet(q.write) : x.owner = o
    BY <1>1, InvFacts DEF HoldsInv
  <2>2. x \in GrantedIn(q)
    BY DEF GrantedIn
  <2>3. x.k = 1 /\ ToSet(q.write) = {x}
    BY <1>2, <2>1, <2>2
  <2>. QED BY <1>2, <2>1, <2>2, <2>3 DEF Is
<1>7. /\ QueueInv(back) /\ back.write = <<>> /\ back.read = q.read /\ back.write_wait # <<>>
      /\ back.read_wait = q.read_wait
      /\ GrantedIn(back) = ToSet(q.read) /\ WaitingIn(back) = WaitingIn(q) \cup {u}
      /\ \A e \in ToSet(q.read) : e.owner # o
      /\ \A e \in WaitingIn(q) : e.owner # o
  <2>. HIDE DEF q
  <2>. QED BY <1>4, <1>5, <1>6, BackFacts
<1>. HIDE DEF back
<1>8. QueueInv(r) /\ Moved(back, r)
  <2>1. LetsIn(back, FALSE)
    BY <1>7, EmptyFacts DEF LetsIn
  <2>. QED BY <1>7, <2>1, FreeKeeps, FreeMoves DEF QueueInv
<1>9. r.write = <<>> /\ r.write_wait # <<>> /\ r.read # <<>> /\ ToSet(q.read) \subseteq ToSet(r.read)
  <2>1. /\ r.write = back.write /\ r.write_wait = back.write_wait
        /\ ToSet(r.read) = ToSet(back.read) \cup {e \in ToSet(back.read_wait) : ~(NoInsert(e) /\ FALSE)}
    BY <1>7, FreeFields DEF QueueInv
  <2>2. ToSet(q.read_wait) # {}
    BY <1>3, <1>4, QueueTypes, ToSetFacts
  <2>3. ToSet(r.read) # {}
    BY <1>7, <2>1, <2>2
  <2>. QED BY <1>7, <2>1, <2>3, EmptyFacts
<1>. HIDE DEF r
<1>10. Awake(r)
  BY <1>9 DEF Awake
<1>11. \A e, f : Became(e, f) /\ e \in Entry => f.owner = e.owner /\ f.k = e.k /\ (e = u => f = u)
  BY <1>5 DEF Became, Entry
<1>12. WaitingIn(q) \subseteq Entry
  BY <1>4, QueueTypes
<1>13. Follows(q, r, o)
  <2>1. \A e \in ToSet(q.write) : e.owner = o
    BY <1>6 DEF Is
  <2>2. \A e \in WaitingIn(back) : \A f : Became(e, f) /\ f.owner # o => e \in WaitingIn(q)
    BY <1>5, <1>7, <1>11
  <2>3. ToSet(q.read) \subseteq GrantedIn(q)
    BY DEF GrantedIn
  <2>. QED BY <1>7, <1>8, <1>9, <2>1, <2>2, <2>3 DEF Follows, Moved
<1>14. \A e \in GrantedIn(r) \cup WaitingIn(r) :
         e.owner = o => e.k = 1 /\ e.type = "TL_WRITE_DELAYED"
  <2>1. \A e \in WaitingIn(back) : \A f : Became(e, f) /\ f.owner = o => f = u
    BY <1>5, <1>7, <1>11, <1>12
  <2>2. \A e \in GrantedIn(r) \cup WaitingIn(r) : e.owner = o => e = u
    BY <1>7, <1>8, <2>1 DEF Moved
  <2>. QED BY <1>5, <2>2
<1>. QED BY <1>1, <1>3, <1>8, <1>10, <1>13, <1>14, HandlerKeeps

-----------------------------------------------------------------------------
(* The theorems.                                                           *)

LEMMA InitKeeps == Init => ThrLockInv
<1>. SUFFICES ASSUME Init PROVE ThrLockInv
  OBVIOUS
<1>. DEFINE free == [read |-> <<>>, write |-> <<>>, read_wait |-> <<>>, write_wait |-> <<>>,
                     write_lock_count |-> 0, read_no_write_count |-> 0]
<1>1. <<>> \in Seq(Entry) /\ <<>> \in Seq(THRLockData)
  OBVIOUS
<1>2. free \in THRLock
  BY <1>1, LocksAssumption DEF THRLock
<1>3. /\ free.read = <<>> /\ free.write = <<>> /\ free.read_wait = <<>>
      /\ free.write_wait = <<>> /\ free.read_no_write_count = 0
  OBVIOUS
<1>4. locks = [l \in Locks |-> free]
  BY DEF Init
<1>. HIDE DEF free
<1>5. GrantedIn(free) = {} /\ WaitingIn(free) = {}
  BY <1>3, EmptyFacts DEF GrantedIn, WaitingIn
<1>6. QueueInv(free) /\ Awake(free)
  <2>1. EntriesInv(free)
    BY <1>2, <1>3, <1>5, EmptyFacts DEF EntriesInv
  <2>2. CountInv(free)
    <3>1. {e \in ToSet(free.read) : NoInsert(e)} = {}
      BY <1>3, EmptyFacts
    <3>. QED BY <1>3, <3>1, FS_EmptySet DEF CountInv
  <2>3. WaitersInv(free) /\ CompatibleInv(free) /\ OrderInv(free)
    BY <1>3, <1>5, EmptyFacts DEF WaitersInv, CompatibleInv, OrderInv
  <2>. QED BY <1>3, <2>1, <2>2, <2>3 DEF QueueInv, Awake
<1>7. \A l \in Locks : LockInv(l)
  BY <1>4, <1>5, <1>6 DEF LockInv
<1>8. /\ pc \in [Threads -> Positions]
      /\ data \in [Threads -> Seq(THRLockData)] /\ todo \in [Threads -> Seq(THRLockData)]
      /\ overtaken \in [Threads -> Nat] /\ locks \in [Locks -> THRLock]
  BY <1>1, <1>2, <1>4 DEF Init, Positions
<1>9. \A o \in Threads : pc[o] = "idle" /\ data[o] = <<>> /\ todo[o] = <<>>
  BY DEF Init
<1>10. ASSUME NEW o \in Threads PROVE ThreadInv(o) /\ HoldsInv(o)
  <2>1. pc[o] = "idle" /\ data[o] = <<>> /\ todo[o] = <<>>
    BY <1>9
  <2>2. ThreadInv(o)
    BY <1>1, <2>1, EmptyFacts DEF ThreadInv
  <2>3. HoldsInv(o)
    BY <2>1 DEF HoldsInv
  <2>. QED BY <2>2, <2>3
<1>. QED BY <1>7, <1>8, <1>10 DEF ThrLockInv

LEMMA NextKeeps == ThrLockInv /\ [Next]_vars => ThrLockInv'
<1>. SUFFICES ASSUME ThrLockInv, [Next]_vars PROVE ThrLockInv'
  OBVIOUS
<1>1. ASSUME NEW o \in Threads, Step(o) PROVE ThrLockInv'
  BY <1>1, MultiLockKeeps, LockNextKeeps, GotKeeps, AbortedKeeps, WaitForLockKeeps,
     MultiUnlockKeeps, UnlockNextKeeps, UpgradeKeeps, RescheduleKeeps DEF Step
<1>2. ASSUME NEW o \in Threads, NEW l \in Locks, thr_abort_locks_for_thread(o, l)
      PROVE  ThrLockInv'
  BY <1>2, AbortKeeps
<1>3. ASSUME UNCHANGED vars PROVE ThrLockInv'
  BY <1>3 DEF vars, ThrLockInv, ThreadInv, HoldsInv, Has, LockInv, EntryInv, EntryOf, QueuedInv
<1>. QED BY <1>1, <1>2, <1>3 DEF Next

(* The inductive invariant: on every THR_LOCK the entries of the four      *)
(* lists are those of calls in progress, a thread waits for a table only   *)
(* if it has no lock on it, the write locks are in the order of their      *)
(* strength, and nobody waits whom nobody would wake; every thread of a    *)
(* statement has the locks that sort_locks() puts before its next one.     *)
THEOREM ThrLockInvariant == Spec => []ThrLockInv
BY InitKeeps, NextKeeps, PTL DEF Spec

(* After every operation on a table read_no_write_count is the number of   *)
(* granted TL_READ_NO_INSERT locks, and without a granted write lock       *)
(* nobody waits on a free table and no reader waits unless a writer is     *)
(* queued.                                                                 *)
THEOREM QueuesConsistent == Spec => []Consistent
<1>1. ThrLockInv => Consistent
  <2>. SUFFICES ASSUME ThrLockInv PROVE Consistent
    OBVIOUS
  <2>1. TypeOK
    <3>1. ASSUME NEW l \in Locks
          PROVE  /\ DOMAIN locks[l] = Queues \union {"write_lock_count", "read_no_write_count"}
                 /\ \A q \in Queues : locks[l][q] \in Seq(Entry)
                 /\ locks[l].write_lock_count \in 0 .. max_write_lock_count + 1
                 /\ locks[l].read_no_write_count \in Nat
      <4>1. locks[l] \in THRLock
        BY InvFacts
      <4>. QED BY <4>1, QueueTypes DEF THRLock, Queues
    <3>2. \A o \in Threads : data[o] \in Seq([k : Nat, lock : Locks, type : DOMAIN Rank])
                             /\ ToSet(todo[o]) \subseteq ToSet(data[o])
      BY InvFacts DEF ThreadInv, THRLockData, Types
    <3>. QED BY <3>1, <3>2 DEF TypeOK, ThrLockInv, Positions
  <2>2. NoInsertCounted
    <3>. SUFFICES ASSUME NEW l \in Locks
                  PROVE  locks[l].read_no_write_count = CountNoInsert(locks[l].read)
      BY DEF NoInsertCounted
    <3>1. QueueInv(locks[l]) /\ locks[l] \in THRLock
      BY InvFacts
    <3>2. locks[l].read \in Seq(Entry) /\ Distinct(locks[l].read)
      BY <3>1, QueueTypes DEF QueueInv, EntriesInv
    <3>. QED BY <3>1, <3>2, CountNoInsertFacts DEF QueueInv, CountInv
  <2>3. NoForgottenWaiter
    BY InvFacts DEF NoForgottenWaiter, Awake
  <2>. QED BY <2>1, <2>2, <2>3 DEF Consistent
<1>. QED BY <1>1, ThrLockInvariant, PTL

(* Whatever order requests, unlocks, timeouts, aborts, upgrades and        *)
(* reschedules come in, no thread has a table lock beside one it excludes. *)
THEOREM LocksAreCompatible == Spec => []GrantedCompatible
<1>1. ThrLockInv => GrantedCompatible
  BY InvFacts DEF GrantedCompatible, QueueInv, CompatibleInv, GrantedIn
<1>. QED BY <1>1, ThrLockInvariant, PTL

(* A thread that works has every lock of its statement, an INSERT DELAYED  *)
(* handler has TL_WRITE to itself while it inserts, and a thread that is   *)
(* done has left nothing in any list, whether it succeeded, timed out or   *)
(* was aborted while it was being granted.                                 *)
THEOREM AllLocksOrNone == Spec => []AllOrNothing
<1>1. ThrLockInv => AllOrNothing
  <2>. SUFFICES ASSUME ThrLockInv, NEW o \in Threads
                PROVE  /\ pc[o] = "idle" => \A l \in Locks : \A e \in Entries(l) : e.owner # o
                       /\ pc[o] = "run" /\ o \in Sessions =>
                            \A i \in DOMAIN data[o] :
                              Granted(locks[data[o][i].lock], o, data[o][i].k)
                       /\ pc[o] = "insert" =>
                            LET l == locks[DelayedLock]
                            IN Len(l.write) = 1 /\ Is(l.write[1], o, 1) /\ l.read = <<>>
    BY DEF AllOrNothing
  <2>1. ThreadInv(o) /\ HoldsInv(o)
    BY InvFacts
  <2>2. ASSUME pc[o] = "idle", NEW l \in Locks, NEW e \in Entries(l) PROVE e.owner # o
    <3>1. e \in GrantedIn(locks[l]) \cup WaitingIn(locks[l])
      BY DEF Entries, Queues, GrantedIn, WaitingIn
    <3>2. EntryOf(l, e, data[e.owner])
      BY <3>1, InvFacts DEF EntryInv
    <3>3. data[o] = <<>>
      BY <2>1, <2>2 DEF ThreadInv
    <3>. QED BY <3>2, <3>3 DEF EntryOf
  <2>3. ASSUME pc[o] = "run", o \in Sessions, NEW i \in DOMAIN data[o]
        PROVE  Granted(locks[data[o][i].lock], o, data[o][i].k)
    <3>1. todo[o] = <<>> /\ data[o][i] \in ToSet(data[o])
      BY <2>1, <2>3 DEF ThreadInv, ToSet
    <3>2. Has(o, data[o][i])
      BY <2>1, <2>3, <3>1, EmptyFacts DEF HoldsInv
    <3>. QED BY <3>2, InFacts DEF Has, Is
  <2>4. ASSUME pc[o] = "insert"
        PROVE  LET l == locks[DelayedLock]
               IN Len(l.write) = 1 /\ Is(l.write[1], o, 1) /\ l.read = <<>>
    <3>1. o \in Handlers /\ pc[o] # "idle" /\ pc[o] \notin {"run", "reschedule"}
      BY <2>1, <2>4 DEF ThreadInv, Threads
    <3>2. PICK x \in ToSet(locks[DelayedLock].write) : x.owner = o
      BY <2>1, <2>4 DEF HoldsInv
    <3>3. x \in GrantedIn(locks[DelayedLock])
      BY DEF GrantedIn
    <3>4. x.type = delayed_lock /\ x.k = 1
      BY <3>1, <3>2, <3>3, HandlerFacts
    <3>5. Len(locks[DelayedLock].write) = 1 /\ locks[DelayedLock].write[1] = x
          /\ locks[DelayedLock].read = <<>>
      BY <3>1, <3>2, <3>3, <3>4, HandlerFacts
    <3>. QED BY <3>2, <3>4, <3>5 DEF Is
  <2>. QED BY <2>2, <2>3, <2>4
<1>. QED BY <1>1, ThrLockInvariant, PTL

(* A thread that waits has only locks of tables before the one it waits    *)
(* for, in the order of sort_locks().                                      *)
LEMMA HolderOrder ==
  ASSUME ThrLockInv, NEW o \in Threads, pc[o] = "wait",
         Queued(locks[Awaited(o).lock], o, Awaited(o).k),
         NEW l \in Locks, NEW e \in GrantedIn(locks[l]), e.owner = o
  PROVE  l < Awaited(o).lock
<1>. DEFINE d == Awaited(o)
<1>1. /\ d \in THRLockData /\ d.lock \in Locks
      /\ o \in Handlers => data[o] = DelayedData /\ d.lock = DelayedLock
      /\ o \notin Handlers => /\ d = Head(todo[o]) /\ o \in Sessions /\ todo[o] # <<>>
                              /\ Remains(todo[o], sort_locks(data[o]))
  BY AwaitedFacts
<1>2. PICK f \in WaitingIn(locks[d.lock]) : f.owner = o
  BY InFacts DEF Is
<1>3. l # d.lock
  BY <1>1, <1>2, InvFacts DEF QueueInv, WaitersInv
<1>4. EntryInv(l, e) /\ EntryOf(l, e, data[o])
  BY InvFacts DEF EntryInv
<1>5. CASE o \in Handlers
  BY <1>1, <1>3, <1>4, <1>5, HandlerFacts
<1>6. CASE o \notin Handlers
  <2>. DEFINE x == data[o][e.k]
  <2>1. x \in ToSet(data[o]) /\ x.lock = l
    BY <1>4 DEF EntryOf, ToSet
  <2>2. x \notin ToSet(todo[o])
    BY <1>1, <1>3, <1>4, <1>6, <2>1 DEF EntryInv
  <2>3. /\ data[o] \in Seq(THRLockData) /\ todo[o] \in Seq(THRLockData)
        /\ \A i \in DOMAIN data[o] : data[o][i].k = i
    BY InvFacts DEF ThreadInv
  <2>. HIDE DEF x, d
  <2>4. x.lock <= d.lock
    BY <1>1, <1>6, <2>1, <2>2, <2>3, SortedFacts
  <2>5. l \in Nat /\ d.lock \in Nat
    BY <1>1, LocksAssumption
  <2>. QED BY <1>3, <2>1, <2>4, <2>5 DEF d
<1>. QED BY <1>5, <1>6

(* What a waiting thread has asked for, and who keeps it waiting.          *)
LEMMA BlockersFacts ==
  ASSUME ThrLockInv, NEW o \in Waiters
  PROVE  LET q == locks[Awaited(o).lock]
         IN /\ o \in Threads /\ pc[o] = "wait" /\ Awaited(o).lock \in Locks
            /\ Asked(o) \in WaitingIn(q) /\ Asked(o).owner = o
            /\ \A b \in Blockers(o) :
                 \/ \E x \in GrantedIn(q) : x.owner = b
                 \/ \E i \in DOMAIN q.write_wait :
                      /\ q.write_wait[i].owner = b
                      /\ Asked(o) \in ToSet(q.write_wait) =>
                           \E j \in DOMAIN q.write_wait : i < j /\ q.write_wait[j] = Asked(o)
<1>. DEFINE q == locks[Awaited(o).lock]
<1>1. o \in Threads /\ pc[o] = "wait" /\ Queued(q, o, Awaited(o).k)
  BY DEF Waiters
<1>2. Awaited(o).lock \in Locks
  BY <1>1, AwaitedFacts
<1>3. \E e \in WaitingIn(q) : Is(e, o, Awaited(o).k)
  BY <1>1, InFacts
<1>4. Asked(o) \in WaitingIn(q) /\ Asked(o).owner = o
  BY <1>3 DEF Asked, WaitingIn, Is
<1>5. Asked(o) \in ToSet(q.write_wait) => ~IsRead(Asked(o).type)
  BY <1>2, InvFacts DEF QueueInv, EntriesInv
<1>6. ASSUME NEW b \in Blockers(o)
      PROVE  \/ \E x \in GrantedIn(q) : x.owner = b
             \/ \E i \in DOMAIN q.write_wait :
                  /\ q.write_wait[i].owner = b
                  /\ Asked(o) \in ToSet(q.write_wait) =>
                       \E j \in DOMAIN q.write_wait : i < j /\ q.write_wait[j] = Asked(o)
  <2>. DEFINE e == Asked(o)
              ahead == {n \in DOMAIN q.write_wait :
                          \E j \in DOMAIN q.write_wait : n < j /\ q.write_wait[j] = e}
              others == IF IsRead(e.type) THEN ToSet(q.write_wait)
                        ELSE {q.write_wait[i] : i \in ahead}
  <2>1. PICK x : /\ x.owner = b
                 /\ x \in others \/ x \in ToSet(q.write) \/ x \in ToSet(q.read)
    BY <1>6 DEF Blockers
  <2>2. CASE x \in ToSet(q.write) \/ x \in ToSet(q.read)
    BY <2>1, <2>2 DEF GrantedIn
  <2>3. CASE x \in others /\ IsRead(e.type)
    BY <1>5, <2>1, <2>3 DEF ToSet
  <2>4. CASE x \in others /\ ~IsRead(e.type)
    <3>1. PICK i \in ahead : x = q.write_wait[i]
      BY <2>4
    <3>. QED BY <2>1, <3>1
  <2>. QED BY <2>1, <2>2, <2>3, <2>4
<1>. QED BY <1>1, <1>2, <1>4, <1>6

(* No set of threads waits only for each other: of the tables its threads  *)
(* wait for take the last one; none of them has a lock on it, since        *)
(* sort_locks() orders the tables and a thread that has a lock on a table  *)
(* does not wait for it again; and of those in its queue one is the first. *)
THEOREM NoDeadlockOfLocks == Spec => []NoDeadlock
<1>1. ThrLockInv => NoDeadlock
  <2>. SUFFICES ASSUME ThrLockInv, NEW S \in SUBSET Waiters, S # {}
                PROVE  \E o \in S : Blockers(o) \cap S = {}
    BY DEF NoDeadlock
  <2>. DEFINE A == {Awaited(o).lock : o \in S}
  <2>1. \A o \in S : /\ o \in Threads /\ pc[o] = "wait" /\ Awaited(o).lock \in Locks
                     /\ Queued(locks[Awaited(o).lock], o, Awaited(o).k)
    BY BlockersFacts DEF Waiters
  <2>2. PICK L \in A : \A l \in A : l <= L
    <3>1. A \in SUBSET Locks /\ A # {}
      BY <2>1
    <3>. HIDE DEF A
    <3>2. A \subseteq Nat /\ IsFiniteSet(A)
      BY <3>1, LocksAssumption, FS_Subset
    <3>. QED BY <3>1, <3>2, MaxExists
  <2>. DEFINE q == locks[L]
              W == {i \in DOMAIN q.write_wait : q.write_wait[i].owner \in S}
  <2>3. L \in Locks /\ L \in Nat
    BY <2>1, <2>2, LocksAssumption
  <2>4. \A x \in GrantedIn(q) : x.owner \notin S
    <3>. SUFFICES ASSUME NEW x \in GrantedIn(q), x.owner \in S PROVE FALSE
      OBVIOUS
    <3>1. L < Awaited(x.owner).lock
      BY <2>1, <2>3, HolderOrder
    <3>2. Awaited(x.owner).lock <= L /\ Awaited(x.owner).lock \in Nat
      BY <2>1, <2>2, LocksAssumption
    <3>. QED BY <2>3, <3>1, <3>2
  <2>5. ASSUME NEW i \in W PROVE Awaited(q.write_wait[i].owner).lock = L
    <3>1. q.write_wait[i] \in WaitingIn(q)
      BY DEF WaitingIn, ToSet
    <3>. QED BY <2>1, <2>3, <3>1, AwaitedFacts
  <2>6. CASE W = {}
    <3>1. PICK o \in S : Awaited(o).lock = L
      BY <2>2
    <3>2. ASSUME NEW b \in Blockers(o) PROVE b \notin S
      <4>1. \/ \E x \in GrantedIn(q) : x.owner = b
            \/ \E i \in DOMAIN q.write_wait : q.write_wait[i].owner = b
        BY <3>1, BlockersFacts
      <4>. QED BY <2>4, <2>6, <4>1
    <3>. QED BY <3>2
  <2>7. CASE W # {}
    <3>1. q.write_wait \in Seq(Entry) /\ Distinct(q.write_wait) /\ QueueInv(q)
      <4>1. QueueInv(q) /\ q \in THRLock
        BY <2>3, InvFacts
      <4>. QED BY <4>1, QueueTypes DEF QueueInv, EntriesInv
    <3>2. PICK i \in W : \A n \in W : i <= n
      <4>1. W \subseteq Nat
        BY <3>1, LenProperties
      <4>. HIDE DEF W
      <4>. QED BY <2>7, <4>1, MinExists
    <3>. DEFINE o == q.write_wait[i].owner
    <3>3. o \in S /\ Awaited(o).lock = L
      BY <2>5
    <3>4. Asked(o) = q.write_wait[i] /\ Asked(o) \in ToSet(q.write_wait)
      <4>1. Asked(o) \in WaitingIn(q) /\ Asked(o).owner = o
        BY <3>3, BlockersFacts
      <4>2. q.write_wait[i] \in WaitingIn(q) /\ q.write_wait[i] \in ToSet(q.write_wait)
        BY DEF WaitingIn, ToSet
      <4>. QED BY <3>1, <4>1, <4>2 DEF QueueInv, WaitersInv
    <3>5. ASSUME NEW b \in Blockers(o) PROVE b \notin S
      <4>1. \/ \E x \in GrantedIn(q) : x.owner = b
            \/ \E n \in DOMAIN q.write_wait :
                 /\ q.write_wait[n].owner = b
                 /\ \E j \in DOMAIN q.write_wait : n < j /\ q.write_wait[j] = Asked(o)
        BY <3>3, <3>4, BlockersFacts
      <4>2. CASE \E x \in GrantedIn(q) : x.owner = b
        BY <2>4, <4>2
      <4>3. ASSUME NEW n \in DOMAIN q.write_wait, q.write_wait[n].owner = b,
                   NEW j \in DOMAIN q.write_wait, n < j, q.write_wait[j] = Asked(o)
            PROVE  b \notin S
        <5>1. j = i
          BY <3>1, <3>4, <4>3 DEF Distinct
        <5>2. i \in Nat /\ n \in Nat
          BY <3>1, LenProperties
        <5>3. n \notin W
          BY <3>2, <4>3, <5>1, <5>2
        <5>. QED BY <4>3, <5>3
      <4>. QED BY <4>1, <4>2, <4>3
    <3>. QED BY <3>3, <3>5
  <2>. QED BY <2>6, <2>7
<1>. QED BY <1>1, ThrLockInvariant, PTL

-----------------------------------------------------------------------------
(* How long a reader waits.                                                *)

(* What free_all_read_locks() leaves in the queue.                         *)
LEMMA FreeLeaves ==
  ASSUME NEW q \in THRLock, NEW c \in BOOLEAN
  PROVE  /\ FreeReaders(q, c).write = q.write
         /\ \A f \in ToSet(FreeReaders(q, c).read_wait) : f \in ToSet(q.read_wait) /\ c
         /\ \/ FreeReaders(q, c).read_wait = <<>>
            \/ FreeReaders(q, c).write_lock_count = q.write_lock_count
<1>. DEFINE back == {i \in DOMAIN q.read_wait : NoInsert(q.read_wait[i]) /\ c}
            r == free_all_read_locks(q, c)
<1>1. /\ r.read_wait = Sublist(q.read_wait, back) /\ r.write = q.write
      /\ r.write_lock_count = IF Sublist(q.read_wait, back) = <<>> THEN 0 ELSE q.write_lock_count
  BY DEF free_all_read_locks, THRLock
<1>2. \A f \in ToSet(r.read_wait) : f \in ToSet(q.read_wait) /\ c
  <2>1. back \subseteq DOMAIN q.read_wait /\ q.read_wait \in Seq(Entry)
    BY QueueTypes
  <2>2. \A i \in back : q.read_wait[i] \in ToSet(q.read_wait) /\ c
    BY DEF ToSet
  <2>. HIDE DEF back, r
  <2>3. ToSet(Sublist(q.read_wait, back)) = {q.read_wait[i] : i \in back}
    BY <2>1, SublistFacts
  <2>. QED BY <1>1, <2>2, <2>3
<1>. HIDE DEF r
<1>3. CASE q.read_wait = <<>>
  BY <1>3, EmptyFacts DEF FreeReaders
<1>4. CASE q.read_wait # <<>>
  BY <1>1, <1>2, <1>4 DEF FreeReaders, r
<1>. QED BY <1>3, <1>4

(* If r, after q, leaves readers waiting, then write_lock_count tells      *)
(* whether a writer that excludes them was preferred to them.              *)
Counted(q, r) ==
  /\ ToSet(r.read_wait) \subseteq ToSet(q.read_wait)
  /\ \/ ToSet(r.read_wait) = {}
     \/ /\ r.write_lock_count = q.write_lock_count
        /\ \A w \in ToSet(r.write) : w \in ToSet(q.write) \/ w.type \notin StrongTypes
     \/ r.write_lock_count = q.write_lock_count + 1

(* free_all_read_locks() for everyone leaves no reader behind.             *)
LEMMA FreeAllCounts ==
  ASSUME NEW q, NEW p \in THRLock, p.read_wait = q.read_wait
  PROVE  Counted(q, FreeReaders(p, FALSE))
BY FreeLeaves DEF Counted

(* Beside a sharing writer it goes on with the count of p.                 *)
LEMMA FreeCounts ==
  ASSUME NEW q, NEW p \in THRLock, p.read_wait = q.read_wait, NEW c \in BOOLEAN,
         \/ /\ p.write_lock_count = q.write_lock_count
            /\ \A w \in ToSet(p.write) : w \in ToSet(q.write) \/ w.type \notin StrongTypes
         \/ p.write_lock_count = q.write_lock_count + 1
  PROVE  Counted(q, FreeReaders(p, c))
<1>. DEFINE r == FreeReaders(p, c)
<1>1. /\ r.write = p.write /\ ToSet(r.read_wait) \subseteq ToSet(q.read_wait)
      /\ r.read_wait = <<>> \/ r.write_lock_count = p.write_lock_count
  BY FreeLeaves
<1>. HIDE DEF r
<1>. QED BY <1>1, EmptyFacts DEF Counted, r

LEMMA WakeFreeCounts ==
  ASSUME NEW q, QueueInv(q), NEW unfit \in BOOLEAN, q.write = <<>>
  PROVE  Counted(q, WakeFree(q, unfit))
<1>. DEFINE r == WakeFree(q, unfit)
            tooMany == q.write_lock_count > max_write_lock_count
            n == IF tooMany THEN 0 ELSE q.write_lock_count + 1
            zero == [q EXCEPT !.write_lock_count = 0]
            one == [q EXCEPT !.write_lock_count = n]
            next == GrantWriters(one, unfit)
            type == Last(next.write).type
<1>1. q \in THRLock /\ q.write_lock_count \in Nat
  BY QueueTypes DEF QueueInv, EntriesInv
<1>2. 0 \in 0 .. max_write_lock_count + 1 /\ n \in 0 .. max_write_lock_count + 1
  BY <1>1, QueueTypes, LocksAssumption
<1>3. zero \in THRLock /\ zero.read_wait = q.read_wait
  BY <1>1, <1>2 DEF THRLock
<1>4. r = FreeReaders(q, FALSE)
      \/ (q.read_wait # <<>> /\ r = free_all_read_locks(zero, FALSE))
      \/ /\ q.write_wait # <<>> /\ (~tooMany \/ q.read_wait = <<>>)
         /\ r = next \/ r = FreeReaders(next, type \in Sharing)
  BY DEF WakeFree
<1>5. CASE r = FreeReaders(q, FALSE)
  BY <1>1, <1>5, FreeAllCounts
<1>6. CASE q.read_wait # <<>> /\ r = free_all_read_locks(zero, FALSE)
  <2>1. r = FreeReaders(zero, FALSE)
    BY <1>3, <1>6 DEF FreeReaders
  <2>. HIDE DEF zero, r
  <2>. QED BY <1>3, <2>1, FreeAllCounts DEF r
<1>7. CASE /\ q.write_wait # <<>> /\ (~tooMany \/ q.read_wait = <<>>)
           /\ r = next \/ r = FreeReaders(next, type \in Sharing)
  <2>1. /\ QueueInv(one) /\ one.write = <<>> /\ one.write_wait = q.write_wait
        /\ one.read_wait = q.read_wait /\ one.write_lock_count = n
    BY <1>2, SetCountFacts
  <2>. HIDE DEF one
  <2>2. /\ next \in THRLock /\ next.read_wait = q.read_wait /\ next.write_lock_count = n
    BY <1>7, <2>1, GrantFields DEF QueueInv
  <2>. HIDE DEF next
  <2>3. ~tooMany => n = q.write_lock_count + 1
    OBVIOUS
  <2>. HIDE DEF n, tooMany
  <2>4. CASE r = next
    BY <1>7, <2>2, <2>3, <2>4, EmptyFacts DEF Counted
  <2>5. CASE r = FreeReaders(next, type \in Sharing)
    <3>1. (type \in Sharing) \in BOOLEAN
      OBVIOUS
    <3>. HIDE DEF type
    <3>2. CASE q.read_wait = <<>>
      <4>1. r = next
        BY <2>2, <2>5, <3>2 DEF FreeReaders
      <4>. QED BY <2>2, <3>2, <4>1, EmptyFacts DEF Counted
    <3>3. CASE q.read_wait # <<>>
      BY <1>7, <2>2, <2>3, <2>5, <3>1, <3>3, FreeCounts
    <3>. QED BY <3>2, <3>3
  <2>. QED BY <1>7, <2>4, <2>5
<1>. QED BY <1>4, <1>5, <1>6, <1>7

LEMMA WakeBesideCounts ==
  ASSUME NEW q, QueueInv(q), NEW unfit \in BOOLEAN, q.write = <<>>
  PROVE  Counted(q, WakeBesideReaders(q, unfit))
<1>. DEFINE r == WakeBesideReaders(q, unfit)
            head == Head(q.write_wait)
            next == GrantWriters(q, FALSE)
            p == [q EXCEPT !.write_wait[1].type = "TL_WRITE"]
<1>1. q \in THRLock /\ EntriesInv(q)
  BY DEF QueueInv, EntriesInv
<1>2. \/ r = FreeReaders(q, FALSE) \/ r = q
      \/ /\ q.write_wait # <<>> /\ head.type = "TL_WRITE_CONCURRENT_INSERT"
         /\ r = FreeReaders(p, FALSE)
      \/ /\ q.write_wait # <<>> /\ ~(Rank[head.type] > Rank["TL_WRITE_DELAYED"])
         /\ r = FreeReaders(next, head.type \in Sharing)
  BY DEF WakeBesideReaders
<1>3. CASE r = FreeReaders(q, FALSE)
  BY <1>1, <1>3, FreeAllCounts
<1>4. CASE r = q
  BY <1>4 DEF Counted
<1>5. CASE /\ q.write_wait # <<>> /\ head.type = "TL_WRITE_CONCURRENT_INSERT"
           /\ r = FreeReaders(p, FALSE)
  <2>1. p \in THRLock /\ p.read_wait = q.read_wait
    BY <1>5, RetypeFacts DEF QueueInv, EntriesInv
  <2>. HIDE DEF p
  <2>. QED BY <1>5, <2>1, FreeAllCounts
<1>6. CASE /\ q.write_wait # <<>> /\ ~(Rank[head.type] > Rank["TL_WRITE_DELAYED"])
           /\ r = FreeReaders(next, head.type \in Sharing)
  <2>1. /\ next \in THRLock /\ next.read_wait = q.read_wait
        /\ next.write_lock_count = q.write_lock_count
    BY <1>1, <1>6, GrantFields
  <2>2. (head.type \in Sharing) \in BOOLEAN
    OBVIOUS
  <2>3. \A w \in ToSet(next.write) : w.type = head.type /\ head.type \in Types
    BY <1>1, <1>6, GrantTypes
  <2>4. \A w \in ToSet(next.write) : w.type \notin StrongTypes
    BY <1>6, <2>3, TypeFacts
  <2>. HIDE DEF next, head
  <2>. QED BY <1>6, <2>1, <2>2, <2>4, FreeCounts
<1>. QED BY <1>2, <1>3, <1>4, <1>5, <1>6

LEMMA WakeCounts ==
  ASSUME NEW q, QueueInv(q), NEW unfit \in BOOLEAN
  PROVE  Counted(q, wake_up_waiters(q, unfit))
<1>1. CASE q.write # <<>>
  BY <1>1 DEF wake_up_waiters, Counted
<1>2. CASE q.write = <<>>
  BY <1>2, WakeFreeCounts, WakeBesideCounts DEF wake_up_waiters
<1>. QED BY <1>1, <1>2

(* A writer that comes before a waiting reader is counted.                 *)
PreferredWriter(q, r) ==
  \E w \in ToSet(r.write) : w.type \in StrongTypes /\ \A x \in ToSet(q.write) : x.owner # w.owner
WritersCounted(q, r) ==
  \A f \in ToSet(r.read_wait) : f \in ToSet(q.read_wait) =>
    /\ q.write_lock_count <= r.write_lock_count
    /\ PreferredWriter(q, r) => q.write_lock_count < r.write_lock_count

OvertakenInv ==
  /\ \A o \in Threads :
       overtaken[o] = 0 \/ \E l \in Locks : \E e \in ToSet(locks[l].read_wait) : e.owner = o
  /\ \A l \in Locks : \A e \in ToSet(locks[l].read_wait) :
       overtaken[e.owner] <= locks[l].write_lock_count

LEMMA OldLockFacts ==
  \A s, o : has_old_lock(s, o) <=> \E e \in ToSet(s) : e.owner = o
BY DEF has_old_lock, ToSet

LEMMA OvertakenFacts ==
  ASSUME NEW q \in THRLock, NEW r \in THRLock, NEW o \in Threads
  PROVE  o \in Overtaken(q, r) <=> /\ \E f \in ToSet(r.read_wait) : f.owner = o
                                   /\ \E e \in ToSet(q.read_wait) : e.owner = o
                                   /\ PreferredWriter(q, r)
<1>1. \A w \in ToSet(r.write) : Rank[w.type] >= Rank["TL_WRITE_LOW_PRIORITY"]
                                  <=> w.type \in StrongTypes
  <2>1. ToSet(r.write) \subseteq Entry
    BY QueueTypes DEF GrantedIn
  <2>. QED BY <2>1, TypeFacts DEF Entry, Types
<1>2. PreferredWriter(q, r) <=>
        \E i \in DOMAIN r.write : /\ ~has_old_lock(q.write, r.write[i].owner)
                                  /\ Rank[r.write[i].type] >= Rank["TL_WRITE_LOW_PRIORITY"]
  BY <1>1, OldLockFacts DEF PreferredWriter, ToSet
<1>. QED BY <1>2, OldLockFacts DEF Overtaken

(* A reader waits for one table.                                           *)
LEMMA WaitsOnce ==
  ASSUME ThrLockInv, NEW l \in Locks, NEW m \in Locks, NEW e \in ToSet(locks[l].read_wait),
         NEW f \in ToSet(locks[m].read_wait), e.owner = f.owner
  PROVE  l = m /\ e = f /\ e.owner \in Threads
<1>1. /\ e \in WaitingIn(locks[l]) /\ f \in WaitingIn(locks[m]) /\ IsRead(e.type)
      /\ e \in Entry /\ e.owner \in Threads
  <2>1. e \in WaitingIn(locks[l]) /\ f \in WaitingIn(locks[m]) /\ IsRead(e.type)
    BY InvFacts DEF QueueInv, EntriesInv, WaitingIn
  <2>. QED BY <2>1, InvFacts DEF Entry
<1>2. EntryInv(l, e) /\ QueuedInv(l, e) /\ EntryInv(m, f) /\ QueuedInv(m, f)
  BY <1>1, InvFacts
<1>3. e.owner \in Sessions
  <2>. SUFFICES ASSUME e.owner \in Handlers PROVE FALSE
    BY <1>1 DEF Threads
  <2>1. e.type \in {delayed_lock, "TL_WRITE_DELAYED"}
    BY <1>2 DEF EntryInv
  <2>. QED BY <1>1, <2>1, HandlerTypes
<1>4. l = m
  BY <1>2, <1>3 DEF EntryInv, EntryOf, QueuedInv
<1>. QED BY <1>1, <1>4, InvFacts DEF QueueInv, WaitersInv

(* Every change of a lock keeps the bound.                                 *)
LEMMA SetLockCounts ==
  ASSUME ThrLockInv, OvertakenInv, NEW l \in Locks, NEW r, SetLock(l, r), QueueInv(r),
         WritersCounted(locks[l], r),
         \A f \in ToSet(r.read_wait) :
           \/ f \in ToSet(locks[l].read_wait)
           \/ \A m \in Locks : \A e \in ToSet(locks[m].read_wait) : e.owner # f.owner
  PROVE  OvertakenInv'
<1>. DEFINE q == locks[l]
<1>1. /\ locks \in [Locks -> THRLock] /\ overtaken \in [Threads -> Nat]
      /\ r \in THRLock /\ q \in THRLock /\ WaitersInv(r)
  BY InvFacts DEF ThrLockInv, QueueInv, EntriesInv
<1>2. locks'[l] = r /\ \A m \in Locks : m # l => locks'[m] = locks[m]
  BY <1>1 DEF SetLock
<1>3. \A o \in Threads :
        overtaken'[o] = IF o \in Overtaken(q, r) THEN overtaken[o] + 1
                        ELSE IF has_old_lock(r.read_wait, o) THEN overtaken[o]
                        ELSE IF has_old_lock(q.read_wait, o) THEN 0 ELSE overtaken[o]
  BY DEF SetLock
<1>4. \A m \in Locks : \A e \in ToSet(locks[m].read_wait) :
        overtaken[e.owner] <= locks[m].write_lock_count
  BY DEF OvertakenInv
<1>5. q.write_lock_count \in Nat /\ r.write_lock_count \in Nat
  BY <1>1, QueueTypes
<1>6. ASSUME NEW o \in Threads
      PROVE  /\ overtaken[o] = 0 \/ \E m \in Locks : \E e \in ToSet(locks[m].read_wait) : e.owner = o
             /\ o \in Overtaken(q, r) <=>
                  /\ \E f \in ToSet(r.read_wait) : f.owner = o
                  /\ \E e \in ToSet(q.read_wait) : e.owner = o
                  /\ PreferredWriter(q, r)
  BY <1>1, <1>6, OvertakenFacts DEF OvertakenInv
<1>7. ASSUME NEW o \in Threads
      PROVE  \/ overtaken'[o] = 0
             \/ \E m \in Locks : \E e \in ToSet(locks'[m].read_wait) : e.owner = o
  <2>1. CASE \E e \in ToSet(r.read_wait) : e.owner = o
    BY <1>2, <2>1
  <2>2. CASE ~(\E e \in ToSet(r.read_wait) : e.owner = o) /\ \E e \in ToSet(q.read_wait) : e.owner = o
    BY <1>3, <1>6, <2>2, OldLockFacts
  <2>3. CASE ~(\E e \in ToSet(r.read_wait) : e.owner = o) /\ ~(\E e \in ToSet(q.read_wait) : e.owner = o)
    <3>1. overtaken'[o] = overtaken[o]
      BY <1>3, <1>6, <2>3, OldLockFacts
    <3>. QED BY <1>2, <1>6, <2>3, <3>1
  <2>. QED BY <2>1, <2>2, <2>3
<1>8. ASSUME NEW e \in ToSet(r.read_wait)
      PROVE  overtaken'[e.owner] <= r.write_lock_count
  <2>1. e \in WaitingIn(r) /\ e.owner \in Threads
    BY <1>1, QueueTypes DEF WaitingIn, Entry
  <2>. DEFINE o == e.owner
  <2>2. overtaken[o] \in Nat
    BY <1>1, <2>1
  <2>3. CASE e \in ToSet(q.read_wait)
    <3>1. overtaken[o] <= q.write_lock_count
      BY <1>4, <2>3
    <3>2. CASE o \in Overtaken(q, r)
      <4>1. q.write_lock_count < r.write_lock_count
        BY <1>6, <2>1, <2>3, <3>2 DEF WritersCounted
      <4>2. overtaken'[o] = overtaken[o] + 1
        BY <1>3, <2>1, <3>2
      <4>. QED BY <1>5, <2>2, <3>1, <4>1, <4>2
    <3>3. CASE o \notin Overtaken(q, r)
      <4>1. overtaken'[o] = overtaken[o]
        BY <1>3, <2>1, <3>3, OldLockFacts
      <4>2. q.write_lock_count <= r.write_lock_count
        BY <2>3 DEF WritersCounted
      <4>. QED BY <1>5, <2>2, <3>1, <4>1, <4>2
    <3>. QED BY <3>2, <3>3
  <2>4. CASE e \notin ToSet(q.read_wait)
    <3>1. \A m \in Locks : \A f \in ToSet(locks[m].read_wait) : f.owner # o
      BY <2>4
    <3>2. overtaken[o] = 0 /\ o \notin Overtaken(q, r)
      BY <1>6, <2>1, <3>1
    <3>3. overtaken'[o] = 0
      BY <1>3, <2>1, <3>2, OldLockFacts
    <3>. QED BY <1>5, <3>3
  <2>. QED BY <2>3, <2>4
<1>9. ASSUME NEW m \in Locks, m # l, NEW e \in ToSet(locks[m].read_wait)
      PROVE  overtaken'[e.owner] = overtaken[e.owner]
  <2>1. e.owner \in Threads
    BY WaitsOnce
  <2>2. ~(\E f \in ToSet(q.read_wait) : f.owner = e.owner)
    BY <1>9, WaitsOnce
  <2>3. ~(\E f \in ToSet(r.read_wait) : f.owner = e.owner)
    BY <2>2
  <2>. QED BY <1>3, <1>6, <2>1, <2>2, <2>3, OldLockFacts
<1>10. ASSUME NEW m \in Locks, NEW e \in ToSet(locks'[m].read_wait)
       PROVE  overtaken'[e.owner] <= locks'[m].write_lock_count
  <2>1. CASE m = l
    BY <1>2, <1>8, <2>1
  <2>2. CASE m # l
    BY <1>2, <1>4, <1>9, <2>2
  <2>. QED BY <2>1, <2>2
<1>. QED BY <1>7, <1>10 DEF OvertakenInv

LEMMA WokenCounts ==
  ASSUME NEW q \in THRLock, NEW p, QueueInv(p), NEW unfit \in BOOLEAN,
         p.write_lock_count = q.write_lock_count,
         ToSet(p.write) \subseteq ToSet(q.write), ToSet(p.read_wait) \subseteq ToSet(q.read_wait)
  PROVE  LET r == wake_up_waiters(p, unfit)
         IN WritersCounted(q, r) /\ ToSet(r.read_wait) \subseteq ToSet(q.read_wait)
<1>. DEFINE r == wake_up_waiters(p, unfit)
<1>1. Counted(p, r)
  BY WakeCounts
<1>. HIDE DEF r
<1>2. q.write_lock_count \in Nat
  BY QueueTypes
<1>3. (\A w \in ToSet(r.write) : w \in ToSet(p.write) \/ w.type \notin StrongTypes)
        => ~PreferredWriter(q, r)
  BY DEF PreferredWriter
<1>4. WritersCounted(q, r)
  BY <1>1, <1>2, <1>3 DEF Counted, WritersCounted
<1>. QED BY <1>1, <1>4 DEF Counted, r

(* A step that leaves the count alone and grants no write lock to a thread *)
(* that had none.                                                          *)
LEMMA SameWriters ==
  ASSUME NEW q \in THRLock, NEW r, r.write_lock_count = q.write_lock_count,
         \A w \in ToSet(r.write) : \E x \in ToSet(q.write) : x.owner = w.owner
  PROVE  WritersCounted(q, r)
<1>1. q.write_lock_count \in Nat
  BY QueueTypes
<1>2. ~PreferredWriter(q, r)
  BY DEF PreferredWriter
<1>. QED BY <1>1, <1>2 DEF WritersCounted

(* The requests that are left when some give up.                           *)
LEMMA LeftFacts ==
  ASSUME NEW q, QueueInv(q), NEW p \in THRLock,
         ToSet(p.read_wait) \subseteq ToSet(q.read_wait), Distinct(p.read_wait),
         ToSet(p.write_wait) \subseteq ToSet(q.write_wait), Distinct(p.write_wait),
         p.read = q.read, p.write = q.write, p.read_no_write_count = q.read_no_write_count
  PROVE  QueueInv(p)
<1>1. q \in THRLock /\ Distinct(q.read) /\ Distinct(q.write)
  BY DEF QueueInv, EntriesInv
<1>2. CountInv(p) /\ OrderInv(p)
  BY DEF QueueInv, CountInv, OrderInv
<1>. QED BY <1>1, <1>2, FewerFacts

(* A thread that is not waiting is in no queue of readers.                 *)
LEMMA NotWaiting ==
  ASSUME ThrLockInv, NEW o \in Threads, pc[o] \in {"idle", "lock"},
         NEW m \in Locks, NEW e \in ToSet(locks[m].read_wait)
  PROVE  e.owner # o
<1>. SUFFICES ASSUME e.owner = o PROVE FALSE
  OBVIOUS
<1>1. e \in WaitingIn(locks[m])
  BY DEF WaitingIn
<1>2. EntryInv(m, e) /\ QueuedInv(m, e) /\ ThreadInv(o)
  BY <1>1, InvFacts
<1>3. EntryOf(m, e, data[o])
  BY <1>2 DEF EntryInv
<1>4. pc[o] = "lock" /\ o \in Sessions
  BY <1>2, <1>3 DEF EntryOf, ThreadInv, Threads
<1>. QED BY <1>2, <1>4 DEF QueuedInv

(* Thread o asks for the first of the locks s.                             *)
LEMMA ThrLockCounts ==
  ASSUME ThrLockInv, ThrLockInv', OvertakenInv, NEW o \in Threads, pc[o] \in {"idle", "lock"},
         NEW s, Head(s).lock \in Locks, thr_lock(o, s)
  PROVE  OvertakenInv'
<1>. DEFINE d == Head(s)
            l == d.lock
            q == locks[l]
<1>0. PICK unfit \in BOOLEAN :
        LET e == [owner |-> o, k |-> d.k, type |-> TypeAsked(q, d, unfit)]
        IN \/ /\ IsRead(e.type) /\ ReadAtOnce(q, e)
              /\ SetLock(l, [q EXCEPT !.read = Append(@, e),
                                      !.read_no_write_count = @ + (IF NoInsert(e) THEN 1 ELSE 0)])
           \/ /\ ~IsRead(e.type) /\ WriteAtOnce(q, e)
              /\ SetLock(l, [q EXCEPT !.write = Append(@, e)])
           \/ SetLock(l, [q EXCEPT !.write_wait = Append(@, e)])
           \/ SetLock(l, [q EXCEPT !.read_wait = Append(@, e)])
  BY DEF thr_lock
<1>. DEFINE e == [owner |-> o, k |-> d.k, type |-> TypeAsked(q, d, unfit)]
<1>1. e.owner = o
  OBVIOUS
<1>. HIDE DEF e, d
<1>2. /\ l \in Locks /\ q \in THRLock /\ Awake(q) /\ QueueInv(q) /\ locks \in [Locks -> THRLock]
      /\ q.write \in Seq(Entry) /\ q.read_wait \in Seq(Entry)
  <2>1. l \in Locks /\ q \in THRLock /\ Awake(q) /\ QueueInv(q) /\ locks \in [Locks -> THRLock]
    BY InvFacts DEF d, ThrLockInv
  <2>. QED BY <2>1, QueueTypes
<1>3. ASSUME NEW r, SetLock(l, r), WritersCounted(q, r),
             \A f \in ToSet(r.read_wait) : f \in ToSet(q.read_wait) \/ f.owner = o
      PROVE  OvertakenInv'
  <2>1. QueueInv(r)
    <3>1. (QueueInv(locks[l]))'
      <4>1. \A m \in Locks : QueueInv(locks'[m])
        BY DEF ThrLockInv, LockInv
      <4>. QED BY <1>2, <4>1 DEF d
    <3>2. locks'[l] = r
      BY <1>2, <1>3 DEF SetLock
    <3>. QED BY <3>1, <3>2
  <2>2. \A m \in Locks : \A f \in ToSet(locks[m].read_wait) : f.owner # o
    BY NotWaiting
  <2>. QED BY <1>2, <1>3, <2>1, <2>2, SetLockCounts
<1>4. ASSUME SetLock(l, [q EXCEPT !.read = Append(@, e),
                              !.read_no_write_count = @ + (IF NoInsert(e) THEN 1 ELSE 0)])
      PROVE  OvertakenInv'
  <2>. DEFINE n == q.read_no_write_count + (IF NoInsert(e) THEN 1 ELSE 0)
              r == [q EXCEPT !.read = Append(@, e), !.read_no_write_count = n]
  <2>1. r.write = q.write /\ r.read_wait = q.read_wait /\ r.write_lock_count = q.write_lock_count
    BY <1>2 DEF THRLock
  <2>2. SetLock(l, r)
    BY <1>4
  <2>. HIDE DEF r
  <2>3. WritersCounted(q, r)
    BY <1>2, <2>1, SameWriters
  <2>. QED BY <1>3, <2>1, <2>2, <2>3
<1>5. ASSUME ~IsRead(e.type), WriteAtOnce(q, e), SetLock(l, [q EXCEPT !.write = Append(@, e)])
      PROVE  OvertakenInv'
  <2>. DEFINE r == [q EXCEPT !.write = Append(@, e)]
  <2>1. r.write = Append(q.write, e) /\ r.read_wait = q.read_wait
        /\ r.write_lock_count = q.write_lock_count
    BY <1>2 DEF THRLock
  <2>2. SetLock(l, r)
    BY <1>5
  <2>. HIDE DEF r
  <2>3. ToSet(r.write) = ToSet(q.write) \cup {e}
    <3>1. PICK T : q.write \in Seq(T) /\ e \in T
      <4>1. q.write \in Seq(Entry \cup {e}) /\ e \in Entry \cup {e}
        BY <1>2, SeqMonotonic
      <4>. QED BY <4>1
    <3>. QED BY <2>1, <3>1, AppendFacts
  <2>4. CASE q.read_wait = <<>>
    <3>1. WritersCounted(q, r)
      BY <2>1, <2>4, EmptyFacts DEF WritersCounted
    <3>. QED BY <1>3, <2>1, <2>2, <3>1
  <2>5. CASE has_old_lock(q.write, o)
    <3>1. \A w \in ToSet(r.write) : \E x \in ToSet(q.write) : x.owner = w.owner
      BY <1>1, <2>3, <2>5, OldLockFacts
    <3>2. WritersCounted(q, r)
      BY <1>2, <2>1, <3>1, SameWriters
    <3>. QED BY <1>3, <2>1, <2>2, <3>2
  <2>6. CASE e.type \notin StrongTypes
    <3>1. ~PreferredWriter(q, r)
      BY <2>3, <2>6 DEF PreferredWriter
    <3>2. WritersCounted(q, r)
      <4>1. q.write_lock_count \in Nat
        BY <1>2, QueueTypes
      <4>. QED BY <2>1, <3>1, <4>1 DEF WritersCounted
    <3>. QED BY <1>3, <2>1, <2>2, <3>2
  <2>7. q.read_wait = <<>> \/ has_old_lock(q.write, o) \/ e.type \notin StrongTypes
    <3>1. CASE q.write # <<>>
      BY <1>1, <1>5, <3>1 DEF WriteAtOnce, StrongTypes
    <3>2. CASE q.write = <<>>
      <4>1. Rank[e.type] <= Rank["TL_WRITE_DELAYED"] => e.type \notin StrongTypes
        BY TypeFacts
      <4>. QED BY <1>2, <1>5, <3>2, <4>1 DEF WriteAtOnce, Awake
    <3>. QED BY <3>1, <3>2
  <2>. QED BY <2>4, <2>5, <2>6, <2>7
<1>6. ASSUME SetLock(l, [q EXCEPT !.write_wait = Append(@, e)])
      PROVE  OvertakenInv'
  <2>. DEFINE r == [q EXCEPT !.write_wait = Append(@, e)]
  <2>1. r.write = q.write /\ r.read_wait = q.read_wait /\ r.write_lock_count = q.write_lock_count
    BY <1>2 DEF THRLock
  <2>2. SetLock(l, r)
    BY <1>6
  <2>. HIDE DEF r
  <2>3. WritersCounted(q, r)
    BY <1>2, <2>1, SameWriters
  <2>. QED BY <1>3, <2>1, <2>2, <2>3
<1>7. ASSUME SetLock(l, [q EXCEPT !.read_wait = Append(@, e)])
      PROVE  OvertakenInv'
  <2>. DEFINE r == [q EXCEPT !.read_wait = Append(@, e)]
  <2>1. r.write = q.write /\ r.read_wait = Append(q.read_wait, e)
        /\ r.write_lock_count = q.write_lock_count
    BY <1>2 DEF THRLock
  <2>2. SetLock(l, r)
    BY <1>7
  <2>. HIDE DEF r
  <2>3. WritersCounted(q, r)
    BY <1>2, <2>1, SameWriters
  <2>4. ToSet(r.read_wait) = ToSet(q.read_wait) \cup {e}
    <3>1. PICK T : q.read_wait \in Seq(T) /\ e \in T
      <4>1. q.read_wait \in Seq(Entry \cup {e}) /\ e \in Entry \cup {e}
        BY <1>2, SeqMonotonic
      <4>. QED BY <4>1
    <3>. QED BY <2>1, <3>1, AppendFacts
  <2>. QED BY <1>1, <1>3, <2>2, <2>3, <2>4
<1>. QED BY <1>0, <1>4, <1>5, <1>6, <1>7 DEF e

(* A step that queues no reader.                                           *)
LEMMA QuietCounts ==
  ASSUME ThrLockInv, ThrLockInv', OvertakenInv, NEW l \in Locks, NEW r, SetLock(l, r),
         WritersCounted(locks[l], r), ToSet(r.read_wait) \subseteq ToSet(locks[l].read_wait)
  PROVE  OvertakenInv'
<1>1. locks \in [Locks -> THRLock] /\ \A m \in Locks : QueueInv(locks'[m])
  BY DEF ThrLockInv, LockInv
<1>2. locks'[l] = r
  BY <1>1 DEF SetLock
<1>. QED BY <1>1, <1>2, SetLockCounts

LEMMA WaitForLockCounts ==
  ASSUME ThrLockInv, ThrLockInv', OvertakenInv, NEW o \in Threads, wait_for_lock(o)
  PROVE  OvertakenInv'
<1>. DEFINE d == Awaited(o)
            l == d.lock
            q == locks[l]
            a == Without(q.read_wait, o, d.k)
            b == Without(q.write_wait, o, d.k)
            p == [q EXCEPT !.read_wait = a, !.write_wait = b]
<1>1. PICK unfit \in BOOLEAN : SetLock(l, wake_up_waiters(p, unfit))
  BY DEF wait_for_lock
<1>2. l \in Locks
  BY AwaitedFacts DEF wait_for_lock
<1>. HIDE DEF d
<1>3. /\ QueueInv(q) /\ q \in THRLock
      /\ q.read_wait \in Seq(Entry) /\ q.write_wait \in Seq(Entry)
      /\ Distinct(q.read_wait) /\ Distinct(q.write_wait)
  <2>1. QueueInv(q) /\ q \in THRLock
    BY <1>2, InvFacts
  <2>. QED BY <2>1, QueueTypes DEF QueueInv, EntriesInv
<1>4. /\ a \in Seq(Entry) /\ Distinct(a) /\ ToSet(a) \subseteq ToSet(q.read_wait)
      /\ b \in Seq(Entry) /\ Distinct(b) /\ ToSet(b) \subseteq ToSet(q.write_wait)
  BY <1>3, WithoutFacts
<1>. HIDE DEF a, b
<1>5. /\ QueueInv(p) /\ p.write = q.write /\ p.read_wait = a
      /\ p.write_lock_count = q.write_lock_count
  <2>1. /\ p \in THRLock /\ p.read = q.read /\ p.write = q.write
        /\ p.read_wait = a /\ p.write_wait = b
        /\ p.write_lock_count = q.write_lock_count
        /\ p.read_no_write_count = q.read_no_write_count
    BY <1>3, <1>4 DEF THRLock
  <2>. HIDE DEF p, q
  <2>. QED BY <1>3, <1>4, <2>1, LeftFacts
<1>. DEFINE r == wake_up_waiters(p, unfit)
<1>. HIDE DEF p
<1>6. WritersCounted(q, r) /\ ToSet(r.read_wait) \subseteq ToSet(q.read_wait)
  BY <1>3, <1>4, <1>5, WokenCounts
<1>. HIDE DEF r
<1>. QED BY <1>1, <1>2, <1>6, QuietCounts DEF r

LEMMA AbortCounts ==
  ASSUME ThrLockInv, ThrLockInv', OvertakenInv, NEW o \in Threads, NEW l \in Locks,
         thr_abort_locks_for_thread(o, l)
  PROVE  OvertakenInv'
<1>. DEFINE q == locks[l]
            P(s) == {i \in DOMAIN s : s[i].owner # o}
            a == Sublist(q.read_wait, P(q.read_wait))
            b == Sublist(q.write_wait, P(q.write_wait))
            p == [q EXCEPT !.read_wait = a, !.write_wait = b]
<1>1. PICK unfit \in BOOLEAN : SetLock(l, wake_up_waiters(p, unfit))
  BY DEF thr_abort_locks_for_thread
<1>2. /\ QueueInv(q) /\ q \in THRLock
      /\ q.read_wait \in Seq(Entry) /\ q.write_wait \in Seq(Entry)
      /\ Distinct(q.read_wait) /\ Distinct(q.write_wait)
  <2>1. QueueInv(q) /\ q \in THRLock
    BY InvFacts
  <2>. QED BY <2>1, QueueTypes DEF QueueInv, EntriesInv
<1>3. \A s : P(s) \subseteq DOMAIN s
  OBVIOUS
<1>. HIDE DEF P
<1>4. ASSUME NEW s \in Seq(Entry), Distinct(s)
      PROVE  /\ Sublist(s, P(s)) \in Seq(Entry) /\ Distinct(Sublist(s, P(s)))
             /\ ToSet(Sublist(s, P(s))) \subseteq ToSet(s)
  <2>1. /\ Sublist(s, P(s)) \in Seq(Entry) /\ Distinct(Sublist(s, P(s)))
        /\ ToSet(Sublist(s, P(s))) = {s[i] : i \in P(s)}
    BY <1>3, <1>4, SublistFacts
  <2>. QED BY <1>3, <2>1 DEF ToSet
<1>5. /\ a \in Seq(Entry) /\ Distinct(a) /\ ToSet(a) \subseteq ToSet(q.read_wait)
      /\ b \in Seq(Entry) /\ Distinct(b) /\ ToSet(b) \subseteq ToSet(q.write_wait)
  BY <1>2, <1>4
<1>. HIDE DEF a, b
<1>6. /\ QueueInv(p) /\ p.write = q.write /\ p.read_wait = a
      /\ p.write_lock_count = q.write_lock_count
  <2>1. /\ p \in THRLock /\ p.read = q.read /\ p.write = q.write
        /\ p.read_wait = a /\ p.write_wait = b
        /\ p.write_lock_count = q.write_lock_count
        /\ p.read_no_write_count = q.read_no_write_count
    BY <1>2, <1>5 DEF THRLock
  <2>. HIDE DEF p, q
  <2>. QED BY <1>2, <1>5, <2>1, LeftFacts
<1>. DEFINE r == wake_up_waiters(p, unfit)
<1>. HIDE DEF p
<1>7. WritersCounted(q, r) /\ ToSet(r.read_wait) \subseteq ToSet(q.read_wait)
  BY <1>2, <1>5, <1>6, WokenCounts
<1>. HIDE DEF r
<1>. QED BY <1>1, <1>7, QuietCounts DEF r

LEMMA UnlockCounts ==
  ASSUME ThrLockInv, ThrLockInv', OvertakenInv, NEW o \in Threads, NEW s,
         Head(s).lock \in Locks, thr_unlock(o, s)
  PROVE  OvertakenInv' \/ UNCHANGED <<locks, overtaken>>
<1>. DEFINE d == Head(s)
            l == d.lock
            q == locks[l]
            p == Unlocked(q, o, d.k)
<1>1. \/ UNCHANGED <<locks, overtaken>>
      \/ \E unfit \in BOOLEAN : SetLock(l, wake_up_waiters(p, unfit))
  BY DEF thr_unlock, Unlocked
<1>2. QueueInv(q) /\ q \in THRLock
  BY InvFacts
<1>3. ASSUME NEW unfit \in BOOLEAN, SetLock(l, wake_up_waiters(p, unfit)) PROVE OvertakenInv'
  <2>1. p.write_lock_count = q.write_lock_count
    BY <1>2 DEF Unlocked, THRLock
  <2>2. /\ QueueInv(p) /\ p.read_wait = q.read_wait
        /\ \A e : e \in ToSet(p.write) <=> e \in ToSet(q.write) /\ ~Is(e, o, d.k)
    BY <1>2, UnlockFields
  <2>. DEFINE r == wake_up_waiters(p, unfit)
  <2>. HIDE DEF p
  <2>3. WritersCounted(q, r) /\ ToSet(r.read_wait) \subseteq ToSet(q.read_wait)
    <3>1. ToSet(p.write) \subseteq ToSet(q.write)
      BY <2>2
    <3>. HIDE DEF q
    <3>. QED BY <1>2, <2>1, <2>2, <3>1, WokenCounts
  <2>. HIDE DEF r
  <2>. QED BY <1>3, <2>3, QuietCounts DEF r
<1>. QED BY <1>1, <1>3

LEMMA UpgradeCounts ==
  ASSUME ThrLockInv, ThrLockInv', OvertakenInv, NEW o \in Threads,
         thr_upgrade_write_delay_lock(o)
  PROVE  OvertakenInv' \/ UNCHANGED <<locks, overtaken>>
<1>. DEFINE q == locks[DelayedLock]
            u == [owner |-> o, k |-> 1, type |-> delayed_lock]
            w == Retyped(q.write, o, u)
            ww == Retyped(q.write_wait, o, u)
            upgraded == [q EXCEPT !.write = w]
            back == BackToQueue(q, o, u)
            queued == [q EXCEPT !.write_wait = ww]
<1>1. pc[o] # "idle" /\ o \in Handlers
  BY DEF thr_upgrade_write_delay_lock
<1>2. DelayedLock \in Locks /\ data[o][1].lock = DelayedLock /\ data[o][1].k = 1
  BY <1>1, HandlerFacts
<1>3. \/ SetLock(DelayedLock, upgraded) \/ SetLock(DelayedLock, back)
      \/ SetLock(DelayedLock, queued) \/ UNCHANGED <<locks, overtaken>>
  BY <1>2 DEF thr_upgrade_write_delay_lock, Retyped, BackToQueue
<1>4. q \in THRLock /\ q.write \in Seq(Entry) /\ Distinct(q.write)
  <2>1. QueueInv(q) /\ q \in THRLock
    BY <1>2, InvFacts
  <2>. QED BY <2>1, QueueTypes DEF QueueInv, EntriesInv
<1>5. u \in Entry /\ u.owner = o
  BY HandlerTypes DEF Entry, Types
<1>. HIDE DEF u
<1>6. ASSUME SetLock(DelayedLock, upgraded) PROVE OvertakenInv'
  <2>1. /\ upgraded.write = w /\ upgraded.read_wait = q.read_wait
        /\ upgraded.write_lock_count = q.write_lock_count
    BY <1>4 DEF THRLock
  <2>2. ASSUME NEW x \in ToSet(w) PROVE \E y \in ToSet(q.write) : y.owner = x.owner
    <3>1. /\ w \in Seq(Entry) /\ Len(w) = Len(q.write)
          /\ \A i \in 1 .. Len(q.write) : w[i] = IF Is(q.write[i], o, 1) THEN u ELSE q.write[i]
      BY <1>4, <1>5, RetypedFacts
    <3>2. PICK n \in Nat : n = Len(q.write) /\ DOMAIN w = 1 .. n /\ DOMAIN q.write = 1 .. n
      BY <1>4, <3>1, LenProperties
    <3>3. PICK i \in 1 .. n : x = w[i]
      BY <2>2, <3>2 DEF ToSet
    <3>4. q.write[i].owner = x.owner /\ q.write[i] \in ToSet(q.write)
      BY <1>5, <3>1, <3>2, <3>3 DEF Is, ToSet
    <3>. QED BY <3>4
  <2>. HIDE DEF upgraded
  <2>3. WritersCounted(q, upgraded)
    BY <1>4, <2>1, <2>2, SameWriters
  <2>. QED BY <1>2, <1>6, <2>1, <2>3, QuietCounts
<1>7. ASSUME SetLock(DelayedLock, back) PROVE OvertakenInv'
  <2>1. /\ back.write = Without(q.write, o, 1) /\ back.read_wait = q.read_wait
        /\ back.write_lock_count = q.write_lock_count
    BY <1>4 DEF BackToQueue, THRLock
  <2>. HIDE DEF back
  <2>2. ToSet(back.write) \subseteq ToSet(q.write)
    BY <1>4, <2>1, WithoutFacts
  <2>3. WritersCounted(q, back)
    BY <1>4, <2>1, <2>2, SameWriters
  <2>. QED BY <1>2, <1>7, <2>1, <2>3, QuietCounts
<1>8. ASSUME SetLock(DelayedLock, queued) PROVE OvertakenInv'
  <2>1. /\ queued.write = q.write /\ queued.read_wait = q.read_wait
        /\ queued.write_lock_count = q.write_lock_count
    BY <1>4 DEF THRLock
  <2>. HIDE DEF queued
  <2>2. WritersCounted(q, queued)
    BY <1>4, <2>1, SameWriters
  <2>. QED BY <1>2, <1>8, <2>1, <2>2, QuietCounts
<1>. QED BY <1>3, <1>6, <1>7, <1>8

LEMMA RescheduleCounts ==
  ASSUME ThrLockInv, ThrLockInv', OvertakenInv, NEW o \in Threads, thr_reschedule_write_lock(o)
  PROVE  OvertakenInv'
<1>. DEFINE q == locks[DelayedLock]
            u == [owner |-> o, k |-> 1, type |-> "TL_WRITE_DELAYED"]
            back == BackToQueue(q, o, u)
            r == FreeReaders(back, FALSE)
<1>1. pc[o] = "insert" /\ o \in Handlers
  BY InvFacts DEF thr_reschedule_write_lock, ThreadInv, Threads
<1>2. DelayedLock \in Locks /\ data[o][1].lock = DelayedLock /\ data[o][1].k = 1
  BY <1>1, HandlerFacts
<1>3. q.read_wait # <<>> /\ SetLock(DelayedLock, free_all_read_locks(back, FALSE))
  BY <1>2 DEF thr_reschedule_write_lock, BackToQueue
<1>4. /\ q \in THRLock /\ q.write \in Seq(Entry) /\ Distinct(q.write)
      /\ q.write_wait \in Seq(Entry)
  <2>1. QueueInv(q) /\ q \in THRLock
    BY <1>2, InvFacts
  <2>. QED BY <2>1, QueueTypes DEF QueueInv, EntriesInv
<1>5. u \in Entry
  BY TypeFacts DEF Entry, Types
<1>. HIDE DEF u
<1>6. back \in THRLock /\ back.read_wait = q.read_wait
  <2>1. <<u>> \o q.write_wait \in Seq(Entry) /\ Without(q.write, o, 1) \in Seq(Entry)
    BY <1>4, <1>5, PushFacts, WithoutFacts
  <2>2. PICK ww \in Seq(Entry) : ww = <<u>> \o q.write_wait
    BY <2>1
  <2>3. PICK w \in Seq(Entry) : w = Without(q.write, o, 1)
    BY <2>1
  <2>4. back = [q EXCEPT !.write = w, !.write_wait = ww]
    BY <2>2, <2>3 DEF BackToQueue
  <2>. HIDE DEF back
  <2>. QED BY <1>4, <2>4 DEF THRLock
<1>. HIDE DEF back
<1>7. SetLock(DelayedLock, r)
  BY <1>3, <1>6 DEF FreeReaders
<1>8. ToSet(r.read_wait) = {}
  BY <1>6, FreeLeaves
<1>. HIDE DEF r
<1>9. WritersCounted(q, r)
  BY <1>8 DEF WritersCounted
<1>. QED BY <1>2, <1>7, <1>8, <1>9, QuietCounts

LEMMA CountsKept == ThrLockInv /\ OvertakenInv /\ [Next]_vars => OvertakenInv'
<1>. SUFFICES ASSUME ThrLockInv, OvertakenInv, [Next]_vars PROVE OvertakenInv'
  OBVIOUS
<1>1. ThrLockInv'
  BY NextKeeps
<1>2. ASSUME UNCHANGED <<locks, overtaken>> PROVE OvertakenInv'
  BY <1>2 DEF OvertakenInv
<1>3. ASSUME NEW o \in Threads, thr_multi_lock(o) PROVE OvertakenInv'
  <2>1. PICK r \in IF o \in Handlers THEN {<<[lock |-> DelayedLock, type |-> "TL_WRITE_DELAYED"]>>}
                   ELSE Requests :
          LET D == [n \in DOMAIN r |-> [k |-> n, lock |-> r[n].lock, type |-> r[n].type]]
          IN data' = [data EXCEPT ![o] = D] /\ thr_lock(o, sort_locks(D))
    BY <1>3 DEF thr_multi_lock
  <2>. DEFINE D == [n \in DOMAIN r |-> [k |-> n, lock |-> r[n].lock, type |-> r[n].type]]
  <2>2. data'[o] = D /\ thr_lock(o, sort_locks(D))
    BY <2>1 DEF ThrLockInv
  <2>3. D \in Seq(THRLockData)
    <3>1. data' \in [Threads -> Seq(THRLockData)]
      BY <1>1 DEF ThrLockInv
    <3>. HIDE DEF D
    <3>. QED BY <2>2, <3>1
  <2>4. DOMAIN r # {}
    <3>1. CASE o \in Handlers
      BY <2>1, <3>1
    <3>2. CASE o \notin Handlers
      <4>1. PICK R : r # <<>> /\ r \in Seq(R)
        BY <2>1, <3>2, RequestsAssumption
      <4>2. PICK n \in Nat : n = Len(r) /\ DOMAIN r = 1 .. n
        BY <4>1, LenProperties
      <4>3. n # 0
        BY <4>1, <4>2, EmptySeq
      <4>4. 1 \in 1 .. n
        BY <4>2, <4>3
      <4>. QED BY <4>2, <4>4
    <3>. QED BY <3>1, <3>2
  <2>5. D # <<>>
    <3>1. DOMAIN D # {}
      BY <2>4
    <3>. HIDE DEF D
    <3>. QED BY <3>1
  <2>. HIDE DEF D
  <2>6. Head(sort_locks(D)).lock \in Locks
    <3>1. sort_locks(D) \in Seq(THRLockData) /\ Len(sort_locks(D)) = Len(D)
      BY <2>3, SortFacts
    <3>2. sort_locks(D) # <<>>
      BY <2>3, <2>5, <3>1, EmptySeq
    <3>3. Head(sort_locks(D)) \in THRLockData
      BY <3>1, <3>2, TailFacts
    <3>. QED BY <3>3 DEF THRLockData
  <2>. QED BY <1>1, <1>3, <2>2, <2>6, ThrLockCounts DEF thr_multi_lock
<1>4. ASSUME NEW o \in Threads, LockNext(o) PROVE OvertakenInv'
  <2>1. pc[o] = "lock" /\ thr_lock(o, todo[o]) /\ ThreadInv(o)
    BY <1>4, InvFacts DEF LockNext
  <2>2. todo[o] \in Seq(THRLockData) /\ todo[o] # <<>>
    BY <2>1 DEF ThreadInv, Threads
  <2>3. Head(todo[o]).lock \in Locks
    <3>1. Head(todo[o]) \in THRLockData
      BY <2>2, TailFacts
    <3>. QED BY <3>1 DEF THRLockData
  <2>. QED BY <1>1, <2>1, <2>3, ThrLockCounts
<1>5. ASSUME NEW o \in Threads, thr_multi_unlock(o) PROVE OvertakenInv'
  <2>1. pc[o] \in {"run", "insert"} /\ thr_unlock(o, data[o]) /\ ThreadInv(o)
    BY <1>5, InvFacts DEF thr_multi_unlock
  <2>2. data[o] \in Seq(THRLockData) /\ data[o] # <<>>
    BY <2>1 DEF ThreadInv
  <2>3. Head(data[o]).lock \in Locks
    <3>1. Head(data[o]) \in THRLockData
      BY <2>2, TailFacts
    <3>. QED BY <3>1 DEF THRLockData
  <2>. QED BY <1>1, <1>2, <2>1, <2>3, UnlockCounts
<1>6. ASSUME NEW o \in Threads, UnlockNext(o) PROVE OvertakenInv'
  <2>1. pc[o] = "unlock" /\ thr_unlock(o, todo[o]) /\ ThreadInv(o)
    BY <1>6, InvFacts DEF UnlockNext
  <2>2. todo[o] \in Seq(THRLockData) /\ todo[o] # <<>>
    BY <2>1 DEF ThreadInv
  <2>3. Head(todo[o]).lock \in Locks
    <3>1. Head(todo[o]) \in THRLockData
      BY <2>2, TailFacts
    <3>. QED BY <3>1 DEF THRLockData
  <2>. QED BY <1>1, <1>2, <2>1, <2>3, UnlockCounts
<1>7. ASSUME NEW o \in Threads, Got(o) \/ Aborted(o) PROVE OvertakenInv'
  BY <1>2, <1>7 DEF Got, Aborted
<1>8. ASSUME NEW o \in Threads, Step(o) PROVE OvertakenInv'
  BY <1>1, <1>2, <1>3, <1>4, <1>5, <1>6, <1>7, <1>8, WaitForLockCounts, UpgradeCounts,
     RescheduleCounts DEF Step
<1>9. ASSUME NEW o \in Threads, NEW l \in Locks, thr_abort_locks_for_thread(o, l)
      PROVE  OvertakenInv'
  BY <1>1, <1>9, AbortCounts
<1>10. ASSUME UNCHANGED vars PROVE OvertakenInv'
  BY <1>2, <1>10 DEF vars
<1>. QED BY <1>8, <1>9, <1>10 DEF Next

(* A waiting reader is let run after at most max_write_lock_count + 1 more *)
(* writers that exclude every reader have been preferred to it: as long as *)
(* it waits they are counted by write_lock_count, which is started again   *)
(* only when no reader is left waiting.                                    *)
THEOREM WaitingReadersLetIn == Spec => []ReadersLetIn
<1>1. Init => OvertakenInv
  <2>. SUFFICES ASSUME Init PROVE OvertakenInv
    OBVIOUS
  <2>1. /\ \A o \in Threads : overtaken[o] = 0
        /\ \A l \in Locks : locks[l].read_wait = <<>>
    BY DEF Init
  <2>. QED BY <2>1, EmptyFacts DEF OvertakenInv
<1>2. ThrLockInv /\ OvertakenInv => ReadersLetIn
  <2>. SUFFICES ASSUME ThrLockInv, OvertakenInv, NEW o \in Threads
                PROVE  overtaken[o] <= max_write_lock_count + 1
    BY DEF ReadersLetIn
  <2>1. overtaken[o] \in Nat /\ max_write_lock_count \in Nat
    BY LocksAssumption DEF ThrLockInv
  <2>2. CASE overtaken[o] = 0
    BY <2>1, <2>2
  <2>3. ASSUME NEW l \in Locks, NEW e \in ToSet(locks[l].read_wait), e.owner = o
        PROVE  overtaken[o] <= max_write_lock_count + 1
    <3>1. overtaken[o] <= locks[l].write_lock_count
      BY <2>3 DEF OvertakenInv
    <3>2. locks[l].write_lock_count \in 0 .. max_write_lock_count + 1
      BY InvFacts, QueueTypes
    <3>. QED BY <2>1, <3>1, <3>2
  <2>. QED BY <2>2, <2>3 DEF OvertakenInv
<1>3. Spec => []OvertakenInv
  <2>1. OvertakenInv /\ ThrLockInv /\ [Next]_vars => OvertakenInv'
    BY CountsKept
  <2>. QED BY <1>1, <2>1, ThrLockInvariant, PTL DEF Spec
<1>. QED BY <1>2, <1>3, ThrLockInvariant, PTL
=============================================================================
