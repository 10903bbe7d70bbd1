---------------------------- MODULE ListsProofs -----------------------------
(***************************************************************************)
(* What the operations on lists return, keep and bound.                    *)
(***************************************************************************)
EXTENDS Lists, SequencesExt, SequenceTheorems, FiniteSetTheorems, TLAPS

(* No entry is in the list twice.                                          *)
Distinct(s) == \A i, j \in DOMAIN s : s[i] = s[j] => i = j

-----------------------------------------------------------------------------
(* Numbers.                                                                *)

LEMMA MinExists ==
  ASSUME NEW S, S \subseteq Nat, S # {}
  PROVE  \E x \in S : \A y \in S : x <= y
<1>. DEFINE R == OpToRel(<, Nat)
<1>1. IsWellFoundedOn(R, Nat)
  BY NatLessThanWellFounded
<1>. HIDE DEF R
<1>2. \E x \in S : \A y \in S : ~ (<<y, x>> \in R)
  BY <1>1, WFMin
<1>3. PICK x \in S : \A y \in S : ~ (<<y, x>> \in R)
  BY <1>2
<1>4. \A y \in S : ~(y < x)
  BY <1>3 DEF R, OpToRel
<1>. QED BY <1>4

(* Induction over the natural numbers, for a set.                          *)
LEMMA SetInduction ==
  ASSUME NEW S, S \subseteq Nat, 0 \in S, \A n \in S : n + 1 \in S
  PROVE  S = Nat
<1>. DEFINE B == Nat \ S
<1>1. ASSUME B # {} PROVE FALSE
  <2>1. \E x \in B : \A y \in B : x <= y
    BY <1>1, MinExists
  <2>2. PICK x \in B : \A y \in B : x <= y
    BY <2>1
  <2>3. x \in Nat /\ x \notin S /\ x # 0
    BY <2>2
  <2>4. x - 1 \in Nat /\ ~(x <= x - 1) /\ (x - 1) + 1 = x
    BY <2>3
  <2>5. x - 1 \in S
    BY <2>2, <2>4
  <2>. QED BY <2>3, <2>4, <2>5
<1>. QED BY <1>1

(* Finitely many natural numbers have a largest one.                      *)
LEMMA MaxExists ==
  ASSUME NEW S, S \subseteq Nat, S # {}, IsFiniteSet(S)
  PROVE  \E x \in S : \A y \in S : y <= x
<1>. DEFINE Above(x) == {y \in S : y > x}
            C == {Cardinality(Above(x)) : x \in S}
<1>1. \A x \in S : IsFiniteSet(Above(x)) /\ Cardinality(Above(x)) \in Nat
  <2>. SUFFICES ASSUME NEW x \in S PROVE IsFiniteSet(Above(x)) /\ Cardinality(Above(x)) \in Nat
    OBVIOUS
  <2>1. Above(x) \in SUBSET S
    OBVIOUS
  <2>. HIDE DEF Above
  <2>. QED BY <2>1, FS_Subset, FS_CardinalityType
<1>2. PICK x \in S : \A y \in S : Cardinality(Above(x)) <= Cardinality(Above(y))
  <2>1. C \subseteq Nat /\ C # {}
    BY <1>1
  <2>2. \E c \in C : \A d \in C : c <= d
    <3>. HIDE DEF C
    <3>. QED BY <2>1, MinExists
  <2>. QED BY <2>2
<1>3. ASSUME NEW y \in S, ~(y <= x) PROVE FALSE
  <2>1. y > x
    BY <1>3
  <2>2. Above(y) \subseteq Above(x) /\ y \in Above(x) /\ y \notin Above(y)
    <3>1. \A z \in S : z > y => z > x
      BY <2>1
    <3>2. ~(y > y)
      OBVIOUS
    <3>. QED BY <2>1, <3>1, <3>2
  <2>3. Above(y) \in SUBSET Above(x) /\ Above(y) # Above(x)
    BY <2>2
  <2>. HIDE DEF Above
  <2>4. Cardinality(Above(y)) < Cardinality(Above(x))
    BY <1>1, <2>3, FS_Subset
  <2>. QED BY <1>1, <1>2, <2>4
<1>. QED BY <1>3

LEMMA MinFacts ==
  ASSUME NEW S, S \subseteq Nat, S # {}
  PROVE  Min(S) \in S /\ \A y \in S : Min(S) <= y
BY MinExists DEF Min

(* The n-th smallest of finitely many numbers is one of them, and numbers  *)
(* of different rank are different.                                        *)
LEMMA NthFacts ==
  ASSUME NEW P, P \subseteq Nat, IsFiniteSet(P), NEW n \in 1 .. Cardinality(P)
  PROVE  Nth(P, n) \in P /\ Cardinality({j \in P : j <= Nth(P, n)}) = n
<1>. DEFINE below(i) == {j \in P : j <= i}
            f == [i \in P |-> Cardinality(below(i))]
            N == Cardinality(P)
<1>1. N \in Nat
  BY FS_CardinalityType
<1>2. ASSUME NEW i \in P
      PROVE  IsFiniteSet(below(i)) /\ Cardinality(below(i)) \in 1 .. N
  <2>1. below(i) \in SUBSET P /\ i \in below(i)
    OBVIOUS
  <2>2. IsFiniteSet(below(i)) /\ Cardinality(below(i)) <= N
    BY <2>1, FS_Subset
  <2>3. Cardinality(below(i)) \in Nat /\ Cardinality(below(i)) # 0
    BY <2>1, <2>2, FS_CardinalityType, FS_EmptySet
  <2>. QED BY <1>1, <2>2, <2>3
<1>3. ASSUME NEW i \in P, NEW j \in P, i < j
      PROVE  Cardinality(below(i)) < Cardinality(below(j))
  <2>0. i \in Nat /\ j \in Nat /\ \A k \in P : k \in Nat
    OBVIOUS
  <2>1. below(i) \in SUBSET below(j) /\ j \in below(j) /\ j \notin below(i)
    <3>1. \A k \in P : k <= i => k <= j
      BY <1>3, <2>0
    <3>2. j <= j /\ ~(j <= i)
      BY <1>3, <2>0
    <3>3. below(i) \in SUBSET below(j)
      BY <3>1
    <3>4. j \in below(j) /\ j \notin below(i)
      BY <3>2
    <3>. QED BY <3>3, <3>4
  <2>2. Cardinality(below(i)) <= Cardinality(below(j))
        /\ (Cardinality(below(j)) = Cardinality(below(i)) => below(j) = below(i))
    BY <1>2, <2>1, FS_Subset
  <2>. QED BY <1>2, <2>1, <2>2
<1>4. f \in Injection(P, 1 .. N)
  <2>1. f \in [P -> 1 .. N]
    BY <1>2
  <2>2. ASSUME NEW i \in P, NEW j \in P, f[i] = f[j] PROVE i = j
    BY <1>2, <1>3, <2>2
  <2>. QED BY <2>1, <2>2 DEF Injection, IsInjective
<1>5. IsFiniteSet(1 .. N) /\ Cardinality(1 .. N) = N
  BY <1>1, FS_Interval
<1>6. f \in Surjection(P, 1 .. N)
  BY <1>4, <1>5, FS_Injection
<1>7. \E i \in P : Cardinality(below(i)) = n
  BY <1>6 DEF Surjection
<1>. QED BY <1>7 DEF Nth

-----------------------------------------------------------------------------
(* Members of lists.                                                       *)

LEMMA ToSetFacts ==
  ASSUME NEW S, NEW s \in Seq(S)
  PROVE  /\ ToSet(s) = {s[i] : i \in 1 .. Len(s)}
         /\ ToSet(s) \subseteq S
         /\ s # <<>> <=> ToSet(s) # {}
<1>1. DOMAIN s = 1 .. Len(s) /\ Len(s) \in Nat /\ \A i \in 1 .. Len(s) : s[i] \in S
  BY LenProperties, ElementOfSeq
<1>2. s # <<>> => 1 \in DOMAIN s
  BY <1>1, EmptySeq
<1>3. s = <<>> => DOMAIN s = {}
  BY <1>1, EmptySeq
<1>. QED BY <1>1, <1>2, <1>3 DEF ToSet

LEMMA EmptyFacts == ToSet(<<>>) = {} /\ Distinct(<<>>)
BY DEF ToSet, Distinct

LEMMA ConcatFacts ==
  ASSUME NEW S, NEW s \in Seq(S), NEW t \in Seq(S)
  PROVE  /\ s \o t \in Seq(S)
         /\ ToSet(s \o t) = ToSet(s) \cup ToSet(t)
         /\ Distinct(s) /\ Distinct(t) /\ ToSet(s) \cap ToSet(t) = {} => Distinct(s \o t)
<1>. DEFINE u == s \o t
<1>1. /\ u \in Seq(S) /\ Len(u) = Len(s) + Len(t)
      /\ \A i \in 1 .. Len(s) + Len(t) : u[i] = IF i <= Len(s) THEN s[i] ELSE t[i - Len(s)]
  BY ConcatProperties
<1>2. DOMAIN s = 1 .. Len(s) /\ DOMAIN t = 1 .. Len(t) /\ DOMAIN u = 1 .. Len(u)
      /\ Len(s) \in Nat /\ Len(t) \in Nat
  BY <1>1, LenProperties
<1>. HIDE DEF u
<1>3. ToSet(u) = ToSet(s) \cup ToSet(t)
  <2>1. ASSUME NEW i \in DOMAIN s PROVE i \in DOMAIN u /\ u[i] = s[i]
    BY <1>1, <1>2
  <2>2. ASSUME NEW i \in DOMAIN t PROVE Len(s) + i \in DOMAIN u /\ u[Len(s) + i] = t[i]
    BY <1>1, <1>2
  <2>3. ASSUME NEW i \in DOMAIN u
        PROVE  (i \in DOMAIN s /\ u[i] = s[i])
               \/ (i - Len(s) \in DOMAIN t /\ u[i] = t[i - Len(s)])
    BY <1>1, <1>2
  <2>. QED BY <2>1, <2>2, <2>3 DEF ToSet
<1>4. ASSUME Distinct(s), Distinct(t), ToSet(s) \cap ToSet(t) = {},
             NEW i \in DOMAIN u, NEW j \in DOMAIN u, u[i] = u[j]
      PROVE  i = j
  <2>1. CASE i <= Len(s) /\ j <= Len(s)
    BY <1>1, <1>2, <1>4, <2>1 DEF Distinct
  <2>2. CASE ~(i <= Len(s)) /\ ~(j <= Len(s))
    <3>1. i - Len(s) \in DOMAIN t /\ j - Len(s) \in DOMAIN t
          /\ t[i - Len(s)] = t[j - Len(s)]
      BY <1>1, <1>2, <1>4, <2>2
    <3>2. i - Len(s) = j - Len(s)
      BY <1>4, <3>1 DEF Distinct
    <3>. QED BY <1>2, <3>2
  <2>3. ASSUME NEW a \in DOMAIN u, NEW b \in DOMAIN u, a <= Len(s), ~(b <= Len(s)), u[a] = u[b]
        PROVE  FALSE
    <3>1. a \in DOMAIN s /\ u[a] = s[a] /\ b - Len(s) \in DOMAIN t /\ u[b] = t[b - Len(s)]
      BY <1>1, <1>2, <2>3
    <3>. QED BY <1>4, <2>3, <3>1 DEF ToSet
  <2>. QED BY <1>4, <2>1, <2>2, <2>3
<1>. QED BY <1>1, <1>3, <1>4 DEF u, Distinct

LEMMA PushFacts ==
  ASSUME NEW S, NEW s \in Seq(S), NEW e \in S
  PROVE  /\ <<e>> \o s \in Seq(S) /\ <<e>> \o s # <<>>
         /\ ToSet(<<e>> \o s) = ToSet(s) \cup {e}
         /\ Head(<<e>> \o s) = e /\ Tail(<<e>> \o s) = s
         /\ Distinct(s) /\ e \notin ToSet(s) => Distinct(<<e>> \o s)
<1>1. <<e>> \in Seq(S) /\ Len(<<e>>) = 1 /\ <<e>>[1] = e
  OBVIOUS
<1>2. ToSet(<<e>>) = {e} /\ Distinct(<<e>>)
  BY <1>1 DEF ToSet, Distinct
<1>3. <<e>> \o s \in Seq(S) /\ ToSet(<<e>> \o s) = ToSet(s) \cup {e}
      /\ (Distinct(s) /\ e \notin ToSet(s) => Distinct(<<e>> \o s))
  <2>. DEFINE u == <<e>>
  <2>1. u \in Seq(S) /\ ToSet(u) = {e} /\ Distinct(u)
    BY <1>1, <1>2
  <2>. HIDE DEF u
  <2>2. /\ u \o s \in Seq(S) /\ ToSet(u \o s) = ToSet(s) \cup {e}
        /\ (Distinct(s) /\ e \notin ToSet(s) => Distinct(u \o s))
    BY <2>1, ConcatFacts
  <2>. QED BY <2>2 DEF u
<1>4. /\ <<e>> \o s # <<>> /\ Head(<<e>> \o s) = e /\ Tail(<<e>> \o s) = s
  <2>1. /\ Len(<<e>> \o s) = 1 + Len(s) /\ Len(s) \in Nat
        /\ \A i \in 1 .. 1 + Len(s) : (<<e>> \o s)[i] = IF i <= 1 THEN e ELSE s[i - 1]
    BY <1>1, ConcatProperties, LenProperties
  <2>2. <<e>> \o s # <<>>
    BY <1>3, <2>1, EmptySeq
  <2>3. Head(<<e>> \o s) = e
    BY <2>1, <2>2, <1>3
  <2>4. /\ Tail(<<e>> \o s) \in Seq(S) /\ Len(Tail(<<e>> \o s)) = Len(s)
        /\ \A i \in 1 .. Len(s) : Tail(<<e>> \o s)[i] = s[i]
    BY <1>3, <2>1, <2>2, HeadTailProperties
  <2>. QED BY <2>2, <2>3, <2>4, SeqEqual
<1>. QED BY <1>3, <1>4

LEMMA AppendFacts ==
  ASSUME NEW S, NEW s \in Seq(S), NEW e \in S
  PROVE  /\ Append(s, e) \in Seq(S) /\ ToSet(Append(s, e)) = ToSet(s) \cup {e}
         /\ Distinct(s) /\ e \notin ToSet(s) => Distinct(Append(s, e))
<1>1. <<e>> \in Seq(S) /\ ToSet(<<e>>) = {e} /\ Distinct(<<e>>)
  BY DEF ToSet, Distinct
<1>. DEFINE u == <<e>>
<1>2. Append(s, e) = s \o u /\ u \in Seq(S) /\ ToSet(u) = {e} /\ Distinct(u)
  BY <1>1, AppendIsConcat
<1>. HIDE DEF u
<1>. QED BY <1>2, ConcatFacts

LEMMA TailFacts ==
  ASSUME NEW S, NEW s \in Seq(S), s # <<>>
  PROVE  /\ Head(s) \in ToSet(s) /\ Head(s) \in S /\ Tail(s) \in Seq(S)
         /\ ToSet(s) = ToSet(Tail(s)) \cup {Head(s)}
         /\ Distinct(s) => Distinct(Tail(s)) /\ Head(s) \notin ToSet(Tail(s))
<1>. DEFINE t == Tail(s)
<1>1. /\ Head(s) \in S /\ t \in Seq(S) /\ Len(t) = Len(s) - 1
      /\ \A i \in 1 .. Len(t) : t[i] = s[i + 1]
  BY HeadTailProperties
<1>2. /\ Len(s) \in Nat \ {0} /\ DOMAIN s = 1 .. Len(s) /\ DOMAIN t = 1 .. Len(t)
      /\ Head(s) = s[1]
  BY <1>1, EmptySeq, LenProperties
<1>. HIDE DEF t
<1>3. \A i \in DOMAIN t : i + 1 \in DOMAIN s /\ t[i] = s[i + 1] /\ i + 1 # 1
  BY <1>1, <1>2
<1>4. \A i \in DOMAIN s : i = 1 \/ (i - 1 \in DOMAIN t /\ s[i] = t[i - 1])
  BY <1>1, <1>2
<1>5. ToSet(s) = ToSet(t) \cup {Head(s)} /\ 1 \in DOMAIN s
  BY <1>2, <1>3, <1>4 DEF ToSet
<1>6. ASSUME Distinct(s) PROVE Distinct(t) /\ Head(s) \notin ToSet(t)
  <2>1. ASSUME NEW i \in DOMAIN t, NEW j \in DOMAIN t, t[i] = t[j] PROVE i = j
    <3>1. i + 1 = j + 1
      BY <1>3, <1>6, <2>1 DEF Distinct
    <3>. QED BY <1>2, <3>1
  <2>2. \A i \in DOMAIN t : t[i] # Head(s)
    BY <1>2, <1>3, <1>5, <1>6 DEF Distinct
  <2>. QED BY <2>1, <2>2 DEF Distinct, ToSet
<1>. QED BY <1>1, <1>5, <1>6 DEF t, ToSet

LEMMA ReverseFacts ==
  ASSUME NEW S, NEW s \in Seq(S)
  PROVE  /\ Reverse(s) \in Seq(S) /\ ToSet(Reverse(s)) = ToSet(s)
         /\ Distinct(s) => Distinct(Reverse(s))
<1>. DEFINE r == Reverse(s)
            n == Len(s)
<1>1. n \in Nat /\ DOMAIN s = 1 .. n /\ \A i \in 1 .. n : s[i] \in S
  BY LenProperties, ElementOfSeq
<1>2. r \in [1 .. n -> S] /\ \A i \in 1 .. n : r[i] = s[(n - i) + 1]
  BY <1>1 DEF Reverse
<1>. HIDE DEF r, n
<1>3. r \in Seq(S)
  BY <1>1, <1>2, SeqDef
<1>4. ToSet(r) = ToSet(s)
  <2>1. \A i \in 1 .. n : (n - i) + 1 \in 1 .. n /\ (n - ((n - i) + 1)) + 1 = i
    BY <1>1
  <2>. QED BY <1>1, <1>2, <2>1 DEF ToSet
<1>5. ASSUME Distinct(s), NEW i \in 1 .. n, NEW j \in 1 .. n, r[i] = r[j] PROVE i = j
  <2>1. (n - i) + 1 \in DOMAIN s /\ (n - j) + 1 \in DOMAIN s
    BY <1>1
  <2>2. (n - i) + 1 = (n - j) + 1
    BY <1>2, <1>5, <2>1 DEF Distinct
  <2>. QED BY <1>1, <2>2
<1>. QED BY <1>2, <1>3, <1>4, <1>5 DEF r, Distinct

LEMMA PrefixFacts ==
  ASSUME NEW S, NEW s \in Seq(S), NEW n \in 0 .. Len(s)
  PROVE  /\ SubSeq(s, 1, n) \in Seq(S)
         /\ ToSet(SubSeq(s, 1, n)) = {s[i] : i \in 1 .. n}
         /\ Distinct(s) => Distinct(SubSeq(s, 1, n))
<1>. DEFINE t == SubSeq(s, 1, n)
<1>1. Len(s) \in Nat /\ DOMAIN s = 1 .. Len(s) /\ \A i \in 1 .. n : s[i] \in S
  BY LenProperties, ElementOfSeq
<1>2. t \in Seq(S) /\ Len(t) = n /\ \A i \in 1 .. n : t[i] = s[i]
  BY <1>1, SubSeqProperties
<1>3. DOMAIN t = 1 .. n
  BY <1>2, LenProperties
<1>. HIDE DEF t
<1>4. ToSet(t) = {s[i] : i \in 1 .. n}
  BY <1>2, <1>3 DEF ToSet
<1>5. Distinct(s) => Distinct(t)
  BY <1>1, <1>2, <1>3 DEF Distinct
<1>. QED BY <1>2, <1>4, <1>5 DEF t

(* SelectInSeq() finds the first position of e.                            *)
LEMMA FirstFacts ==
  ASSUME NEW S, NEW s \in Seq(S), NEW e, e \in ToSet(s)
  PROVE  LET n == SelectInSeq(s, LAMBDA v : v = e)
         IN n \in 1 .. Len(s) /\ s[n] = e
<1>. DEFINE I == {i \in 1 .. Len(s) : s[i] = e}
<1>1. I # {} /\ I \subseteq Nat
  BY ToSetFacts
<1>2. SelectInSeq(s, LAMBDA v : v = e) = Min(I)
  BY <1>1 DEF SelectInSeq
<1>. HIDE DEF I
<1>3. Min(I) \in I
  BY <1>1, MinFacts
<1>. QED BY <1>2, <1>3 DEF I

LEMMA RemoveFirstFacts ==
  ASSUME NEW S, NEW s \in Seq(S), NEW e
  PROVE  /\ RemoveFirst(s, e) \in Seq(S)
         /\ Distinct(s) => /\ ToSet(RemoveFirst(s, e)) = ToSet(s) \ {e}
                           /\ Distinct(RemoveFirst(s, e))
<1>. DEFINE t == RemoveFirst(s, e)
            N == Len(s)
<1>1. N \in Nat /\ DOMAIN s = 1 .. N /\ \A i \in 1 .. N : s[i] \in S
  BY LenProperties, ElementOfSeq
<1>2. CASE e \notin ToSet(s)
  <2>1. t = s
    BY <1>1, <1>2 DEF ToSet, RemoveFirst
  <2>. QED BY <1>2, <2>1
<1>3. CASE e \in ToSet(s)
  <2>1. PICK n \in 1 .. N : s[n] = e /\ t = RemoveAt(s, n)
    BY <1>1, <1>3, FirstFacts DEF RemoveFirst, ToSet
  <2>. DEFINE a == SubSeq(s, 1, n - 1)
              b == SubSeq(s, n + 1, N)
  <2>2. a \in Seq(S) /\ Len(a) = n - 1 /\ \A i \in 1 .. n - 1 : a[i] = s[i]
    BY <1>1, SubSeqProperties
  <2>3. b \in Seq(S) /\ Len(b) = N - n /\ \A i \in 1 .. N - n : b[i] = s[n + i]
    <3>1. /\ b \in Seq(S)
          /\ Len(b) = IF n + 1 <= N THEN N - (n + 1) + 1 ELSE 0
          /\ \A i \in 1 .. N - (n + 1) + 1 : b[i] = s[(n + 1) + i - 1]
      <4>1. n + 1 \in Int /\ N \in Int /\ \A i \in n + 1 .. N : s[i] \in S
        BY <1>1
      <4>. QED BY <4>1, SubSeqProperties
    <3>2. N - (n + 1) + 1 = N - n /\ \A i \in 1 .. N - n : (n + 1) + i - 1 = n + i
      BY <1>1
    <3>. HIDE DEF b, N
    <3>3. Len(b) = N - n
      <4>1. N \in Nat /\ n \in Nat /\ n <= N
        BY <1>1
      <4>. QED BY <3>1, <4>1
    <3>. QED BY <3>1, <3>2, <3>3
  <2>4. t = a \o b
    BY <2>1 DEF RemoveAt
  <2>. HIDE DEF a, b, t, N
  <2>5. /\ t \in Seq(S) /\ Len(t) = N - 1
        /\ \A i \in 1 .. N - 1 : t[i] = IF i <= n - 1 THEN a[i] ELSE b[i - (n - 1)]
    <3>1. /\ t \in Seq(S) /\ Len(t) = (n - 1) + (N - n)
          /\ \A i \in 1 .. (n - 1) + (N - n) : t[i] = IF i <= n - 1 THEN a[i] ELSE b[i - (n - 1)]
      BY <2>2, <2>3, <2>4, ConcatProperties
    <3>2. (n - 1) + (N - n) = N - 1
      BY <1>1
    <3>. QED BY <3>1, <3>2
  <2>6. DOMAIN t = 1 .. N - 1
    BY <2>5, LenProperties
  <2>7. ASSUME NEW i \in 1 .. N - 1 PROVE t[i] = IF i < n THEN s[i] ELSE s[i + 1]
    <3>1. CASE i < n
      BY <1>1, <2>2, <2>5, <3>1
    <3>2. CASE ~(i < n)
      <4>1. i - (n - 1) \in 1 .. N - n /\ n + (i - (n - 1)) = i + 1 /\ ~(i <= n - 1)
        BY <1>1, <3>2
      <4>. QED BY <2>3, <2>5, <4>1, <3>2
    <3>. QED BY <3>1, <3>2
  <2>8. ASSUME Distinct(s) PROVE ToSet(t) = ToSet(s) \ {e} /\ Distinct(t)
    <3>1. ASSUME NEW i \in DOMAIN t PROVE t[i] \in ToSet(s) \ {e}
      <4>1. i \in DOMAIN s /\ i + 1 \in DOMAIN s /\ n \in DOMAIN s
        BY <1>1, <2>6
      <4>2. \/ t[i] = s[i] /\ i # n
            \/ t[i] = s[i + 1] /\ i + 1 # n
        <5>1. CASE i < n
          BY <1>1, <2>6, <2>7, <5>1
        <5>2. CASE ~(i < n)
          BY <1>1, <2>6, <2>7, <5>2
        <5>. QED BY <5>1, <5>2
      <4>. QED BY <2>1, <2>8, <4>1, <4>2 DEF ToSet, Distinct
    <3>2. ASSUME NEW i \in DOMAIN s, s[i] # e PROVE s[i] \in ToSet(t)
      <4>1. CASE i < n
        BY <1>1, <2>6, <2>7, <4>1 DEF ToSet
      <4>2. CASE ~(i < n)
        <5>1. i - 1 \in DOMAIN t /\ ~(i - 1 < n) /\ (i - 1) + 1 = i
          BY <1>1, <2>1, <2>6, <3>2, <4>2
        <5>2. t[i - 1] = s[i]
          BY <2>6, <2>7, <5>1
        <5>. QED BY <5>1, <5>2 DEF ToSet
      <4>. QED BY <4>1, <4>2
    <3>3. ASSUME NEW i \in DOMAIN t, NEW j \in DOMAIN t, t[i] = t[j] PROVE i = j
      <4>. DEFINE h(x) == IF x < n THEN x ELSE x + 1
      <4>1. h(i) \in DOMAIN s /\ h(j) \in DOMAIN s /\ t[i] = s[h(i)] /\ t[j] = s[h(j)]
        BY <1>1, <2>6, <2>7
      <4>2. h(i) = h(j)
        BY <2>8, <3>3, <4>1 DEF Distinct
      <4>. QED BY <1>1, <2>6, <4>2
    <3>4. ToSet(t) = ToSet(s) \ {e}
      BY <3>1, <3>2 DEF ToSet
    <3>. QED BY <3>3, <3>4 DEF Distinct
  <2>. QED BY <2>5, <2>8 DEF t
<1>. QED BY <1>2, <1>3

LEMMA SublistFacts ==
  ASSUME NEW S, NEW s \in Seq(S), NEW P, P \subseteq DOMAIN s
  PROVE  /\ Sublist(s, P) \in Seq(S)
         /\ ToSet(Sublist(s, P)) = {s[i] : i \in P}
         /\ Distinct(s) => Distinct(Sublist(s, P))
         /\ IsFiniteSet(P) /\ Len(Sublist(s, P)) = Cardinality(P)
<1>. DEFINE t == Sublist(s, P)
            n == Cardinality(P)
<1>1. DOMAIN s = 1 .. Len(s) /\ Len(s) \in Nat /\ \A i \in 1 .. Len(s) : s[i] \in S
  BY LenProperties, ElementOfSeq
<1>2. P \subseteq Nat /\ IsFiniteSet(P) /\ n \in Nat
  <2>1. IsFiniteSet(1 .. Len(s))
    BY <1>1, FS_Interval
  <2>. QED BY <1>1, <2>1, FS_Subset, FS_CardinalityType
<1>3. \A i \in 1 .. n : Nth(P, i) \in P /\ Cardinality({j \in P : j <= Nth(P, i)}) = i
  BY <1>2, NthFacts
<1>4. \A i \in P : \E j \in 1 .. n : Nth(P, j) = i
  <2>. DEFINE g == [i \in 1 .. n |-> Nth(P, i)]
  <2>1. g \in Injection(1 .. n, P)
    <3>1. g \in [1 .. n -> P]
      BY <1>3
    <3>2. \A i, j \in 1 .. n : g[i] = g[j] => i = j
      BY <1>3
    <3>. QED BY <3>1, <3>2 DEF Injection, IsInjective
  <2>2. IsFiniteSet(1 .. n) /\ Cardinality(1 .. n) = n
    BY <1>2, FS_Interval
  <2>3. g \in Surjection(1 .. n, P)
    BY <1>2, <2>1, <2>2, FS_Injection
  <2>. QED BY <2>3 DEF Surjection
<1>5. t \in [1 .. n -> S] /\ \A i \in 1 .. n : t[i] = s[Nth(P, i)]
  BY <1>1, <1>3 DEF Sublist
<1>. HIDE DEF t, n
<1>6. t \in Seq(S)
  BY <1>2, <1>5, SeqDef
<1>7. ToSet(t) = {s[i] : i \in P}
  <2>1. DOMAIN t = 1 .. n
    BY <1>5
  <2>2. \A i \in 1 .. n : \E j \in P : t[i] = s[j]
    BY <1>3, <1>5
  <2>3. \A j \in P : \E i \in 1 .. n : s[j] = t[i]
    BY <1>4, <1>5
  <2>. QED BY <2>1, <2>2, <2>3 DEF ToSet
<1>8. ASSUME Distinct(s), NEW i \in 1 .. n, NEW j \in 1 .. n, t[i] = t[j] PROVE i = j
  <2>1. Nth(P, i) = Nth(P, j)
    BY <1>3, <1>5, <1>8 DEF Distinct
  <2>. QED BY <1>3, <2>1
<1>9. Len(t) = n
  BY <1>2, <1>5, <1>6, LenProperties
<1>. QED BY <1>2, <1>5, <1>6, <1>7, <1>8, <1>9 DEF t, n, Distinct

LEMMA SublistOrder ==
  ASSUME NEW S, NEW s \in Seq(S), NEW P, P \subseteq DOMAIN s,
         NEW i \in DOMAIN Sublist(s, P), NEW j \in DOMAIN Sublist(s, P), i < j
  PROVE  \E a, b \in P : a < b /\ Sublist(s, P)[i] = s[a] /\ Sublist(s, P)[j] = s[b]
<1>. DEFINE n == Cardinality(P)
<1>1. DOMAIN s = 1 .. Len(s) /\ Len(s) \in Nat
  BY LenProperties
<1>2. P \subseteq Nat /\ IsFiniteSet(P)
  BY <1>1, SublistFacts
<1>3. DOMAIN Sublist(s, P) = 1 .. n /\ \A m \in 1 .. n : Sublist(s, P)[m] = s[Nth(P, m)]
  BY DEF Sublist
<1>4. \A m \in 1 .. n : Nth(P, m) \in P /\ Cardinality({x \in P : x <= Nth(P, m)}) = m
  BY <1>2, NthFacts
<1>5. i \in 1 .. n /\ j \in 1 .. n
  BY <1>3
<1>6. PICK a \in P : a = Nth(P, i) /\ Cardinality({x \in P : x <= a}) = i
  BY <1>4, <1>5
<1>7. PICK b \in P : b = Nth(P, j) /\ Cardinality({x \in P : x <= b}) = j
  BY <1>4, <1>5
<1>8. ASSUME b <= a PROVE FALSE
  <2>. DEFINE A == {x \in P : x <= a}
              B == {x \in P : x <= b}
  <2>1. B \subseteq A
    BY <1>2, <1>8
  <2>2. IsFiniteSet(A)
    BY <1>2, FS_Subset
  <2>3. Cardinality(B) <= Cardinality(A)
    BY <2>1, <2>2, FS_Subset
  <2>4. Cardinality(A) = i /\ Cardinality(B) = j
    BY <1>6, <1>7
  <2>. HIDE DEF A, B
  <2>. QED BY <1>5, <2>3, <2>4
<1>9. a < b
  BY <1>2, <1>8
<1>. QED BY <1>3, <1>5, <1>6, <1>7, <1>9

(* The entries of s at the positions P.                                    *)
EntriesAt(s, P) == {s[i] : i \in P}

(* Entries are counted by their positions.                                 *)
LEMMA CountPositions ==
  ASSUME NEW S, NEW s \in Seq(S), Distinct(s), NEW P, P \subseteq DOMAIN s
  PROVE  /\ IsFiniteSet(P) /\ IsFiniteSet(EntriesAt(s, P))
         /\ Cardinality(P) = Cardinality(EntriesAt(s, P))
<1>. DEFINE T == {s[i] : i \in P}
            f == [i \in P |-> s[i]]
<1>1. IsFiniteSet(P)
  BY SublistFacts
<1>2. f \in Bijection(P, T)
  <2>1. f \in [P -> T]
    OBVIOUS
  <2>2. \A i, j \in P : f[i] = f[j] => i = j
    BY DEF Distinct
  <2>3. \A t \in T : \E i \in P : f[i] = t
    OBVIOUS
  <2>. QED BY <2>1, <2>2, <2>3 DEF Bijection, Injection, Surjection, IsInjective
<1>. HIDE DEF T, f
<1>3. IsFiniteSet(T) /\ Cardinality(T) = Cardinality(P)
  BY <1>1, <1>2, FS_Bijection DEF ExistsBijection
<1>. QED BY <1>1, <1>3 DEF T, EntriesAt

(* A list without entry number n and the ones after it.                    *)
LEMMA SuffixFacts ==
  ASSUME NEW S, NEW s \in Seq(S), NEW n \in 0 .. Len(s)
  PROVE  /\ SubSeq(s, n + 1, Len(s)) \in Seq(S)
         /\ ToSet(SubSeq(s, n + 1, Len(s))) = {s[i] : i \in (n + 1) .. Len(s)}
         /\ Distinct(s) => Distinct(SubSeq(s, n + 1, Len(s)))
         /\ Len(SubSeq(s, n + 1, Len(s))) = Len(s) - n
<1>. DEFINE N == Len(s)
            t == SubSeq(s, n + 1, N)
<1>1. N \in Nat /\ DOMAIN s = 1 .. N /\ \A i \in 1 .. N : s[i] \in S
  BY LenProperties, ElementOfSeq
<1>2. /\ t \in Seq(S) /\ Len(t) = N - n /\ N - n \in Nat
      /\ \A i \in 1 .. N - n : t[i] = s[n + i]
  <2>1. PICK a \in Nat : a = N
    BY <1>1
  <2>2. n \in 0 .. a /\ n + 1 \in Int /\ a \in Int
    BY <2>1
  <2>3. \A i \in (n + 1) .. a : s[i] \in S
    BY <1>1, <2>1, <2>2
  <2>4. /\ t \in Seq(S) /\ Len(t) = IF n + 1 <= a THEN a - (n + 1) + 1 ELSE 0
        /\ \A i \in 1 .. a - (n + 1) + 1 : t[i] = s[(n + 1) + i - 1]
    BY <2>1, <2>2, <2>3, SubSeqProperties
  <2>. HIDE DEF t, N
  <2>5. /\ a - n \in Nat /\ Len(t) = a - n
        /\ \A i \in 1 .. a - n : i \in 1 .. a - (n + 1) + 1 /\ (n + 1) + i - 1 = n + i
    BY <2>2, <2>4
  <2>. QED BY <2>1, <2>4, <2>5
<1>. HIDE DEF t, N
<1>3. DOMAIN t = 1 .. N - n
  BY <1>2, LenProperties
<1>5. ToSet(t) = {s[i] : i \in (n + 1) .. N}
  <2>1. \A i \in 1 .. N - n : n + i \in (n + 1) .. N /\ t[i] = s[n + i]
    BY <1>1, <1>2
  <2>2. \A i \in (n + 1) .. N : i - n \in 1 .. N - n /\ t[i - n] = s[i]
    BY <1>1, <1>2
  <2>3. ASSUME NEW x PROVE x \in ToSet(t) <=> x \in {s[i] : i \in (n + 1) .. N}
    BY <1>3, <2>1, <2>2 DEF ToSet
  <2>. QED BY <2>3
<1>6. Distinct(s) => Distinct(t)
  <2>1. \A i \in 1 .. N - n : n + i \in 1 .. N /\ t[i] = s[n + i]
    BY <1>1, <1>2
  <2>. QED BY <1>1, <1>3, <2>1 DEF Distinct
<1>. QED BY <1>2, <1>5, <1>6 DEF t, N
=============================================================================
