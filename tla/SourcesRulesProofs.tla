------------------------ MODULE SourcesRulesProofs -------------------------
(***************************************************************************)
(* Theorems about the functions that only compute, for lists and numbers   *)
(* of any length and size; and about the admin's changes of sources, for   *)
(* any number of sources, versions and texts, while requests come one at a *)
(* time: the browser flag follows the script in force, and no source loses *)
(* its last one.  (Two requests on one source may well break both: README.)*)
(***************************************************************************)
EXTENDS Sources, Rules, FiniteSetTheorems, NaturalsInduction, SequenceTheorems, TLAPS

-----------------------------------------------------------------------------
(* Positions and numbers *)

LEMMA LeastNatural ==
    ASSUME NEW P \in SUBSET Nat, P # {}
    PROVE  \E i \in P : \A j \in P : i <= j
<1>1. IsWellFoundedOn(OpToRel(<, Nat), Nat)
    BY NatLessThanWellFounded
<1>2. PICK i \in P : \A j \in P : ~ (<<j, i>> \in OpToRel(<, Nat))
    BY <1>1, WFMin
<1>3. OpToRel(<, Nat) = {ss \in Nat \X Nat : ss[1] < ss[2]}
    BY DEF OpToRel
<1>4. ASSUME NEW j \in P
      PROVE  i <= j
    <2>1. ~ (<<j, i>> \in {ss \in Nat \X Nat : ss[1] < ss[2]})
        BY <1>2, <1>3, Zenon
    <2>2. i \in Nat /\ j \in Nat
        OBVIOUS
    <2>3. <<j, i>> \in Nat \X Nat
        BY <2>2
    <2>4. ~ (j < i)
        BY <2>1, <2>3
    <2> QED BY <2>2, <2>4
<1> QED BY <1>4

LEMMA GreatestBelow ==
    ASSUME NEW N \in Nat, NEW P \in SUBSET (0..N), P # {}
    PROVE  \E t \in P : \A u \in P : u <= t
<1> DEFINE Q == {N - t : t \in P}
<1>1. Q \in SUBSET Nat /\ Q # {}
    <2>1. \A t \in P : t \in Int /\ 0 <= t /\ t <= N
        OBVIOUS
    <2>2. \A t \in P : N - t \in Nat
        BY <2>1
    <2> QED
        BY <2>2
<1> HIDE DEF Q
<1>2. PICK d \in Q : \A e \in Q : d <= e
    BY <1>1, LeastNatural
<1> USE DEF Q
<1>3. PICK t \in P : d = N - t
    OBVIOUS
<1>4. \A u \in P : N - t <= N - u /\ u \in Int
    BY <1>2, <1>3
<1> QED
    BY <1>4

(* Numbering the members of a set of positions: every number up to its size is given once. *)
LEMMA Ranks ==
    ASSUME NEW N \in Nat, NEW P \in SUBSET (1..N)
    PROVE  /\ Cardinality(P) \in Nat
           /\ \A k \in P : Cardinality({j \in P : j <= k}) \in 1..Cardinality(P)
           /\ \A k, l \in P : Cardinality({j \in P : j <= k}) = Cardinality({j \in P : j <= l}) => k = l
           /\ \A i \in 1..Cardinality(P) : \E k \in P : Cardinality({j \in P : j <= k}) = i
<1> DEFINE Upto(k) == {j \in P : j <= k}
           rank == [k \in P |-> Cardinality(Upto(k))]
<1>1. IsFiniteSet(P) /\ Cardinality(P) \in Nat
    <2>1. IsFiniteSet(1..N)
        BY FS_Interval
    <2> QED
        BY <2>1, FS_Subset, FS_CardinalityType
<1>2. ASSUME NEW k \in P
      PROVE  /\ IsFiniteSet(Upto(k)) /\ Upto(k) \subseteq P /\ k \in Upto(k)
             /\ Cardinality(Upto(k)) \in 1..Cardinality(P)
    <2>1. Upto(k) \in SUBSET P /\ k \in Upto(k)
        OBVIOUS
    <2> HIDE DEF Upto
    <2>2. IsFiniteSet(Upto(k)) /\ Cardinality(Upto(k)) <= Cardinality(P) /\ Cardinality(Upto(k)) \in Nat
        BY <1>1, <2>1, FS_Subset, FS_CardinalityType
    <2>3. Cardinality(Upto(k)) # 0
        BY <2>1, <2>2, FS_EmptySet
    <2> QED
        BY <1>1, <2>1, <2>2, <2>3
<1>3. ASSUME NEW k \in P, NEW l \in P, k < l
      PROVE  Cardinality(Upto(k)) # Cardinality(Upto(l))
    <2>1. Upto(k) \in SUBSET Upto(l) /\ l \in Upto(l) /\ l \notin Upto(k)
        <3>1. k \in Nat /\ l \in Nat /\ \A j \in P : j \in Nat
            OBVIOUS
        <3>2. \A j \in P : j <= k => j <= l
            BY <1>3, <3>1
        <3>3. ~(l <= k)
            BY <1>3, <3>1
        <3>4. l \in Upto(l) /\ l \notin Upto(k)
            BY <3>1, <3>3
        <3>5. \A j \in Upto(k) : j \in Upto(l)
            BY <3>2
        <3> HIDE DEF Upto
        <3> QED
            BY <3>4, <3>5
    <2> HIDE DEF Upto
    <2> QED
        BY <1>2, <2>1, FS_Subset
<1>4. \A k, l \in P : Cardinality(Upto(k)) = Cardinality(Upto(l)) => k = l
    <2> HIDE DEF Upto
    <2>1. \A k, l \in P : k < l \/ l < k \/ k = l
        OBVIOUS
    <2> QED
        BY <1>3, <2>1
<1>5. \A i \in 1..Cardinality(P) : \E k \in P : Cardinality(Upto(k)) = i
    <2>1. rank \in [P -> 1..Cardinality(P)]
        BY <1>2
    <2>2. \A k, l \in P : rank[k] = rank[l] => k = l
        BY <1>4
    <2>3. rank \in Injection(P, 1..Cardinality(P))
        <3> HIDE DEF rank
        <3> QED
            BY <2>1, <2>2 DEF Injection, IsInjective
    <2>4. IsFiniteSet(1..Cardinality(P)) /\ Cardinality(1..Cardinality(P)) = Cardinality(P)
        <3>1. 1 \in Int /\ Cardinality(P) \in Int
            BY <1>1
        <3>2. Cardinality(1..Cardinality(P)) = IF 1 > Cardinality(P) THEN 0 ELSE Cardinality(P) - 1 + 1
            BY <3>1, FS_Interval
        <3> QED
            BY <1>1, <3>1, <3>2, FS_Interval
    <2>5. rank \in Surjection(P, 1..Cardinality(P))
        <3> HIDE DEF rank
        <3> QED
            BY <2>3, <2>4, FS_Injection
    <2>6. \A i \in 1..Cardinality(P) : \E k \in P : rank[k] = i
        <3> HIDE DEF rank
        <3> QED
            BY <2>5 DEF Surjection
    <2> QED
        BY <2>6
<1> QED
    BY <1>1, <1>2, <1>4, <1>5

(* A set that is numbered by another has at most its size. *)
LEMMA Counted ==
    ASSUME NEW S, NEW T, IsFiniteSet(S), NEW f \in [S -> T], \A t \in T : \E s \in S : f[s] = t
    PROVE  /\ IsFiniteSet(T)
           /\ Cardinality(T) <= Cardinality(S)
           /\ (\A x, y \in S : f[x] = f[y] => x = y) => Cardinality(T) = Cardinality(S)
<1>1. f \in Surjection(S, T)
    BY DEF Surjection
<1>2. (\A x, y \in S : f[x] = f[y] => x = y) => f \in Injection(S, T)
    BY DEF Injection, IsInjective
<1> QED
    BY <1>1, <1>2, FS_Surjection

-----------------------------------------------------------------------------
(* Sequences: an entry more, and the entries of a kind *)

LEMMA OneMore ==
    ASSUME NEW T, NEW s \in Seq(T), NEW x \in T
    PROVE  /\ Append(s, x) \in Seq(T)
           /\ Len(s) \in Nat /\ Len(Append(s, x)) = Len(s) + 1
           /\ DOMAIN s = 1..Len(s) /\ DOMAIN Append(s, x) = 1..(Len(s) + 1)
           /\ \A i \in 1..Len(s) : s[i] \in T /\ Append(s, x)[i] = s[i]
           /\ Append(s, x)[Len(s) + 1] = x
BY AppendProperties, ElementOfSeq

LEMMA OnlyIs ==
    ASSUME NEW T, NEW s \in Seq(T), NEW S
    PROVE  Only(s, S) \in Seq(S)
<1> DEFINE I == {i \in DOMAIN s : s[i] \in S}
           At(k) == CHOOSE i \in I : Cardinality({j \in I : j <= i}) = k
<1>1. I \in SUBSET (1..Len(s)) /\ Len(s) \in Nat
    OBVIOUS
<1>2. \A i \in I : s[i] \in S
    OBVIOUS
<1>3. Only(s, S) = [k \in 1..Cardinality(I) |-> s[At(k)]]
    BY DEF Only
<1> HIDE DEF I
<1>4. Cardinality(I) \in Nat /\ \A k \in 1..Cardinality(I) : \E i \in I : Cardinality({j \in I : j <= i}) = k
    BY <1>1, Ranks
<1>5. \A k \in 1..Cardinality(I) : At(k) \in I
    BY <1>4
<1> HIDE DEF At
<1>6. Only(s, S) \in [1..Cardinality(I) -> S]
    BY <1>2, <1>3, <1>5
<1> QED
    BY <1>4, <1>6

LEMMA OnlyAppend ==
    ASSUME NEW T, NEW s \in Seq(T), NEW x \in T, NEW S
    PROVE  Only(Append(s, x), S) = IF x \in S THEN Append(Only(s, S), x) ELSE Only(s, S)
<1> DEFINE n == Len(s)
           t == Append(s, x)
           I == {i \in DOMAIN s : s[i] \in S}
           J == {i \in DOMAIN t : t[i] \in S}
           At(P, k) == CHOOSE i \in P : Cardinality({j \in P : j <= i}) = k
<1>1. /\ n \in Nat /\ DOMAIN s = 1..n /\ DOMAIN t = 1..(n + 1)
      /\ \A i \in 1..n : t[i] = s[i]
      /\ t[n + 1] = x
    BY OneMore
<1>2. /\ Only(s, S) = [k \in 1..Cardinality(I) |-> s[At(I, k)]]
      /\ Only(t, S) = [k \in 1..Cardinality(J) |-> t[At(J, k)]]
    BY DEF Only
<1>3. /\ I \in SUBSET (1..n) /\ J \in SUBSET (1..(n + 1)) /\ n + 1 \in Nat
      /\ x \notin S => J = I
      /\ x \in S => J = I \cup {n + 1}
    BY <1>1
<1> HIDE DEF n, t, I, J
<1>4. /\ Cardinality(I) \in Nat
      /\ \A k \in 1..Cardinality(I) : \E i \in I : Cardinality({j \in I : j <= i}) = k
    BY ONLY <1>1, <1>3, Ranks
<1>5. /\ \A k, l \in J : Cardinality({j \in J : j <= k}) = Cardinality({j \in J : j <= l}) => k = l
      /\ \A k \in 1..Cardinality(J) : \E i \in J : Cardinality({j \in J : j <= i}) = k
    BY ONLY <1>3, Ranks
<1>6. \A k \in 1..Cardinality(I) : At(I, k) \in I /\ Cardinality({j \in I : j <= At(I, k)}) = k
    BY <1>4
<1>7. \A k \in 1..Cardinality(J) : At(J, k) \in J /\ Cardinality({j \in J : j <= At(J, k)}) = k
    BY <1>5
<1> HIDE DEF At
<1>8. CASE x \notin S
    <2>1. J = I
        BY <1>3, <1>8
    <2>2. \A k \in 1..Cardinality(I) : t[At(I, k)] = s[At(I, k)]
        BY <1>1, <1>3, <1>6
    <2>3. Only(t, S) = Only(s, S)
        BY <1>2, <2>1, <2>2
    <2> QED
        BY <1>8, <2>3 DEF t
<1>9. CASE x \in S
    <2>1. J = I \cup {n + 1} /\ n + 1 \notin I
        BY <1>1, <1>3, <1>9
    <2>2. Cardinality(J) = Cardinality(I) + 1
        <3>1. IsFiniteSet(1..n)
            BY <1>1, FS_Interval
        <3>2. IsFiniteSet(I)
            BY <1>3, <3>1, FS_Subset
        <3> QED
            BY <2>1, <3>2, FS_AddElement
    <2>3. \A i \in I : {j \in J : j <= i} = {j \in I : j <= i}
        <3>1. \A i \in I : i \in Nat /\ ~(n + 1 <= i)
            BY <1>1, <1>3
        <3> QED
            BY <2>1, <3>1
    <2>4. {j \in J : j <= n + 1} = J
        <3>1. \A j \in J : j <= n + 1
            BY <1>1, <1>3
        <3> QED
            BY <3>1
    <2>5. \A k \in 1..Cardinality(I) : At(J, k) = At(I, k)
        <3> SUFFICES ASSUME NEW k \in 1..Cardinality(I)
                     PROVE  At(J, k) = At(I, k)
            OBVIOUS
        <3>1. At(I, k) \in J /\ Cardinality({j \in J : j <= At(I, k)}) = k
            BY <1>6, <2>1, <2>3
        <3>2. At(J, k) \in J /\ Cardinality({j \in J : j <= At(J, k)}) = k
            BY <1>4, <1>7, <2>2
        <3> QED
            BY ONLY <1>5, <3>1, <3>2
    <2>6. At(J, Cardinality(I) + 1) = n + 1
        <3>1. n + 1 \in J /\ Cardinality({j \in J : j <= n + 1}) = Cardinality(I) + 1
            BY <2>1, <2>2, <2>4
        <3>2. /\ At(J, Cardinality(I) + 1) \in J
              /\ Cardinality({j \in J : j <= At(J, Cardinality(I) + 1)}) = Cardinality(I) + 1
            <4>1. Cardinality(I) + 1 \in 1..Cardinality(J)
                BY <1>4, <2>2
            <4> QED
                BY <1>7, <4>1
        <3> QED
            BY ONLY <1>5, <3>1, <3>2
    <2>7. /\ Len(Only(s, S)) = Cardinality(I)
          /\ Append(Only(s, S), x) = [k \in 1..(Cardinality(I) + 1) |->
                                         IF k <= Cardinality(I) THEN Only(s, S)[k] ELSE x]
        <3>1. Only(s, S) \in Seq(S)
            BY OnlyIs
        <3>2. Len(Only(s, S)) = Cardinality(I)
            BY <1>2, <1>4, <3>1
        <3> QED
            <4> DEFINE o == Only(s, S)
                       a == Append(Only(s, S), x)
            <4>1. /\ a \in Seq(S) /\ Len(a) = Cardinality(I) + 1
                  /\ \A k \in 1..Cardinality(I) : a[k] = o[k]
                  /\ a[Cardinality(I) + 1] = x
                BY <1>9, <3>1, <3>2, OneMore
            <4> HIDE DEF a, o
            <4>2. a = [k \in 1..(Cardinality(I) + 1) |-> a[k]]
                BY <4>1
            <4>3. \A k \in 1..(Cardinality(I) + 1) : a[k] = IF k <= Cardinality(I) THEN o[k] ELSE x
                BY <1>4, <4>1
            <4>4. a = [k \in 1..(Cardinality(I) + 1) |-> IF k <= Cardinality(I) THEN o[k] ELSE x]
                BY <4>2, <4>3
            <4> QED
                BY <3>2, <4>4 DEF a, o
    <2>8. \A k \in 1..(Cardinality(I) + 1) : t[At(J, k)] = IF k <= Cardinality(I) THEN Only(s, S)[k] ELSE x
        <3> SUFFICES ASSUME NEW k \in 1..(Cardinality(I) + 1)
                     PROVE  t[At(J, k)] = IF k <= Cardinality(I) THEN Only(s, S)[k] ELSE x
            OBVIOUS
        <3>1. CASE k <= Cardinality(I)
            <4>1. k \in 1..Cardinality(I)
                BY <1>4, <3>1
            <4>2. t[At(I, k)] = s[At(I, k)] /\ Only(s, S)[k] = s[At(I, k)]
                BY <1>1, <1>2, <1>3, <1>6, <4>1
            <4> QED
                BY <2>5, <3>1, <4>1, <4>2
        <3>2. CASE ~(k <= Cardinality(I))
            <4>1. k = Cardinality(I) + 1
                BY <1>4, <3>2
            <4> QED
                BY <1>1, <2>6, <3>2, <4>1
        <3> QED
            BY <3>1, <3>2
    <2>9. Only(t, S) = [k \in 1..(Cardinality(I) + 1) |-> t[At(J, k)]]
        BY <1>2, <2>2
    <2> QED
        BY <1>9, <2>7, <2>8, <2>9 DEF t
<1> QED
    BY <1>8, <1>9

LEMMA OnlyEmpty == \A S : Only(<<>>, S) = <<>>
<1> SUFFICES ASSUME NEW S
             PROVE  Only(<<>>, S) = <<>>
    OBVIOUS
<1>1. {i \in DOMAIN <<>> : <<>>[i] \in S} = {}
    OBVIOUS
<1>2. Cardinality({}) = 0
    BY FS_EmptySet
<1>3. Only(<<>>, S) = [n \in 1..0 |-> <<>>[CHOOSE i \in {} : Cardinality({j \in {} : j <= i}) = n]]
    BY <1>1, <1>2 DEF Only
<1>4. 1..0 = {}
    OBVIOUS
<1>5. Only(<<>>, S) \in Seq(S) /\ DOMAIN Only(<<>>, S) = {}
    BY <1>3, <1>4, OnlyIs, EmptySeq
<1> QED
    BY <1>5, EmptySeq

LEMMA ContainsMore ==
    ASSUME NEW T, NEW s \in Seq(T), NEW x \in T, NEW e
    PROVE  Contains(Append(s, x), e) <=> Contains(s, e) \/ x = e
<1>1. /\ Len(s) \in Nat /\ Len(Append(s, x)) = Len(s) + 1
      /\ \A i \in 1..Len(s) : Append(s, x)[i] = s[i]
      /\ Append(s, x)[Len(s) + 1] = x
    BY OneMore
<1>2. \A i : i \in 1..(Len(s) + 1) <=> i \in 1..Len(s) \/ i = Len(s) + 1
    BY <1>1
<1> QED
    BY <1>1, <1>2 DEF Contains

LEMMA PrefixIs ==
    ASSUME NEW T, NEW s \in Seq(T), NEW t \in Seq(T),
           Len(s) <= Len(t), \A i \in 1..Len(s) : s[i] = t[i]
    PROVE  IsPrefix(s, t)
<1>1. Len(s) \in Nat /\ Len(t) \in Nat
    OBVIOUS
<1>2. SubSeq(s, 1, Len(s)) = [i \in 1..Len(s) |-> s[i]]
    BY <1>1
<1>3. SubSeq(t, 1, Len(s)) = [i \in 1..Len(s) |-> t[i]]
    BY <1>1
<1> QED
    BY <1>2, <1>3 DEF IsPrefix

(* Two sequences of one length with the same entries are one. *)
LEMMA SameSeq ==
    ASSUME NEW T, NEW s \in Seq(T), NEW t \in Seq(T), Len(s) = Len(t), \A i \in 1..Len(s) : s[i] = t[i]
    PROVE  s = t
<1>1. s = [i \in 1..Len(s) |-> s[i]] /\ t = [i \in 1..Len(t) |-> t[i]]
    OBVIOUS
<1> QED
    BY <1>1

LEMMA HeadOf ==
    ASSUME NEW T, NEW s \in Seq(T), NEW n \in 0..Len(s)
    PROVE  /\ SubSeq(s, 1, n) \in Seq(T) /\ Len(SubSeq(s, 1, n)) = n
           /\ \A i \in 1..n : SubSeq(s, 1, n)[i] = s[i]
<1>1. 1 \in Int /\ n \in Int /\ \A i \in 1..n : s[i] \in T
    BY ElementOfSeq
<1>2. /\ SubSeq(s, 1, n) \in Seq(T)
      /\ Len(SubSeq(s, 1, n)) = IF 1 <= n THEN n - 1 + 1 ELSE 0
      /\ \A i \in 1..(n - 1 + 1) : SubSeq(s, 1, n)[i] = s[1 + i - 1]
    BY <1>1, SubSeqProperties
<1>3. n - 1 + 1 = n /\ n >= 0 /\ \A i \in 1..n : 1 + i - 1 = i
    OBVIOUS
<1> QED
    BY <1>2, <1>3

(* An entry more does not change the head of a list. *)
LEMMA HeadOfMore ==
    ASSUME NEW T, NEW s \in Seq(T), NEW x \in T, NEW n \in 0..Len(s)
    PROVE  SubSeq(Append(s, x), 1, n) = SubSeq(s, 1, n)
<1>1. /\ Append(s, x) \in Seq(T) /\ Len(s) \in Nat /\ Len(Append(s, x)) = Len(s) + 1
      /\ \A i \in 1..Len(s) : Append(s, x)[i] = s[i]
    BY OneMore
<1>2. n \in 0..Len(Append(s, x)) /\ \A i \in 1..n : i \in 1..Len(s)
    BY <1>1
<1>3. /\ SubSeq(s, 1, n) \in Seq(T) /\ Len(SubSeq(s, 1, n)) = n
      /\ \A i \in 1..n : SubSeq(s, 1, n)[i] = s[i]
    BY HeadOf
<1>4. /\ SubSeq(Append(s, x), 1, n) \in Seq(T) /\ Len(SubSeq(Append(s, x), 1, n)) = n
      /\ \A i \in 1..n : SubSeq(Append(s, x), 1, n)[i] = Append(s, x)[i]
    BY <1>1, <1>2, HeadOf
<1> QED
    BY <1>1, <1>2, <1>3, <1>4, SameSeq

-----------------------------------------------------------------------------
(* The functions without a loop *)

LEMMA RangeIsRight == ASSUME NEW q \in Ranges PROVE RangeRight(q)
<1> DEFINE last == IF q.to = Absent \/ q.to > q.size - 1 THEN q.size - 1 ELSE q.to
           wanted == {b \in 0..q.size - 1 : IF q.from = Absent THEN b >= q.size - q.to
                                            ELSE b >= q.from /\ (q.to = Absent \/ b <= q.to)}
           answer == ParseRange(q, q.size)
<1>1. /\ q.size \in Nat /\ q.size >= 1
      /\ q.from \in Nat \cup {-1} /\ q.to \in Nat \cup {-1} /\ Absent = -1
    BY RulesAssumption DEF Ranges, Absent
<1>2. CASE q.from = Absent /\ q.to = Absent
    <2>1. answer = <<"ignore">>
        BY <1>1, <1>2 DEF ParseRange
    <2> QED
        BY <1>2, <2>1 DEF RangeRight
<1>3. CASE q.from = Absent /\ q.to = 0
    <2>1. answer = <<"refuse">>
        BY <1>1, <1>3 DEF ParseRange
    <2>2. wanted = {}
        BY <1>1, <1>3
    <2> QED
        BY <2>1, <2>2 DEF RangeRight
<1>4. CASE q.from = Absent /\ q.to > 0
    <2> DEFINE first == IF q.to > q.size THEN 0 ELSE q.size - q.to
    <2>1. answer = <<"send", first, q.size - 1>>
        BY <1>1, <1>4 DEF ParseRange
    <2>2. first \in Nat /\ first <= q.size - 1 /\ (first = 0 \/ first = q.size - q.to)
        BY <1>1, <1>4
    <2>3. first..(q.size - 1) = wanted
        BY <1>1, <1>4, <2>2
    <2>4. wanted # {}
        BY <1>1, <2>2, <2>3
    <2> HIDE DEF first
    <2> QED
        BY <2>1, <2>3, <2>4 DEF RangeRight
<1>5. CASE q.from # Absent /\ (q.from >= q.size \/ q.from > last)
    <2>1. answer = <<"refuse">>
        BY <1>1, <1>5 DEF ParseRange
    <2>2. wanted = {}
        BY <1>1, <1>5
    <2> QED
        BY <2>1, <2>2 DEF RangeRight
<1>6. CASE q.from # Absent /\ ~(q.from >= q.size \/ q.from > last)
    <2>1. answer = <<"send", q.from, last>>
        BY <1>1, <1>6 DEF ParseRange
    <2>2. q.from \in Nat /\ last \in Nat /\ q.from <= last /\ last <= q.size - 1
        BY <1>1, <1>6
    <2>3. q.from..last = wanted
        BY <1>1, <1>6, <2>2
    <2>4. wanted # {}
        BY <2>2, <2>3
    <2> HIDE DEF last
    <2> QED
        BY <2>1, <2>3, <2>4 DEF RangeRight
<1> QED
    BY <1>1, <1>2, <1>3, <1>4, <1>5, <1>6

(* The order of keys, entry by entry. *)
LEMMA KeyLessIs ==
    ASSUME NEW k \in Nat \X Nat \X Nat \X Nat, NEW l \in Nat \X Nat \X Nat \X Nat
    PROVE  KeyLess(k, l) <=>
               \/ k[1] < l[1]
               \/ k[1] = l[1] /\ k[2] < l[2]
               \/ k[1] = l[1] /\ k[2] = l[2] /\ k[3] < l[3]
               \/ k[1] = l[1] /\ k[2] = l[2] /\ k[3] = l[3] /\ k[4] < l[4]
<1> DEFINE Differs(i) == k[i] < l[i] /\ \A j \in 1..(i - 1) : k[j] = l[j]
<1>1. Differs(1) <=> k[1] < l[1]
    OBVIOUS
<1>2. Differs(2) <=> k[1] = l[1] /\ k[2] < l[2]
    <2>1. 1..(2 - 1) = {1}
        OBVIOUS
    <2> QED
        BY <2>1
<1>3. Differs(3) <=> k[1] = l[1] /\ k[2] = l[2] /\ k[3] < l[3]
    <2>1. 1..(3 - 1) = {1, 2}
        OBVIOUS
    <2> QED
        BY <2>1
<1>4. Differs(4) <=> k[1] = l[1] /\ k[2] = l[2] /\ k[3] = l[3] /\ k[4] < l[4]
    <2>1. 1..(4 - 1) = {1, 2, 3}
        OBVIOUS
    <2> QED
        BY <2>1
<1>5. KeyLess(k, l) <=> \E i \in 1..4 : Differs(i)
    BY DEF KeyLess
<1>6. 1..4 = {1, 2, 3, 4}
    OBVIOUS
<1> HIDE DEF Differs
<1> QED
    BY <1>1, <1>2, <1>3, <1>4, <1>5, <1>6

LEMMA OrderIsRight == ASSUME NEW q \in Rankings PROVE OrderRight(q)
<1> DEFINE Key(s) == OrderKey(q.rows, s, q.starredFirst)
           Sooner(s, t) == KeyLess(Key(s), Key(t))
<1>1. ASSUME NEW s \in 1..MaxRows
      PROVE  /\ Key(s) \in Nat \X Nat \X Nat \X Nat
             /\ Key(s)[1] = IF ~q.starredFirst \/ q.rows[s].starred THEN 0 ELSE 1
             /\ Key(s)[2] = IF q.rows[s].rank = 0 THEN 1 ELSE 0
             /\ Key(s)[3] = q.rows[s].rank /\ Key(s)[4] = s
             /\ q.rows[s].rank \in Nat
    <2>1. q.rows[s].rank \in Nat /\ s \in Nat
        BY RulesAssumption DEF Rankings
    <2> QED
        BY <2>1 DEF OrderKey
<1> HIDE DEF Key
<1>2. \A s, t \in 1..MaxRows : Sooner(s, t) <=>
               \/ Key(s)[1] < Key(t)[1]
               \/ Key(s)[1] = Key(t)[1] /\ Key(s)[2] < Key(t)[2]
               \/ Key(s)[1] = Key(t)[1] /\ Key(s)[2] = Key(t)[2] /\ Key(s)[3] < Key(t)[3]
               \/ Key(s)[1] = Key(t)[1] /\ Key(s)[2] = Key(t)[2] /\ Key(s)[3] = Key(t)[3] /\ Key(s)[4] < Key(t)[4]
    BY <1>1, KeyLessIs
<1> HIDE DEF Sooner
<1>3. \A s \in 1..MaxRows : s \in Nat /\ Key(s)[1] \in Nat /\ Key(s)[2] \in Nat /\ Key(s)[3] \in Nat /\ Key(s)[4] = s
    BY <1>1, RulesAssumption
<1>4. \A s, t \in 1..MaxRows : s # t => (Sooner(s, t) <=> ~Sooner(t, s))
    BY ONLY <1>2, <1>3
<1>5. \A s, t, u \in 1..MaxRows : Sooner(s, t) /\ Sooner(t, u) => Sooner(s, u)
    BY ONLY <1>2, <1>3
<1>6. \A s, t \in 1..MaxRows : q.starredFirst /\ q.rows[s].starred /\ ~q.rows[t].starred => Sooner(s, t)
    BY <1>1, <1>2
<1>7. ASSUME NEW s \in 1..MaxRows, NEW t \in 1..MaxRows,
             ~q.starredFirst \/ q.rows[s].starred = q.rows[t].starred,
             q.rows[s].rank # 0, q.rows[t].rank = 0 \/ q.rows[s].rank < q.rows[t].rank
      PROVE  Sooner(s, t)
    <2>1. Key(s)[1] = Key(t)[1]
        BY <1>1, <1>7
    <2>2. Key(s)[2] < Key(t)[2] \/ (Key(s)[2] = Key(t)[2] /\ Key(s)[3] < Key(t)[3])
        BY <1>1, <1>7
    <2> QED
        BY <1>2, <2>1, <2>2
<1> QED
    BY <1>4, <1>5, <1>6, <1>7 DEF OrderRight, Sooner, Key

LEMMA ViewIsRight == ASSUME NEW q \in Views PROVE ViewRight(q)
<1> DEFINE alive == {j \in DOMAIN q.streams : StreamAlive(q.streams[j], q.now)}
           ends == {<<i, Ending(q.streams[i], q.cap)>> : i \in alive}
           view == ResultsView(q.streams, q.cap, q.now)
           times == {e[2] : e \in ends}
           Playable(t) == t < q.cap /\ \E i \in DOMAIN q.streams : StreamAlive(q.streams[i], t)
<1>1. /\ q.cap \in Nat /\ q.now \in Nat /\ q.now < q.cap /\ MaxSize \in Nat
      /\ \A i \in DOMAIN q.streams : q.streams[i].end \in Nat /\ q.streams[i].dead \in BOOLEAN
    <2>1. PICK m \in 0..MaxRows : q.streams \in [1..m -> [end : 0..MaxSize, dead : BOOLEAN]]
        BY DEF Views, SeqOf
    <2> QED
        BY <2>1, RulesAssumption DEF Views
<1>2. IsFiniteSet(DOMAIN q.streams)
    <2>1. PICK m \in 0..MaxRows : q.streams \in [1..m -> [end : 0..MaxSize, dead : BOOLEAN]]
        BY DEF Views, SeqOf
    <2>2. DOMAIN q.streams = 1..m /\ m \in Nat
        BY <2>1, RulesAssumption
    <2> QED
        BY <2>2, FS_Interval
<1>3. IsFiniteSet(ends)
    <2>1. IsFiniteSet(alive)
        BY <1>2, FS_Subset
    <2> DEFINE f == [i \in alive |-> <<i, Ending(q.streams[i], q.cap)>>]
    <2>2. f \in [alive -> ends] /\ \A e \in ends : \E i \in alive : f[i] = e
        OBVIOUS
    <2> HIDE DEF alive, ends, f
    <2> QED
        BY <2>1, <2>2, Counted
<1>4. \A i \in alive : /\ i \in DOMAIN q.streams /\ Ending(q.streams[i], q.cap) \in 0..q.cap
                       /\ Ending(q.streams[i], q.cap) > q.now
                       /\ q.streams[i].dead = FALSE
                       /\ q.streams[i].end # 0 => q.streams[i].end > q.now
    BY <1>1 DEF StreamAlive, Ending
<1>5. /\ view.alive = Cardinality(ends)
      /\ view.last = IF ends = {} THEN 0 ELSE CHOOSE t \in times : \A e \in ends : e[2] <= t
    BY DEF ResultsView
<1>6. /\ times \subseteq 0..q.cap
      /\ \A i \in alive : Ending(q.streams[i], q.cap) \in times
      /\ \A t \in times : \E i \in alive : t = Ending(q.streams[i], q.cap)
      /\ \A e \in ends : e[2] \in times
      /\ ends # {} => times # {}
    <2>1. \A i \in alive : <<i, Ending(q.streams[i], q.cap)>> \in ends
        OBVIOUS
    <2>2. \A e \in ends : \E i \in alive : e[2] = Ending(q.streams[i], q.cap)
        OBVIOUS
    <2> HIDE DEF alive, ends
    <2>3. \A t \in times : \E e \in ends : t = e[2]
        OBVIOUS
    <2>4. \A t \in times : \E i \in alive : t = Ending(q.streams[i], q.cap)
        BY <2>2, <2>3
    <2>5. \A e \in ends : e[2] \in times
        OBVIOUS
    <2>6. \A i \in alive : Ending(q.streams[i], q.cap) \in times
        <3> SUFFICES ASSUME NEW i \in alive
                     PROVE  Ending(q.streams[i], q.cap) \in times
            OBVIOUS
        <3>1. <<i, Ending(q.streams[i], q.cap)>> \in ends /\ <<i, Ending(q.streams[i], q.cap)>>[2] = Ending(q.streams[i], q.cap)
            BY <2>1
        <3> HIDE DEF times
        <3> QED
            BY <2>5, <3>1
    <2> HIDE DEF times
    <2>7. times \subseteq 0..q.cap
        BY <1>4, <2>4
    <2> QED
        BY <2>4, <2>5, <2>6, <2>7
<1>7. view.alive = 0 <=> ends = {}
    BY <1>3, <1>5, FS_EmptySet
<1>8. ASSUME ends # {}
      PROVE  /\ \E i \in alive : view.last = Ending(q.streams[i], q.cap)
             /\ \A i \in alive : Ending(q.streams[i], q.cap) <= view.last
             /\ view.last > q.now
    <2>1. times # {}
        BY <1>6, <1>8
    <2>2. PICK t \in times : \A u \in times : u <= t
        <3> HIDE DEF times
        <3> QED
            BY <1>1, <1>6, <2>1, GreatestBelow
    <2>4. view.last \in times /\ \A e \in ends : e[2] <= view.last
        BY <1>5, <1>6, <1>8, <2>2
    <2>5. \A i \in alive : \E e \in ends : e[2] = Ending(q.streams[i], q.cap)
        <3> SUFFICES ASSUME NEW i \in alive
                     PROVE  \E e \in ends : e[2] = Ending(q.streams[i], q.cap)
            OBVIOUS
        <3>1. <<i, Ending(q.streams[i], q.cap)>> \in ends
            OBVIOUS
        <3> QED
            BY <3>1
    <2> HIDE DEF times, ends, alive
    <2> QED
        BY <1>1, <1>4, <1>6, <2>4, <2>5
<1>9. ASSUME ends # {}, NEW t \in q.now..MaxSize
      PROVE  t < view.last <=> Playable(t)
    <2> HIDE DEF ends
    <2>1. t \in Nat /\ q.now <= t
        BY <1>1
    <2>2. PICK i \in alive : view.last = Ending(q.streams[i], q.cap)
        BY <1>8, <1>9
    <2>3. ASSUME t < view.last PROVE Playable(t)
        <3>1. StreamAlive(q.streams[i], t) /\ t < q.cap
            BY <1>1, <1>4, <2>1, <2>2, <2>3 DEF StreamAlive, Ending
        <3> QED
            BY <1>4, <3>1
    <2>4. ASSUME Playable(t) PROVE t < view.last
        <3>1. PICK j \in DOMAIN q.streams : StreamAlive(q.streams[j], t)
            BY <2>4
        <3>2. j \in alive /\ Ending(q.streams[j], q.cap) > t
            BY <1>1, <2>1, <2>4, <3>1 DEF StreamAlive, Ending
        <3>3. Ending(q.streams[j], q.cap) \in Nat /\ view.last \in Nat /\ Ending(q.streams[j], q.cap) <= view.last
            BY <1>1, <1>4, <1>8, <1>9, <2>2, <3>2
        <3> QED
            BY <2>1, <3>2, <3>3
    <2> QED
        BY <2>3, <2>4
<1>10. view.alive = 0 <=> view.last = 0
    <2> HIDE DEF ends, alive, view
    <2>1. CASE ends = {}
        BY <1>5, <1>7, <2>1
    <2>2. CASE ends # {}
        BY <1>1, <1>4, <1>7, <1>8, <2>2
    <2> QED
        BY <2>1, <2>2
<1>11. view.alive > 0 => ends # {}
    <2> HIDE DEF ends, view
    <2> QED
        BY <1>7
<1>12. view.alive > 0 => \A t \in q.now..MaxSize : t < view.last <=> Playable(t)
    BY <1>9, <1>11
<1> HIDE DEF view, Playable
<1>13. (view.alive = 0 <=> view.last = 0)
       /\ (view.alive > 0 => \A t \in q.now..MaxSize : t < view.last <=> Playable(t))
    BY <1>10, <1>12
<1> QED
    BY <1>13 DEF ViewRight, view, Playable

-----------------------------------------------------------------------------
(* The playlist of a growing video *)

NoEnd == Texts \ {"end"}
Rewritten == [out : Seq(Texts), pending : {<<>>, <<"inf">>}, on : BOOLEAN]

(* What rewrite_playlist has put out so far. *)
OutOK(exists, out) ==
    /\ out \in Seq(Texts)
    /\ \A i \in 1..Len(Only(out, Segs)) : Only(out, Segs)[i] \in exists
    /\ Only(Only(out, NoEnd), Segs) = Only(out, Segs)

(* It has sent all segments so far, or those before the first that is missing. *)
PlaylistInv(exists, lines, acc) ==
    LET all == Only(lines, Segs)
        sent == Only(acc.out, Segs)
    IN  /\ lines \in Seq(Texts)
        /\ acc \in Rewritten
        /\ OutOK(exists, acc.out)
        /\ acc.on => sent = all /\ (Contains(acc.out, "end") <=> Contains(lines, "end"))
        /\ ~acc.on => /\ Len(sent) < Len(all)
                      /\ \A i \in 1..Len(sent) : sent[i] = all[i]
                      /\ all[Len(sent) + 1] \notin exists

LEMMA OutGrows ==
    ASSUME NEW exists \in SUBSET Segs, NEW out, OutOK(exists, out),
           NEW line \in {"tag", "inf", "end"} \cup exists
    PROVE  /\ OutOK(exists, Append(out, line))
           /\ Only(Append(out, line), Segs) = IF line \in Segs THEN Append(Only(out, Segs), line) ELSE Only(out, Segs)
<1> DEFINE more == Append(out, line)
<1>1. out \in Seq(Texts) /\ line \in Texts /\ more \in Seq(Texts)
    BY OneMore DEF OutOK, Texts
<1>2. Only(more, Segs) = IF line \in Segs THEN Append(Only(out, Segs), line) ELSE Only(out, Segs)
    BY <1>1, OnlyAppend
<1>3. Only(more, NoEnd) = IF line \in NoEnd THEN Append(Only(out, NoEnd), line) ELSE Only(out, NoEnd)
    BY <1>1, OnlyAppend
<1>4. Only(out, NoEnd) \in Seq(NoEnd) /\ Only(out, Segs) \in Seq(Segs)
    BY <1>1, OnlyIs
<1>5. line \in NoEnd => Only(Append(Only(out, NoEnd), line), Segs) =
                            IF line \in Segs THEN Append(Only(Only(out, NoEnd), Segs), line)
                            ELSE Only(Only(out, NoEnd), Segs)
    BY <1>4, OnlyAppend
<1>6. line \in Segs => line \in NoEnd /\ line \in exists
    BY DEF NoEnd, Texts, Segs
<1>7. Only(Only(more, NoEnd), Segs) = Only(more, Segs)
    BY <1>2, <1>3, <1>5, <1>6 DEF OutOK
<1>8. \A i \in 1..Len(Only(more, Segs)) : Only(more, Segs)[i] \in exists
    <2>1. CASE line \in Segs
        <3>1. /\ Len(Append(Only(out, Segs), line)) = Len(Only(out, Segs)) + 1 /\ Len(Only(out, Segs)) \in Nat
              /\ \A i \in 1..Len(Only(out, Segs)) : Append(Only(out, Segs), line)[i] = Only(out, Segs)[i]
              /\ Append(Only(out, Segs), line)[Len(Only(out, Segs)) + 1] = line
            BY <1>4, <2>1, OneMore
        <3> QED
            BY <1>2, <1>6, <2>1, <3>1 DEF OutOK
    <2>2. CASE line \notin Segs
        BY <1>2, <2>2 DEF OutOK
    <2> QED
        BY <2>1, <2>2
<1> QED
    BY <1>1, <1>2, <1>7, <1>8 DEF OutOK

LEMMA LineKeeps ==
    ASSUME NEW exists \in SUBSET Segs, NEW lines, NEW acc, PlaylistInv(exists, lines, acc), NEW line \in Texts
    PROVE  PlaylistInv(exists, Append(lines, line), RewriteLine(acc, line, exists))
<1> DEFINE new == RewriteLine(acc, line, exists)
           more == Append(lines, line)
           all == Only(lines, Segs)
           sent == Only(acc.out, Segs)
<1>1. /\ lines \in Seq(Texts) /\ more \in Seq(Texts)
      /\ acc \in Rewritten /\ acc.on \in BOOLEAN /\ acc.pending \in {<<>>, <<"inf">>}
      /\ OutOK(exists, acc.out)
    BY OneMore DEF PlaylistInv, Rewritten
<1>2. /\ Only(more, Segs) = IF line \in Segs THEN Append(all, line) ELSE all
      /\ all \in Seq(Segs) /\ sent \in Seq(Segs)
    <2>1. acc.out \in Seq(Texts)
        BY <1>1 DEF OutOK
    <2> QED
        <3>1. all \in Seq(Segs) /\ sent \in Seq(Segs)
            BY <1>1, <2>1, OnlyIs
        <3>2. Only(more, Segs) = IF line \in Segs THEN Append(all, line) ELSE all
            BY <1>1, OnlyAppend
        <3> QED
            BY <3>1, <3>2
<1>3. Contains(more, "end") <=> Contains(lines, "end") \/ line = "end"
    BY <1>1, ContainsMore
<1>4. CASE ~acc.on
    <2>1. new = acc
        BY <1>4 DEF RewriteLine
    <2>2. Len(sent) < Len(all) /\ (\A i \in 1..Len(sent) : sent[i] = all[i]) /\ all[Len(sent) + 1] \notin exists
        BY <1>4 DEF PlaylistInv
    <2>3. Len(Only(more, Segs)) >= Len(all) /\ \A i \in 1..Len(all) : Only(more, Segs)[i] = all[i]
        <3>1. line \in Segs => Len(Append(all, line)) = Len(all) + 1 /\ \A i \in 1..Len(all) : Append(all, line)[i] = all[i]
            BY <1>2, OneMore
        <3> HIDE DEF all
        <3> QED
            BY <1>2, <3>1
    <2>4. /\ Len(sent) < Len(Only(more, Segs))
          /\ \A i \in 1..Len(sent) : sent[i] = Only(more, Segs)[i]
          /\ Only(more, Segs)[Len(sent) + 1] \notin exists
        <3>1. Len(sent) \in Nat /\ Len(all) \in Nat /\ Len(Only(more, Segs)) \in Nat
            <4>1. Only(more, Segs) \in Seq(Segs)
                BY <1>1, OnlyIs
            <4> QED
                BY <1>2, <4>1
        <3> HIDE DEF all, sent, more
        <3> QED
            BY <2>2, <2>3, <3>1
    <2> QED
        BY <1>1, <1>4, <2>1, <2>4 DEF PlaylistInv
<1>5. ASSUME acc.on
      PROVE  /\ sent = all
             /\ Contains(acc.out, "end") <=> Contains(lines, "end")
    BY <1>5 DEF PlaylistInv
<1>6. CASE acc.on /\ line = "inf"
    <2>1. new \in Rewritten /\ new.out = acc.out /\ new.on
        <3>1. line \notin exists \cup {"tag", "end"}
            BY <1>6 DEF Segs
        <3>2. new = [acc EXCEPT !.pending = <<"inf">>]
            BY <1>1, <1>6, <3>1 DEF RewriteLine
        <3> QED
            BY <1>1, <1>6, <3>2 DEF Rewritten
    <2>2. line \notin Segs
        BY <1>6 DEF Segs
    <2> QED
        BY <1>1, <1>2, <1>3, <1>5, <1>6, <2>1, <2>2 DEF PlaylistInv
<1>7. CASE acc.on /\ line \in {"tag", "end"}
    <2>1. new \in Rewritten /\ new.out = Append(acc.out, line) /\ new.on
        <3>1. Append(acc.out, line) \in Seq(Texts)
            BY <1>1, OneMore DEF Rewritten
        <3>2. new = [acc EXCEPT !.out = Append(acc.out, line)]
            <4>1. line \notin exists \cup {"inf"}
                BY <1>7 DEF Segs
            <4> QED
                BY <1>1, <1>7, <4>1 DEF RewriteLine
        <3> QED
            BY <1>1, <1>7, <3>1, <3>2 DEF Rewritten
    <2>2. line \notin Segs
        BY <1>7 DEF Segs
    <2>3. OutOK(exists, Append(acc.out, line)) /\ Only(Append(acc.out, line), Segs) = sent
        BY <1>1, <1>7, <2>2, OutGrows
    <2>4. Contains(Append(acc.out, line), "end") <=> Contains(acc.out, "end") \/ line = "end"
        BY <1>1, ContainsMore DEF OutOK
    <2> QED
        BY <1>1, <1>2, <1>3, <1>5, <1>7, <2>1, <2>2, <2>3, <2>4 DEF PlaylistInv
<1>8. CASE acc.on /\ line \in exists
    <2> DEFINE out == acc.out \o acc.pending
    <2>1. new = [acc EXCEPT !.out = Append(out, line), !.pending = <<>>]
        <3>1. line \notin {"inf", "tag", "end"}
            BY <1>8 DEF Segs
        <3> QED
            BY <1>1, <1>8, <3>1 DEF RewriteLine
    <2>2. out = acc.out \/ out = Append(acc.out, "inf")
        <3>1. acc.out \in Seq(Texts)
            BY <1>1 DEF OutOK
        <3>2. acc.out \o <<>> = acc.out
            BY <3>1
        <3>3. acc.out \o <<"inf">> = Append(acc.out, "inf")
            BY <3>1
        <3> QED
            BY <1>1, <3>2, <3>3
    <2>3. OutOK(exists, out) /\ Only(out, Segs) = sent /\ (Contains(out, "end") <=> Contains(acc.out, "end"))
        <3>1. "inf" \in {"tag", "inf", "end"} \cup exists /\ "inf" \notin Segs /\ "inf" \in Texts
            BY DEF Segs, Texts
        <3>2. OutOK(exists, Append(acc.out, "inf")) /\ Only(Append(acc.out, "inf"), Segs) = sent
            BY <1>1, <3>1, OutGrows
        <3>3. Contains(Append(acc.out, "inf"), "end") <=> Contains(acc.out, "end") \/ "inf" = "end"
            BY <1>1, <3>1, ContainsMore DEF OutOK
        <3> HIDE DEF out
        <3> QED
            BY <1>1, <2>2, <3>2, <3>3
    <2> HIDE DEF out
    <2>4. line \in Segs /\ line # "end"
        BY <1>8 DEF Segs
    <2>5. OutOK(exists, Append(out, line)) /\ Only(Append(out, line), Segs) = Append(sent, line)
        BY <1>8, <2>3, <2>4, OutGrows
    <2>6. Contains(Append(out, line), "end") <=> Contains(out, "end") \/ line = "end"
        BY <2>3, ContainsMore DEF OutOK
    <2>7. new \in Rewritten /\ new.out = Append(out, line) /\ new.on
        <3>1. Append(out, line) \in Seq(Texts)
            BY <2>5 DEF OutOK
        <3> HIDE DEF new
        <3> QED
            BY <1>1, <1>8, <2>1, <3>1 DEF Rewritten
    <2> QED
        BY <1>1, <1>2, <1>3, <1>5, <1>8, <2>7, <2>3, <2>4, <2>5, <2>6 DEF PlaylistInv
<1>9. CASE acc.on /\ line \notin {"inf", "tag", "end"} \cup exists
    <2>1. new \in Rewritten /\ new.out = acc.out /\ ~new.on
        BY <1>1, <1>9 DEF RewriteLine, Rewritten
    <2>2. line \in Segs
        BY <1>9 DEF Texts
    <2>3. /\ Len(Append(all, line)) = Len(all) + 1 /\ Len(all) \in Nat
          /\ \A i \in 1..Len(all) : Append(all, line)[i] = all[i]
          /\ Append(all, line)[Len(all) + 1] = line
        BY <1>2, <2>2, OneMore
    <2>4. /\ Len(sent) < Len(Only(more, Segs))
          /\ \A i \in 1..Len(sent) : sent[i] = Only(more, Segs)[i]
          /\ Only(more, Segs)[Len(sent) + 1] \notin exists
        BY <1>2, <1>5, <1>9, <2>2, <2>3
    <2> QED
        BY <1>1, <2>1, <2>4 DEF PlaylistInv
<1> QED
    BY <1>1, <1>4, <1>6, <1>7, <1>8, <1>9

LEMMA PlaylistStarts ==
    ASSUME NEW exists \in SUBSET Segs
    PROVE  PlaylistInv(exists, <<>>, [out |-> <<>>, pending |-> <<>>, on |-> TRUE])
<1> DEFINE start == [out |-> <<>>, pending |-> <<>>, on |-> TRUE]
<1>1. <<>> \in Seq(Texts) /\ Len(<<>>) = 0 /\ start \in Rewritten /\ start.out = <<>> /\ start.on
    BY DEF Rewritten
<1>2. Only(<<>>, Segs) = <<>> /\ Only(<<>>, NoEnd) = <<>>
    BY OnlyEmpty
<1> QED
    BY <1>1, <1>2 DEF PlaylistInv, OutOK

LEMMA PlaylistIsRight ==
    ASSUME NEW exists \in SUBSET Segs, NEW lines, NEW acc, PlaylistInv(exists, lines, acc)
    PROVE  PlaylistRight(exists, lines, acc)
<1> DEFINE out == RewritePlaylist(acc)
           all == Only(lines, Segs)
           sent == Only(out, Segs)
<1>1. lines \in Seq(Texts) /\ acc.out \in Seq(Texts) /\ acc.on \in BOOLEAN
    BY DEF PlaylistInv, Rewritten
<1>2. sent = Only(acc.out, Segs)
    BY DEF PlaylistInv, OutOK, RewritePlaylist, NoEnd
<1>3. all \in Seq(Segs) /\ sent \in Seq(Segs) /\ Only(acc.out, NoEnd) \in Seq(NoEnd)
    BY <1>1, <1>2, OnlyIs
<1>4. \A i \in 1..Len(sent) : sent[i] \in exists
    BY <1>2 DEF PlaylistInv, OutOK
<1>5. CASE acc.on
    <2>1. sent = all /\ out = acc.out /\ (Contains(out, "end") <=> Contains(lines, "end"))
        BY <1>2, <1>5 DEF PlaylistInv, RewritePlaylist
    <2>2. IsPrefix(sent, all) /\ ToSet(sent) \subseteq exists
        <3> HIDE DEF sent, all
        <3> QED
            BY <1>3, <1>4, <2>1, PrefixIs DEF ToSet
    <2> HIDE DEF out
    <2> QED
        BY <2>1, <2>2 DEF PlaylistRight, out
<1>6. CASE ~acc.on
    <2>1. /\ Len(sent) < Len(all) /\ (\A i \in 1..Len(sent) : sent[i] = all[i])
          /\ all[Len(sent) + 1] \notin exists
        BY <1>2, <1>6 DEF PlaylistInv
    <2>2. ~Contains(out, "end")
        <3>1. out = Only(acc.out, NoEnd)
            BY <1>6 DEF RewritePlaylist, NoEnd
        <3>2. \A i \in 1..Len(out) : out[i] \in NoEnd
            BY <1>3, <3>1, ElementOfSeq
        <3> HIDE DEF out
        <3> QED
            BY <3>2 DEF Contains, NoEnd
    <2>3. IsPrefix(sent, all) /\ ToSet(sent) \subseteq exists /\ sent # all
        <3> HIDE DEF sent, all
        <3>1. Len(sent) \in Nat /\ Len(all) \in Nat
            BY <1>3
        <3> QED
            BY <1>3, <1>4, <2>1, <3>1, PrefixIs DEF ToSet
    <2> HIDE DEF out
    <2> QED
        BY <2>1, <2>2, <2>3 DEF PlaylistRight, out
<1> QED
    BY <1>1, <1>5, <1>6

-----------------------------------------------------------------------------
(* Lists without repetition *)

NoTwice(s) == \A i, j \in 1..Len(s) : s[i] = s[j] => i = j

LEMMA MembersMore ==
    ASSUME NEW T, NEW s \in Seq(T), NEW x \in T
    PROVE  /\ ToSet(Append(s, x)) = ToSet(s) \cup {x}
           /\ \A e : Contains(s, e) <=> e \in ToSet(s)
           /\ NoTwice(s) /\ ~Contains(s, x) => NoTwice(Append(s, x))
<1> DEFINE t == Append(s, x)
<1>1. /\ Len(s) \in Nat /\ Len(t) = Len(s) + 1
      /\ DOMAIN s = 1..Len(s) /\ DOMAIN t = 1..(Len(s) + 1)
      /\ \A i \in 1..Len(s) : t[i] = s[i]
      /\ t[Len(s) + 1] = x
    BY OneMore
<1> HIDE DEF t
<1>2. \A i : i \in 1..(Len(s) + 1) <=> i \in 1..Len(s) \/ i = Len(s) + 1
    BY <1>1
<1>3. ToSet(t) = ToSet(s) \cup {x}
    <2>1. \A e : e \in ToSet(t) <=> \E i \in 1..(Len(s) + 1) : e = t[i]
        BY <1>1 DEF ToSet
    <2>2. \A e : e \in ToSet(s) <=> \E i \in 1..Len(s) : e = s[i]
        BY <1>1 DEF ToSet
    <2>3. \A e : e \in ToSet(t) <=> e \in ToSet(s) \/ e = x
        BY <1>1, <1>2, <2>1, <2>2
    <2> QED
        BY <2>3
<1>4. \A e : Contains(s, e) <=> e \in ToSet(s)
    BY <1>1 DEF Contains, ToSet
<1>5. ASSUME NoTwice(s), ~Contains(s, x) PROVE NoTwice(t)
    BY <1>1, <1>2, <1>5 DEF NoTwice, Contains
<1> QED
    BY <1>3, <1>4, <1>5 DEF t

LEMMA MembersCounted ==
    ASSUME NEW T, NEW s \in Seq(T)
    PROVE  /\ IsFiniteSet(ToSet(s)) /\ Cardinality(ToSet(s)) \in Nat
           /\ NoTwice(s) => Cardinality(ToSet(s)) = Len(s)
<1> DEFINE f == [i \in 1..Len(s) |-> s[i]]
<1>1. Len(s) \in Nat /\ DOMAIN s = 1..Len(s)
    OBVIOUS
<1>2. IsFiniteSet(1..Len(s)) /\ Cardinality(1..Len(s)) = Len(s)
    BY <1>1, FS_Interval
<1>3. f \in [1..Len(s) -> ToSet(s)] /\ \A e \in ToSet(s) : \E i \in 1..Len(s) : f[i] = e
    BY <1>1 DEF ToSet
<1>4. NoTwice(s) => \A i, j \in 1..Len(s) : f[i] = f[j] => i = j
    BY DEF NoTwice
<1> HIDE DEF f
<1>5. IsFiniteSet(ToSet(s)) /\ (NoTwice(s) => Cardinality(ToSet(s)) = Cardinality(1..Len(s)))
    BY <1>2, <1>3, <1>4, Counted
<1> QED
    BY <1>2, <1>5, FS_CardinalityType

-----------------------------------------------------------------------------
(* The numbers of a relayed playlist *)

(* Every address has one number and the answers so far name the right ones; once the table is    *)
(* full, somebody has asked for an address that is not in it.                                    *)
Numbered(urls, acc) ==
    /\ urls \in Seq(Nat)
    /\ acc \in [table : Seq(Nat), numbers : Seq(Nat), full : BOOLEAN]
    /\ Len(acc.table) \in 1..MaxTable
    /\ acc.table[1] = 0
    /\ NoTwice(acc.table)
    /\ Len(acc.numbers) <= Len(urls)
    /\ \A i \in 1..Len(acc.numbers) : acc.numbers[i] + 1 \in 1..Len(acc.table) /\ acc.table[acc.numbers[i] + 1] = urls[i]
    /\ ToSet(acc.table) \subseteq ToSet(urls) \cup {0}
    /\ ~acc.full => Len(acc.numbers) = Len(urls) /\ ToSet(urls) \subseteq ToSet(acc.table)
    /\ acc.full => Len(acc.table) = MaxTable /\ ~(ToSet(urls) \subseteq ToSet(acc.table))

LEMMA NumbersStart == Numbered(<<>>, [table |-> <<0>>, numbers |-> <<>>, full |-> FALSE])
<1> DEFINE start == [table |-> <<0>>, numbers |-> <<>>, full |-> FALSE]
<1>1. /\ <<0>> \in Seq(Nat) /\ Len(<<0>>) = 1 /\ <<0>>[1] = 0 /\ ToSet(<<0>>) = {0}
      /\ <<>> \in Seq(Nat) /\ Len(<<>>) = 0 /\ ToSet(<<>>) = {}
    BY DEF ToSet
<1>2. start \in [table : Seq(Nat), numbers : Seq(Nat), full : BOOLEAN]
    BY <1>1
<1>3. 1 \in 1..MaxTable
    BY RulesAssumption
<1> QED
    BY <1>1, <1>2, <1>3 DEF Numbered, NoTwice

LEMMA UrlKeeps ==
    ASSUME NEW urls, NEW acc, Numbered(urls, acc), NEW url \in Nat
    PROVE  Numbered(Append(urls, url), RegisterUrl(acc, url))
<1> DEFINE new == RegisterUrl(acc, url)
           more == Append(urls, url)
           Records == [table : Seq(Nat), numbers : Seq(Nat), full : BOOLEAN]
<1>1. /\ urls \in Seq(Nat) /\ acc \in Records
      /\ acc.table \in Seq(Nat) /\ acc.numbers \in Seq(Nat) /\ acc.full \in BOOLEAN
      /\ DOMAIN acc.table = 1..Len(acc.table)
      /\ Len(acc.table) \in Nat /\ Len(acc.numbers) \in Nat /\ Len(urls) \in Nat /\ MaxTable \in Nat
    BY RulesAssumption DEF Numbered
<1>2. /\ Len(acc.table) \in 1..MaxTable /\ acc.table[1] = 0 /\ NoTwice(acc.table)
      /\ Len(acc.numbers) <= Len(urls)
      /\ \A i \in 1..Len(acc.numbers) : acc.numbers[i] + 1 \in 1..Len(acc.table) /\ acc.table[acc.numbers[i] + 1] = urls[i]
      /\ ToSet(acc.table) \subseteq ToSet(urls) \cup {0}
      /\ ~acc.full => Len(acc.numbers) = Len(urls) /\ ToSet(urls) \subseteq ToSet(acc.table)
      /\ acc.full => Len(acc.table) = MaxTable /\ ~(ToSet(urls) \subseteq ToSet(acc.table))
    BY DEF Numbered
<1>3. /\ more \in Seq(Nat) /\ Len(more) = Len(urls) + 1
      /\ \A i \in 1..Len(urls) : more[i] = urls[i]
      /\ more[Len(urls) + 1] = url
      /\ ToSet(more) = ToSet(urls) \cup {url}
    BY <1>1, OneMore, MembersMore
<1>4. \A e : Contains(acc.table, e) <=> e \in ToSet(acc.table)
    BY <1>1, MembersMore
<1> HIDE DEF more
<1>5. CASE acc.full
    <2>1. new = acc
        BY <1>5 DEF RegisterUrl
    <2>2. \A i \in 1..Len(acc.numbers) : more[i] = urls[i]
        BY <1>1, <1>2, <1>3
    <2>3. Len(acc.numbers) <= Len(more)
        BY <1>1, <1>2, <1>3
    <2> HIDE DEF new
    <2>4. Numbered(more, new)
        BY <1>1, <1>2, <1>3, <1>5, <2>1, <2>2, <2>3 DEF Numbered
    <2> QED
        BY <2>4 DEF new, more
<1>6. CASE ~acc.full /\ Contains(acc.table, url)
    <2> DEFINE n == CHOOSE n \in DOMAIN acc.table : acc.table[n] = url
               numbers == Append(acc.numbers, n - 1)
    <2>1. new = [acc EXCEPT !.numbers = numbers]
        BY <1>6 DEF RegisterUrl
    <2>2. n \in 1..Len(acc.table) /\ acc.table[n] = url
        BY <1>1, <1>6 DEF Contains
    <2> HIDE DEF n
    <2>3. /\ numbers \in Seq(Nat) /\ Len(numbers) = Len(acc.numbers) + 1
          /\ \A i \in 1..Len(acc.numbers) : numbers[i] = acc.numbers[i]
          /\ numbers[Len(acc.numbers) + 1] = n - 1
        <3>1. n - 1 \in Nat
            BY <1>1, <2>2
        <3> QED
            BY <1>1, <3>1, OneMore
    <2> HIDE DEF numbers, new
    <2>4. new \in Records /\ new.table = acc.table /\ new.numbers = numbers /\ ~new.full
        BY <1>1, <1>6, <2>1, <2>3
    <2>5. \A i \in 1..Len(numbers) : numbers[i] + 1 \in 1..Len(acc.table) /\ acc.table[numbers[i] + 1] = more[i]
        <3>1. Len(acc.numbers) = Len(urls)
            BY <1>2, <1>6
        <3>2. \A i \in 1..Len(numbers) : i \in 1..Len(acc.numbers) \/ i = Len(acc.numbers) + 1
            BY <1>1, <2>3
        <3>3. (n - 1) + 1 = n
            BY <1>1, <2>2
        <3> QED
            BY <1>2, <1>3, <2>2, <2>3, <3>1, <3>2, <3>3
    <2>6. url \in ToSet(acc.table)
        BY <1>4, <1>6
    <2>7. Len(numbers) = Len(more)
        BY <1>2, <1>3, <1>6, <2>3
    <2>8. Numbered(more, new)
        BY <1>1, <1>2, <1>3, <1>6, <2>3, <2>4, <2>5, <2>6, <2>7 DEF Numbered
    <2> QED
        BY <2>8 DEF new, more
<1>7. CASE ~acc.full /\ ~Contains(acc.table, url) /\ Len(acc.table) >= MaxTable
    <2>1. new = [acc EXCEPT !.full = TRUE]
        BY <1>7 DEF RegisterUrl
    <2> HIDE DEF new
    <2>2. new \in Records /\ new.table = acc.table /\ new.numbers = acc.numbers /\ new.full
        BY <1>1, <2>1
    <2>3. Len(acc.table) = MaxTable /\ url \notin ToSet(acc.table)
        BY <1>1, <1>2, <1>4, <1>7
    <2>4. (\A i \in 1..Len(acc.numbers) : more[i] = urls[i]) /\ Len(acc.numbers) <= Len(more)
        BY <1>1, <1>2, <1>3
    <2>5. Numbered(more, new)
        BY <1>1, <1>2, <1>3, <2>2, <2>3, <2>4 DEF Numbered
    <2> QED
        BY <2>5 DEF new, more
<1>8. CASE ~acc.full /\ ~Contains(acc.table, url) /\ ~(Len(acc.table) >= MaxTable)
    <2> DEFINE numbers == Append(acc.numbers, Len(acc.table))
               table == Append(acc.table, url)
    <2>1. new = [acc EXCEPT !.numbers = numbers, !.table = table]
        BY <1>8 DEF RegisterUrl
    <2>2. /\ numbers \in Seq(Nat) /\ Len(numbers) = Len(acc.numbers) + 1
          /\ \A i \in 1..Len(acc.numbers) : numbers[i] = acc.numbers[i]
          /\ numbers[Len(acc.numbers) + 1] = Len(acc.table)
        BY <1>1, OneMore
    <2>3. /\ table \in Seq(Nat) /\ Len(table) = Len(acc.table) + 1
          /\ \A i \in 1..Len(acc.table) : table[i] = acc.table[i]
          /\ table[Len(acc.table) + 1] = url
          /\ ToSet(table) = ToSet(acc.table) \cup {url}
          /\ NoTwice(table)
        BY <1>1, <1>2, <1>8, OneMore, MembersMore
    <2> HIDE DEF numbers, table, new
    <2>4. new \in Records /\ new.table = table /\ new.numbers = numbers /\ ~new.full
        BY <1>1, <1>8, <2>1, <2>2, <2>3
    <2>5. \A i \in 1..Len(numbers) : numbers[i] + 1 \in 1..Len(table) /\ table[numbers[i] + 1] = more[i]
        <3>1. Len(acc.numbers) = Len(urls)
            BY <1>2, <1>8
        <3>2. \A i \in 1..Len(numbers) : i \in 1..Len(acc.numbers) \/ i = Len(acc.numbers) + 1
            BY <1>1, <2>2
        <3>3. \A n \in 1..Len(acc.table) : n \in 1..Len(table)
            BY <1>1, <2>3
        <3>4. Len(acc.table) + 1 \in 1..Len(table)
            BY <1>1, <2>3
        <3> QED
            BY <1>2, <1>3, <2>2, <2>3, <3>1, <3>2, <3>3, <3>4
    <2>6. Len(numbers) = Len(more) /\ Len(table) \in 1..MaxTable /\ table[1] = 0
        <3>1. Len(numbers) = Len(more)
            BY <1>2, <1>3, <1>8, <2>2
        <3>2. Len(table) \in 1..MaxTable
            BY <1>1, <1>2, <1>8, <2>3
        <3>3. table[1] = acc.table[1]
            BY <1>1, <1>2, <2>3
        <3> QED
            BY <1>2, <3>1, <3>2, <3>3
    <2>7. ToSet(table) \subseteq ToSet(more) \cup {0} /\ ToSet(more) \subseteq ToSet(table)
        BY <1>2, <1>3, <1>8, <2>3
    <2>8. /\ Len(new.table) \in 1..MaxTable /\ new.table[1] = 0 /\ NoTwice(new.table)
          /\ \A i \in 1..Len(new.numbers) : new.numbers[i] + 1 \in 1..Len(new.table) /\ new.table[new.numbers[i] + 1] = more[i]
          /\ Len(new.numbers) = Len(more)
          /\ ToSet(new.table) \subseteq ToSet(more) \cup {0} /\ ToSet(more) \subseteq ToSet(new.table)
        BY ONLY <2>3, <2>4, <2>5, <2>6, <2>7
    <2>9. Len(more) \in Nat /\ more \in Seq(Nat)
        BY <1>1, <1>3
    <2>10. Numbered(more, new)
        BY ONLY <2>4, <2>8, <2>9 DEF Numbered
    <2> QED
        BY <2>10 DEF new, more
<1> QED
    BY <1>5, <1>6, <1>7, <1>8

LEMMA NumberingIsRight ==
    ASSUME NEW urls, NEW acc, Numbered(urls, acc)
    PROVE  NumberingRight(urls, acc)
<1>1. /\ urls \in Seq(Nat) /\ acc.table \in Seq(Nat) /\ acc.numbers \in Seq(Nat) /\ MaxTable \in Nat
      /\ DOMAIN acc.numbers = 1..Len(acc.numbers)
    BY RulesAssumption DEF Numbered
<1>2. IsFiniteSet(ToSet(acc.table)) /\ Cardinality(ToSet(acc.table)) = Len(acc.table)
    BY <1>1, MembersCounted DEF Numbered
<1>3. IsFiniteSet(ToSet(urls) \cup {0}) /\ Cardinality(ToSet(urls) \cup {0}) \in Nat
    BY <1>1, MembersCounted, FS_AddElement, FS_CardinalityType
<1>4. 0 \in ToSet(acc.table)
    <2>1. 1 \in DOMAIN acc.table /\ acc.table[1] = 0
        BY <1>1 DEF Numbered
    <2> QED
        BY <2>1 DEF ToSet
<1>5. CASE acc.full
    <2>1. /\ ToSet(acc.table) \subseteq ToSet(urls) \cup {0} /\ ToSet(acc.table) # ToSet(urls) \cup {0}
          /\ Len(acc.table) = MaxTable
        BY <1>5 DEF Numbered
    <2>2. Cardinality(ToSet(acc.table)) <= Cardinality(ToSet(urls) \cup {0})
          /\ Cardinality(ToSet(acc.table)) # Cardinality(ToSet(urls) \cup {0})
        BY <1>3, <2>1, FS_Subset
    <2>3. Cardinality(ToSet(urls) \cup {0}) > MaxTable
        BY <1>1, <1>2, <1>3, <2>1, <2>2
    <2> QED
        BY <1>1, <1>2, <1>5, <2>3 DEF Numbered, NumberingRight
<1>6. CASE ~acc.full
    <2>1. ToSet(urls) \cup {0} = ToSet(acc.table)
        BY <1>4, <1>6 DEF Numbered
    <2>2. ~(Cardinality(ToSet(urls) \cup {0}) > MaxTable)
        <3>1. Len(acc.table) \in 1..MaxTable
            BY DEF Numbered
        <3>2. Cardinality(ToSet(urls) \cup {0}) = Len(acc.table)
            BY <1>2, <2>1
        <3> QED
            BY ONLY <1>1, <3>1, <3>2
    <2> QED
        BY <1>1, <1>2, <1>6, <2>2 DEF Numbered, NumberingRight
<1> QED
    BY <1>5, <1>6

-----------------------------------------------------------------------------
(* The subtitles of a task *)

Wanted(allow, raw) == {d \in ToSet(raw) : d.url # 0 /\ (allow = {} \/ d.lang \in allow)}

PickedInv(allow, raw, picked) ==
    /\ raw \in Seq(Tracks) /\ picked \in Seq(Tracks)
    /\ NoTwice(picked)
    /\ ToSet(picked) = Wanted(allow, raw)

LEMMA PickStarts == \A allow : PickedInv(allow, <<>>, <<>>)
BY DEF PickedInv, NoTwice, ToSet, Wanted

LEMMA PickKeeps ==
    ASSUME NEW allow, NEW raw, NEW picked, PickedInv(allow, raw, picked), NEW d \in Tracks
    PROVE  PickedInv(allow, Append(raw, d), PickSubtitle(picked, d, allow))
<1> DEFINE new == PickSubtitle(picked, d, allow)
           more == Append(raw, d)
           Wants == d.url # 0 /\ (allow = {} \/ d.lang \in allow)
<1>1. raw \in Seq(Tracks) /\ picked \in Seq(Tracks) /\ NoTwice(picked) /\ ToSet(picked) = Wanted(allow, raw)
    BY DEF PickedInv
<1>2. more \in Seq(Tracks) /\ ToSet(more) = ToSet(raw) \cup {d}
    BY <1>1, OneMore, MembersMore
<1>3. Contains(picked, d) <=> d \in ToSet(picked)
    BY <1>1, MembersMore
<1>4. Wanted(allow, more) = IF Wants THEN ToSet(picked) \cup {d} ELSE ToSet(picked)
    BY <1>1, <1>2 DEF Wanted
<1>5. CASE Wants /\ ~Contains(picked, d)
    <2>1. new = Append(picked, d)
        BY <1>5 DEF PickSubtitle
    <2>2. new \in Seq(Tracks) /\ ToSet(new) = ToSet(picked) \cup {d} /\ NoTwice(new)
        BY <1>1, <1>5, <2>1, OneMore, MembersMore
    <2> QED
        BY <1>2, <1>4, <1>5, <2>2 DEF PickedInv
<1>6. CASE ~(Wants /\ ~Contains(picked, d))
    <2>1. new = picked
        BY <1>6 DEF PickSubtitle
    <2>2. Wanted(allow, more) = ToSet(picked)
        BY <1>3, <1>4, <1>6
    <2> QED
        BY <1>1, <1>2, <2>1, <2>2 DEF PickedInv
<1> QED
    BY <1>5, <1>6

LEMMA PlanIsRight ==
    ASSUME NEW allow, NEW raw, NEW picked, PickedInv(allow, raw, picked)
    PROVE  PlanRight(allow, raw, picked)
<1> DEFINE K == IF Len(picked) > MaxFiles THEN MaxFiles ELSE Len(picked)
           kept == SubSeq(picked, 1, K)
           Same(i) == {j \in 1..i : kept[j].lang = kept[i].lang}
           Cand(i) == [n |-> i, lang |-> kept[i].lang, url |-> kept[i].url,
                       label |-> <<kept[i].lang, Cardinality(Same(i))>>]
           plan == PlanSubtitles(picked)
           planned == {[url |-> c.url, lang |-> c.lang] : c \in ToSet(plan.cands)}
           labels == {c.label : c \in ToSet(plan.cands)}
<1>1. /\ picked \in Seq(Tracks) /\ Len(picked) \in Nat /\ MaxFiles \in Nat /\ NoTwice(picked)
      /\ DOMAIN picked = 1..Len(picked)
      /\ K \in 0..Len(picked) /\ (Len(picked) - K > 0 => K = MaxFiles)
      /\ ToSet(picked) = Wanted(allow, raw)
    BY RulesAssumption DEF PickedInv
<1>2. \A i \in 1..K : i \in 1..Len(picked) /\ picked[i] \in Tracks
    BY <1>1, ElementOfSeq
<1> HIDE DEF K
<1>3. Len(kept) = K /\ DOMAIN kept = 1..K /\ \A i \in 1..K : kept[i] = picked[i]
    BY <1>1, <1>2
<1>4. plan = [cands |-> [i \in DOMAIN kept |-> Cand(i)], over |-> Len(picked) - Len(kept)]
    BY DEF PlanSubtitles, K
<1> HIDE DEF kept
<1>5. /\ DOMAIN plan.cands = 1..K /\ Len(plan.cands) = K /\ plan.over = Len(picked) - K
      /\ \A i \in 1..K : plan.cands[i] = Cand(i)
    BY <1>1, <1>3, <1>4
<1> HIDE DEF plan
<1>6. \A c : c \in ToSet(plan.cands) <=> \E i \in 1..K : c = Cand(i)
    BY <1>5 DEF ToSet
<1>7. \A i \in 1..K : [url |-> Cand(i).url, lang |-> Cand(i).lang] = picked[i]
    BY <1>2, <1>3 DEF Tracks
<1> HIDE DEF Cand
<1>8. \A d : d \in planned <=> \E i \in 1..K : d = picked[i]
    <2>1. \A i \in 1..K : picked[i] \in planned
        <3> SUFFICES ASSUME NEW i \in 1..K PROVE picked[i] \in planned
            OBVIOUS
        <3>1. Cand(i) \in ToSet(plan.cands)
            BY <1>6
        <3> QED
            BY <1>7, <3>1
    <2>2. \A d \in planned : \E i \in 1..K : d = picked[i]
        BY <1>6, <1>7
    <2> HIDE DEF planned
    <2> QED
        BY <2>1, <2>2
<1>9. IsFiniteSet(1..K) /\ Cardinality(1..K) = K
    BY <1>1, FS_Interval
<1>10. planned \subseteq Wanted(allow, raw)
    <2>1. \A i \in 1..K : picked[i] \in ToSet(picked)
        BY <1>1, <1>2 DEF ToSet
    <2> HIDE DEF planned
    <2> QED
        BY <1>1, <1>8, <2>1
<1>11. Cardinality(planned) = K
    <2> DEFINE f == [i \in 1..K |-> picked[i]]
    <2>1. f \in [1..K -> planned] /\ (\A d \in planned : \E i \in 1..K : f[i] = d)
        <3> HIDE DEF planned
        <3> QED
            BY <1>8
    <2>2. \A i, j \in 1..K : f[i] = f[j] => i = j
        BY <1>1, <1>2 DEF NoTwice
    <2> HIDE DEF f, planned
    <2> QED
        BY <1>9, <2>1, <2>2, Counted
<1>12. Cardinality(Wanted(allow, raw)) = Len(picked)
    BY <1>1, MembersCounted
<1>13. ASSUME NEW i \in 1..K, NEW j \in 1..K, i < j
       PROVE  Cand(i).label # Cand(j).label
    <2> SUFFICES ASSUME kept[i].lang = kept[j].lang, Cardinality(Same(i)) = Cardinality(Same(j))
                 PROVE  FALSE
        BY DEF Cand
    <2>1. i \in Nat /\ j \in Nat /\ \A x \in 1..i : x \in 1..j
        BY <1>1, <1>13
    <2>2. Same(i) \in SUBSET Same(j) /\ j \in Same(j) /\ j \notin Same(i)
        BY <1>13, <2>1
    <2>3. IsFiniteSet(Same(j))
        <3>1. IsFiniteSet(1..j) /\ Same(j) \in SUBSET (1..j)
            BY <2>1, FS_Interval
        <3> HIDE DEF Same
        <3> QED
            BY <3>1, FS_Subset
    <2> HIDE DEF Same
    <2> QED
        BY <2>2, <2>3, FS_Subset
<1>14. Cardinality(labels) = K
    <2> DEFINE f == [i \in 1..K |-> Cand(i).label]
    <2>1. f \in [1..K -> labels] /\ (\A l \in labels : \E i \in 1..K : f[i] = l)
        <3>1. \A i \in 1..K : Cand(i).label \in labels
            <4> SUFFICES ASSUME NEW i \in 1..K PROVE Cand(i).label \in labels
                OBVIOUS
            <4>1. Cand(i) \in ToSet(plan.cands)
                BY <1>6
            <4> QED
                BY <4>1
        <3>2. \A l \in labels : \E i \in 1..K : l = Cand(i).label
            BY <1>6
        <3> HIDE DEF labels
        <3> QED
            BY <3>1, <3>2
    <2>2. \A i, j \in 1..K : f[i] = f[j] => i = j
        <3>1. \A i, j \in 1..K : i < j \/ j < i \/ i = j
            BY <1>1
        <3> QED
            BY <1>13, <3>1
    <2> HIDE DEF f, labels
    <2> QED
        BY <1>9, <2>1, <2>2, Counted
<1>15. \A i \in DOMAIN plan.cands : plan.cands[i].n = i
    <2>1. \A i \in 1..K : Cand(i).n = i
        BY DEF Cand
    <2> QED
        BY <1>5, <2>1
<1>16. Len(plan.cands) + plan.over = Cardinality(Wanted(allow, raw))
    BY <1>1, <1>5, <1>12
<1>17. plan.over > 0 => Len(plan.cands) = MaxFiles
    BY <1>1, <1>5
<1>18. /\ planned \subseteq Wanted(allow, raw)
       /\ Cardinality(planned) = Len(plan.cands)
       /\ Cardinality(labels) = Len(plan.cands)
    BY <1>5, <1>10, <1>11, <1>14
<1> QED
    BY <1>15, <1>16, <1>17, <1>18 DEF PlanRight, plan, Wanted

-----------------------------------------------------------------------------
(* The rate limit *)

(* A set of positions that has all positions before each of its own. *)
LEMMA HeadIs ==
    ASSUME NEW N \in Nat, NEW P \in SUBSET (1..N), \A i \in P : \A j \in 1..i : j \in P
    PROVE  Cardinality(P) \in 0..N /\ P = 1..Cardinality(P)
<1>1. CASE P = {}
    <2>1. Cardinality(P) = 0
        BY <1>1, FS_EmptySet
    <2>2. 1..0 = {}
        OBVIOUS
    <2> QED
        BY <1>1, <2>1, <2>2
<1>2. CASE P # {}
    <2>1. P \in SUBSET (0..N)
        OBVIOUS
    <2>2. PICK m \in P : \A i \in P : i <= m
        BY <1>2, <2>1, GreatestBelow
    <2>3. \A i \in P : i \in 1..m
        BY <2>2
    <2>4. P = 1..m
        BY <2>2, <2>3
    <2>5. m \in 1..N
        BY <2>2
    <2>6. Cardinality(1..m) = m
        BY <2>5, FS_Interval
    <2>7. Cardinality(P) = m
        BY <2>4, <2>6
    <2> QED
        BY <2>4, <2>5, <2>7
<1> QED
    BY <1>1, <1>2

Sorted(s) == \A i, j \in 1..Len(s) : i <= j => s[i] <= s[j]

LEMMA PoppedAre ==
    ASSUME NEW hits \in Seq(Nat), Sorted(hits), NEW now \in Nat
    PROVE  LET c == Cardinality(Outdated(hits, now))
           IN  /\ c \in 0..Len(hits)
               /\ \A i \in 1..c : now - hits[i] > RateMinute
               /\ \A i \in (c + 1)..Len(hits) : now - hits[i] <= RateMinute
<1> DEFINE P == Outdated(hits, now)
           c == Cardinality(P)
<1>1. /\ Len(hits) \in Nat /\ DOMAIN hits = 1..Len(hits) /\ RateMinute \in Nat
      /\ \A i \in 1..Len(hits) : hits[i] \in Nat
    BY RulesAssumption, ElementOfSeq
<1>2. \A i : i \in P <=> i \in 1..Len(hits) /\ \A j \in 1..i : now - hits[j] > RateMinute
    BY <1>1 DEF Outdated
<1> HIDE DEF P
<1>3. P \in SUBSET (1..Len(hits)) /\ \A i \in P : \A j \in 1..i : j \in P
    <2>1. ASSUME NEW i \in P, NEW j \in 1..i
          PROVE  j \in P
        <3>1. i \in 1..Len(hits) /\ j \in 1..Len(hits) /\ \A x \in 1..j : x \in 1..i
            BY <1>1, <1>2, <2>1
        <3> QED
            BY <1>2, <2>1, <3>1
    <2> QED
        BY <1>2, <2>1
<1>4. c \in 0..Len(hits) /\ P = 1..c
    BY <1>1, <1>3, HeadIs
<1> HIDE DEF c
<1>5. ASSUME NEW i \in 1..c PROVE now - hits[i] > RateMinute
    <2>1. i \in P /\ i \in 1..i
        BY <1>1, <1>4
    <2> QED
        BY <1>2, <2>1
<1>6. ASSUME NEW i \in (c + 1)..Len(hits) PROVE now - hits[i] <= RateMinute
    <2>1. c + 1 \in 1..Len(hits) /\ c + 1 <= i /\ i \in 1..Len(hits) /\ c + 1 \notin P
        BY <1>1, <1>4
    <2>2. PICK j \in 1..(c + 1) : ~(now - hits[j] > RateMinute)
        BY <1>2, <2>1
    <2>3. j \in 1..Len(hits) /\ hits[j] <= hits[i]
        BY <1>1, <1>4, <2>1 DEF Sorted
    <2> QED
        BY <1>1, <2>1, <2>2, <2>3
<1> QED
    BY <1>4, <1>5, <1>6 DEF c, P

(* Accepted requests of the minute that ends with t. *)
InMinute(accepted, t) == {i \in DOMAIN accepted : accepted[i] \in (t - RateMinute)..t}

LEMMA MinuteMore ==
    ASSUME NEW accepted \in Seq(Nat), NEW x \in Nat, NEW t \in Nat
    PROVE  /\ Cardinality(InMinute(accepted, t)) \in Nat
           /\ Cardinality(InMinute(Append(accepted, x), t)) =
                  Cardinality(InMinute(accepted, t)) + (IF x \in (t - RateMinute)..t THEN 1 ELSE 0)
<1> DEFINE n == Len(accepted)
           more == Append(accepted, x)
           I == InMinute(accepted, t)
           J == InMinute(more, t)
<1>1. /\ n \in Nat /\ DOMAIN accepted = 1..n /\ DOMAIN more = 1..(n + 1)
      /\ \A i \in 1..n : more[i] = accepted[i]
      /\ more[n + 1] = x
    BY OneMore
<1>2. IsFiniteSet(I) /\ Cardinality(I) \in Nat /\ n + 1 \notin I
    <2>1. I \in SUBSET (1..n) /\ n + 1 \notin 1..n
        BY <1>1 DEF InMinute
    <2>2. IsFiniteSet(1..n)
        BY <1>1, FS_Interval
    <2> HIDE DEF I, n
    <2> QED
        BY <2>1, <2>2, FS_Subset, FS_CardinalityType
<1>3. J = IF x \in (t - RateMinute)..t THEN I \cup {n + 1} ELSE I
    <2> HIDE DEF n, more
    <2>1. \A i : i \in 1..(n + 1) <=> i \in 1..n \/ i = n + 1
        BY <1>1
    <2> QED
        BY <1>1, <2>1 DEF InMinute
<1> HIDE DEF I, J, n
<1>4. Cardinality(I \cup {n + 1}) = Cardinality(I) + 1
    BY <1>2, FS_AddElement
<1>5. Cardinality(J) = Cardinality(I) + (IF x \in (t - RateMinute)..t THEN 1 ELSE 0)
    BY <1>2, <1>3, <1>4
<1> QED
    BY <1>2, <1>5 DEF I, J

(* The deque holds the accepted requests but for those that were too old at some time. *)
Rated == [now : Nat, hits : Seq(Nat), accepted : Seq(Nat), refused : SUBSET Nat]

Held(hits, accepted, now) ==
    /\ Len(hits) <= Len(accepted)
    /\ \A i \in 1..Len(hits) : hits[i] = accepted[Len(accepted) - Len(hits) + i]
    /\ \A i \in 1..(Len(accepted) - Len(hits)) : now - accepted[i] > RateMinute

RateInv(limit, acc) ==
    /\ acc \in Rated
    /\ Sorted(acc.accepted)
    /\ \A i \in 1..Len(acc.accepted) : acc.accepted[i] <= acc.now
    /\ Held(acc.hits, acc.accepted, acc.now)
    /\ Len(acc.hits) <= limit
    /\ \A i \in 1..Len(acc.accepted) : Cardinality(InMinute(acc.accepted, acc.accepted[i])) <= limit
    /\ \A t \in acc.refused : t <= acc.now /\ Cardinality(InMinute(acc.accepted, t)) = limit

LEMMA RateStarts ==
    ASSUME NEW limit \in Nat
    PROVE  RateInv(limit, [now |-> 0, hits |-> <<>>, accepted |-> <<>>, refused |-> {}])
<1> DEFINE start == [now |-> 0, hits |-> <<>>, accepted |-> <<>>, refused |-> {}]
<1>1. <<>> \in Seq(Nat) /\ Len(<<>>) = 0 /\ start \in Rated
    BY DEF Rated
<1>2. 1..0 = {} /\ 1..(0 - 0) = {}
    OBVIOUS
<1> QED
    BY <1>1, <1>2 DEF RateInv, Sorted, Held

(* What is left in the deque at a time is what was accepted in the minute before. *)
LEMMA RecentAre ==
    ASSUME NEW hits \in Seq(Nat), NEW accepted \in Seq(Nat), NEW now \in Nat, NEW later \in Nat, now <= later,
           Sorted(accepted), \A i \in 1..Len(accepted) : accepted[i] <= now, Held(hits, accepted, now)
    PROVE  LET recent == SubSeq(hits, Cardinality(Outdated(hits, later)) + 1, Len(hits))
           IN  /\ recent \in Seq(Nat) /\ Len(recent) <= Len(hits)
               /\ Held(recent, accepted, later)
               /\ Cardinality(InMinute(accepted, later)) = Len(recent)
<1> DEFINE n == Len(accepted)
           h == Len(hits)
           k == n - h
           c == Cardinality(Outdated(hits, later))
           recent == SubSeq(hits, c + 1, h)
<1>1. /\ n \in Nat /\ h \in Nat /\ k \in Nat /\ h <= n /\ RateMinute \in Nat
      /\ DOMAIN accepted = 1..n
      /\ \A i \in 1..n : accepted[i] \in Nat /\ accepted[i] <= now
      /\ \A i \in 1..h : hits[i] \in Nat /\ hits[i] = accepted[k + i]
      /\ \A i \in 1..k : now - accepted[i] > RateMinute
    <2>1. n \in Nat /\ h \in Nat /\ DOMAIN accepted = 1..n /\ RateMinute \in Nat
        BY RulesAssumption
    <2>2. \A i \in 1..n : accepted[i] \in Nat
        BY ElementOfSeq
    <2>3. \A i \in 1..h : hits[i] \in Nat
        BY ElementOfSeq
    <2>4. h <= n /\ (\A i \in 1..h : hits[i] = accepted[k + i]) /\ \A i \in 1..k : now - accepted[i] > RateMinute
        BY DEF Held
    <2> HIDE DEF n, h
    <2>5. k \in Nat
        BY <2>1, <2>4
    <2> HIDE DEF k
    <2> QED
        BY <2>1, <2>2, <2>3, <2>4, <2>5 DEF n
<1>2. Sorted(hits)
    <2> SUFFICES ASSUME NEW i \in 1..h, NEW j \in 1..h, i <= j
                 PROVE  hits[i] <= hits[j]
        BY DEF Sorted
    <2>1. k + i \in 1..n /\ k + j \in 1..n /\ k + i <= k + j
        BY <1>1
    <2>2. accepted[k + i] <= accepted[k + j]
        BY <2>1 DEF Sorted
    <2> QED
        BY <1>1, <2>2
<1>3. /\ c \in 0..h
      /\ \A i \in 1..c : later - hits[i] > RateMinute
      /\ \A i \in (c + 1)..h : later - hits[i] <= RateMinute
    BY <1>2, PoppedAre
<1> HIDE DEF c
<1>4. /\ recent \in Seq(Nat) /\ Len(recent) = h - c
      /\ \A i \in 1..(h - c) : recent[i] = hits[c + i]
    <2>1. \A i \in (c + 1)..h : hits[i] \in Nat
        BY <1>1, <1>3
    <2>2. c + 1 \in Int /\ h \in Int
        BY <1>1, <1>3
    <2> HIDE DEF h
    <2>3. /\ recent \in Seq(Nat)
          /\ Len(recent) = IF c + 1 <= h THEN h - (c + 1) + 1 ELSE 0
          /\ \A i \in 1..(h - (c + 1) + 1) : recent[i] = hits[(c + 1) + i - 1]
        BY <2>1, <2>2, SubSeqProperties
    <2>4. h - (c + 1) + 1 = h - c /\ Len(recent) = h - c
        BY <1>1, <1>3, <2>3
    <2>5. \A i \in 1..(h - c) : (c + 1) + i - 1 = c + i
        BY <1>1, <1>3
    <2> QED
        BY <2>3, <2>4, <2>5
<1> HIDE DEF recent
<1>5. Held(recent, accepted, later)
    <2>1. n - Len(recent) = k + c /\ Len(recent) <= n
        BY <1>1, <1>3, <1>4
    <2>2. ASSUME NEW i \in 1..Len(recent)
          PROVE  recent[i] = accepted[n - Len(recent) + i]
        <3>1. c + i \in 1..h /\ recent[i] = hits[c + i] /\ k + (c + i) = n - Len(recent) + i
            BY <1>1, <1>3, <1>4, <2>1
        <3> QED
            BY <1>1, <3>1
    <2>3. ASSUME NEW i \in 1..(n - Len(recent))
          PROVE  later - accepted[i] > RateMinute
        <3>1. i \in Nat /\ i \in 1..n /\ accepted[i] \in Nat
            BY <1>1, <1>3, <2>1
        <3>2. CASE i <= k
            <4>1. now - accepted[i] > RateMinute
                BY <1>1, <3>1, <3>2
            <4> QED
                BY <1>1, <3>1, <4>1
        <3>3. CASE i > k
            <4>1. i - k \in 1..c /\ i - k \in 1..h /\ k + (i - k) = i
                <5>1. i <= k + c
                    BY <2>1, <3>1
                <5> HIDE DEF k, h
                <5> QED
                    BY <1>1, <1>3, <3>1, <3>3, <5>1
            <4>2. hits[i - k] = accepted[i]
                BY <1>1, <4>1
            <4> QED
                BY <1>3, <4>1, <4>2
        <3> QED
            BY <1>1, <3>1, <3>2, <3>3
    <2> QED
        BY <2>1, <2>2, <2>3 DEF Held
<1>6. InMinute(accepted, later) = (k + c + 1)..n
    <2>1. ASSUME NEW i \in 1..n
          PROVE  accepted[i] \in (later - RateMinute)..later <=> i \in (k + c + 1)..n
        <3>1. accepted[i] \in Nat /\ accepted[i] <= later
            BY <1>1
        <3>2. CASE i \in (k + c + 1)..n
            <4>1. i - k \in (c + 1)..h /\ i - k \in 1..h /\ k + (i - k) = i
                BY <1>1, <1>3, <3>2
            <4>2. hits[i - k] = accepted[i]
                BY <1>1, <4>1
            <4>3. later - accepted[i] <= RateMinute
                BY <1>3, <4>1, <4>2
            <4> QED
                BY <1>1, <3>1, <3>2, <4>3
        <3>3. CASE i \notin (k + c + 1)..n
            <4>1. i \in 1..(n - Len(recent))
                BY <1>1, <1>3, <1>4, <3>3
            <4>2. later - accepted[i] > RateMinute
                BY <1>5, <4>1 DEF Held
            <4> QED
                BY <1>1, <3>1, <3>3, <4>2
        <3> QED
            BY <3>2, <3>3
    <2>2. \A i \in (k + c + 1)..n : i \in 1..n
        BY <1>1, <1>3
    <2>3. \A i : i \in InMinute(accepted, later) <=> i \in 1..n /\ accepted[i] \in (later - RateMinute)..later
        BY <1>1 DEF InMinute
    <2> HIDE DEF n, k
    <2> QED
        BY <2>1, <2>2, <2>3
<1>7. Cardinality((k + c + 1)..n) = Len(recent)
    <2>1. k + c + 1 \in Int /\ n \in Int
        BY <1>1, <1>3
    <2>2. Cardinality((k + c + 1)..n) = IF k + c + 1 > n THEN 0 ELSE n - (k + c + 1) + 1
        BY <2>1, FS_Interval
    <2> QED
        BY <1>1, <1>3, <1>4, <2>2
<1>8. Len(recent) <= Len(hits)
    BY <1>1, <1>3, <1>4
<1> QED
    BY <1>4, <1>5, <1>6, <1>7, <1>8 DEF recent, c

LEMMA RequestKeeps ==
    ASSUME NEW limit \in Nat, NEW acc, RateInv(limit, acc), NEW pause \in Nat
    PROVE  RateInv(limit, CheckRate(acc, pause, limit))
<1> DEFINE later == acc.now + pause
           recent == SubSeq(acc.hits, Cardinality(Outdated(acc.hits, later)) + 1, Len(acc.hits))
           more == Append(acc.accepted, later)
           new == CheckRate(acc, pause, limit)
           Count(t) == Cardinality(InMinute(acc.accepted, t))
<1>1. /\ acc \in Rated /\ acc.now \in Nat /\ acc.hits \in Seq(Nat) /\ acc.accepted \in Seq(Nat) /\ acc.refused \in SUBSET Nat
      /\ later \in Nat /\ acc.now <= later
    BY DEF RateInv, Rated
<1>2. /\ Sorted(acc.accepted) /\ Held(acc.hits, acc.accepted, acc.now) /\ Len(acc.hits) <= limit
      /\ \A i \in 1..Len(acc.accepted) : acc.accepted[i] <= acc.now /\ Count(acc.accepted[i]) <= limit
      /\ \A t \in acc.refused : t <= acc.now /\ Count(t) = limit
    BY DEF RateInv
<1> HIDE DEF later
<1>3. /\ recent \in Seq(Nat) /\ Len(recent) <= Len(acc.hits)
      /\ Held(recent, acc.accepted, later)
      /\ Count(later) = Len(recent)
    BY <1>1, <1>2, RecentAre
<1>4. /\ Len(recent) \in Nat /\ Len(acc.hits) \in Nat /\ Len(acc.accepted) \in Nat
      /\ \A i \in 1..Len(acc.accepted) : acc.accepted[i] \in Nat
    <2>1. \A i \in 1..Len(acc.accepted) : acc.accepted[i] \in Nat
        BY <1>1, ElementOfSeq
    <2> HIDE DEF recent
    <2> QED
        BY <1>1, <1>3, <2>1
<1> HIDE DEF recent
<1>5. CASE Len(recent) >= limit
    <2>1. new = [acc EXCEPT !.now = later, !.hits = recent, !.refused = @ \cup {later}]
        BY <1>5 DEF CheckRate, later, recent
    <2> HIDE DEF new
    <2>2. /\ new \in Rated /\ new.now = later /\ new.hits = recent /\ new.accepted = acc.accepted
          /\ new.refused = acc.refused \cup {later}
        BY <1>1, <1>3, <2>1 DEF Rated
    <2>3. Len(recent) <= limit /\ Count(later) = limit
        BY <1>2, <1>3, <1>4, <1>5
    <2>4. \A i \in 1..Len(acc.accepted) : acc.accepted[i] <= later
        BY <1>1, <1>2, <1>4
    <2>5. \A t \in acc.refused \cup {later} : t <= later /\ Count(t) = limit
        BY <1>1, <1>2, <2>3
    <2> HIDE DEF Count
    <2>6. RateInv(limit, new)
        BY <1>2, <1>3, <2>2, <2>3, <2>4, <2>5 DEF RateInv, Count
    <2> QED
        BY <2>6 DEF new
<1>6. CASE ~(Len(recent) >= limit)
    <2> DEFINE kept == Append(recent, later)
    <2>1. new = [acc EXCEPT !.now = later, !.hits = kept, !.accepted = more]
        BY <1>6 DEF CheckRate, later, recent
    <2>2. /\ more \in Seq(Nat) /\ Len(more) = Len(acc.accepted) + 1
          /\ \A i \in 1..Len(acc.accepted) : more[i] = acc.accepted[i]
          /\ more[Len(acc.accepted) + 1] = later
        BY <1>1, OneMore
    <2>3. /\ kept \in Seq(Nat) /\ Len(kept) = Len(recent) + 1
          /\ \A i \in 1..Len(recent) : kept[i] = recent[i]
          /\ kept[Len(recent) + 1] = later
        BY <1>1, <1>3, OneMore
    <2>4. ASSUME NEW t \in Nat
          PROVE  Cardinality(InMinute(more, t)) = Count(t) + (IF later \in (t - RateMinute)..t THEN 1 ELSE 0)
        BY <1>1, MinuteMore
    <2> HIDE DEF more, new, kept
    <2>5. /\ new \in Rated /\ new.now = later /\ new.hits = kept /\ new.accepted = more
          /\ new.refused = acc.refused
        BY <1>1, <2>1, <2>2, <2>3 DEF Rated
    <2>6. \A i \in 1..Len(more) : i \in 1..Len(acc.accepted) \/ i = Len(acc.accepted) + 1
        BY <1>4, <2>2
    <2>7. \A i \in 1..Len(more) : more[i] \in Nat /\ more[i] <= later
        <3> SUFFICES ASSUME NEW i \in 1..Len(more)
                     PROVE  more[i] \in Nat /\ more[i] <= later
            OBVIOUS
        <3>1. CASE i = Len(acc.accepted) + 1
            BY <1>1, <2>2, <3>1
        <3>2. CASE i \in 1..Len(acc.accepted)
            <4>1. more[i] = acc.accepted[i] /\ acc.accepted[i] \in Nat /\ acc.accepted[i] <= acc.now
                BY <1>2, <1>4, <2>2, <3>2
            <4> QED
                BY <1>1, <4>1
        <3> QED
            BY <2>6, <3>1, <3>2
    <2>8. Sorted(more)
        <3> SUFFICES ASSUME NEW i \in 1..Len(more), NEW j \in 1..Len(more), i <= j
                     PROVE  more[i] <= more[j]
            BY DEF Sorted
        <3>1. CASE j = Len(acc.accepted) + 1
            BY <2>2, <2>7, <3>1
        <3>2. CASE j \in 1..Len(acc.accepted)
            <4>1. i \in 1..Len(acc.accepted)
                BY <1>4, <3>2
            <4> QED
                BY <1>2, <2>2, <3>2, <4>1 DEF Sorted
        <3> QED
            BY <2>6, <3>1, <3>2
    <2>9. Held(kept, more, later)
        <3>1. Len(kept) <= Len(more) /\ Len(more) - Len(kept) = Len(acc.accepted) - Len(recent)
              /\ Len(recent) <= Len(acc.accepted)
            BY <1>3, <1>4, <2>2, <2>3 DEF Held
        <3>2. ASSUME NEW i \in 1..Len(kept)
              PROVE  kept[i] = more[Len(more) - Len(kept) + i]
            <4>1. CASE i = Len(recent) + 1
                <5>1. Len(more) - Len(kept) + i = Len(acc.accepted) + 1
                    <6>1. Len(acc.accepted) - Len(recent) + (Len(recent) + 1) = Len(acc.accepted) + 1
                        <7>1. \A a, r \in Nat : a - r + (r + 1) = a + 1
                            OBVIOUS
                        <7> QED
                            BY <1>4, <7>1
                    <6> QED
                        BY <3>1, <4>1, <6>1
                <5> QED
                    BY <2>2, <2>3, <4>1, <5>1
            <4>2. CASE i \in 1..Len(recent)
                <5>1. Len(more) - Len(kept) + i = Len(acc.accepted) - Len(recent) + i
                      /\ Len(acc.accepted) - Len(recent) + i \in 1..Len(acc.accepted)
                    <6>1. Len(acc.accepted) - Len(recent) + i \in 1..Len(acc.accepted)
                        BY <1>4, <3>1, <4>2
                    <6> QED
                        BY <3>1, <6>1
                <5>2. recent[i] = acc.accepted[Len(acc.accepted) - Len(recent) + i]
                    BY <1>3, <4>2 DEF Held
                <5> QED
                    BY <2>2, <2>3, <4>2, <5>1, <5>2
            <4> QED
                BY <1>4, <2>3, <4>1, <4>2
        <3>3. ASSUME NEW i \in 1..(Len(more) - Len(kept))
              PROVE  later - more[i] > RateMinute
            <4>1. i \in 1..(Len(acc.accepted) - Len(recent)) /\ i \in 1..Len(acc.accepted)
                BY <1>4, <3>1
            <4> QED
                BY <1>3, <2>2, <4>1 DEF Held
        <3> QED
            BY <3>1, <3>2, <3>3 DEF Held
    <2>10. Len(kept) <= limit
        BY <1>4, <1>6, <2>3
    <2>11. \A t \in Nat : t < later => Cardinality(InMinute(more, t)) = Count(t)
        <3> SUFFICES ASSUME NEW t \in Nat, t < later
                     PROVE  Cardinality(InMinute(more, t)) = Count(t)
            OBVIOUS
        <3>1. Count(t) \in Nat
            BY <1>1, MinuteMore
        <3>2. later \notin (t - RateMinute)..t
            BY <1>1, RulesAssumption
        <3> HIDE DEF Count
        <3> QED
            BY <2>4, <3>1, <3>2
    <2>12. Cardinality(InMinute(more, later)) = Len(recent) + 1
        <3>1. later \in (later - RateMinute)..later
            BY <1>1, RulesAssumption
        <3> QED
            BY <1>1, <1>3, <2>4, <3>1
    <2>13. \A i \in 1..Len(more) : Cardinality(InMinute(more, more[i])) <= limit
        <3> SUFFICES ASSUME NEW i \in 1..Len(more)
                     PROVE  Cardinality(InMinute(more, more[i])) <= limit
            OBVIOUS
        <3>1. CASE more[i] = later
            BY <1>4, <1>6, <2>12, <3>1
        <3>2. CASE more[i] # later
            <4>1. more[i] < later /\ more[i] \in Nat
                BY <1>1, <2>7, <3>2
            <4>2. i \in 1..Len(acc.accepted) /\ more[i] = acc.accepted[i]
                BY <2>2, <2>6, <3>2
            <4> HIDE DEF Count
            <4> QED
                BY <1>2, <2>11, <4>1, <4>2
        <3> QED
            BY <3>1, <3>2
    <2>14. \A t \in acc.refused : t <= later /\ Cardinality(InMinute(more, t)) = limit
        <3> SUFFICES ASSUME NEW t \in acc.refused
                     PROVE  t <= later /\ Cardinality(InMinute(more, t)) = limit
            OBVIOUS
        <3>1. t \in Nat /\ t <= later /\ Count(t) = limit
            BY <1>1, <1>2
        <3>2. t # later
            BY <1>3, <1>4, <1>6, <3>1
        <3>3. t < later
            BY <1>1, <3>1, <3>2
        <3> HIDE DEF Count
        <3> QED
            BY <2>11, <3>1, <3>3
    <2>15. RateInv(limit, new)
        BY <2>5, <2>7, <2>8, <2>9, <2>10, <2>13, <2>14 DEF RateInv
    <2> QED
        BY <2>15 DEF new
<1> QED
    BY <1>5, <1>6

LEMMA RateIsRight ==
    ASSUME NEW limit \in Nat, NEW acc, RateInv(limit, acc)
    PROVE  RateRight(limit, acc)
<1>1. DOMAIN acc.accepted = 1..Len(acc.accepted)
    BY DEF RateInv, Rated
<1> QED
    BY <1>1 DEF RateInv, RateRight, InMinute

-----------------------------------------------------------------------------
(* The followed log *)

LEMMA PiecesMore ==
    ASSUME NEW events \in Seq(LogEvents), NEW e \in LogEvents
    PROVE  /\ \A i \in 0..Len(events) : Pieces(events, i) \in Nat /\ Pieces(Append(events, e), i) = Pieces(events, i)
           /\ Pieces(Append(events, e), Len(events) + 1) =
                  IF e = "eol" THEN 0 ELSE Pieces(events, Len(events)) + (IF e = "piece" THEN 1 ELSE 0)
<1> DEFINE n == Len(events)
           more == Append(events, e)
           Open(s, i) == {j \in 1..i : s[j] = "piece" /\ \A k \in j..i : s[k] # "eol"}
<1>1. /\ n \in Nat /\ \A i \in 1..n : more[i] = events[i]
      /\ more[n + 1] = e
    BY OneMore
<1>2. \A s, i : Pieces(s, i) = Cardinality(Open(s, i))
    BY DEF Pieces
<1>3. ASSUME NEW i \in 0..n
      PROVE  Open(more, i) = Open(events, i) /\ IsFiniteSet(Open(events, i)) /\ Cardinality(Open(events, i)) \in Nat
    <2>1. i \in Nat /\ \A j \in 1..i : j \in 1..n /\ \A k \in j..i : k \in 1..n
        BY <1>1
    <2> HIDE DEF n, more
    <2>2. Open(more, i) = Open(events, i)
        BY <1>1, <2>1
    <2>3. IsFiniteSet(1..i) /\ Open(events, i) \in SUBSET (1..i)
        BY <2>1, FS_Interval
    <2> HIDE DEF Open
    <2>4. IsFiniteSet(Open(events, i)) /\ Cardinality(Open(events, i)) \in Nat
        BY <2>3, FS_Subset, FS_CardinalityType
    <2> QED
        BY <2>2, <2>4
<1>4. n \in 0..n
    BY <1>1
<1>5. \A j \in 1..n : /\ \A k : k \in j..(n + 1) <=> k \in j..n \/ k = n + 1
    BY <1>1
<1>6. \A j : j \in 1..(n + 1) <=> j \in 1..n \/ j = n + 1
    BY <1>1
<1>7. \A j \in 1..n : \A k \in j..n : k \in 1..n
    BY <1>1
<1>8. n + 1 \in (n + 1)..(n + 1) /\ (\A k \in (n + 1)..(n + 1) : k = n + 1) /\ n + 1 \notin 1..n
    BY <1>1
<1> HIDE DEF n, more
<1>9. CASE e = "eol"
    <2>1. Open(more, n + 1) = {}
        BY <1>1, <1>5, <1>6, <1>8, <1>9
    <2>2. Pieces(more, n + 1) = 0
        BY <1>2, <2>1, FS_EmptySet
    <2> HIDE DEF Open
    <2> QED
        BY <1>2, <1>3, <1>9, <2>2 DEF n, more
<1>10. CASE e = "piece"
    <2>1. Open(more, n + 1) = Open(events, n) \cup {n + 1} /\ n + 1 \notin Open(events, n)
        BY <1>1, <1>5, <1>6, <1>7, <1>8, <1>10
    <2> HIDE DEF Open
    <2>2. Pieces(more, n + 1) = Pieces(events, n) + 1
        BY <1>2, <1>3, <1>4, <2>1, FS_AddElement
    <2> QED
        BY <1>2, <1>3, <1>10, <2>2 DEF n, more
<1>11. CASE e = "poll"
    <2>1. Open(more, n + 1) = Open(events, n)
        BY <1>1, <1>5, <1>6, <1>7, <1>8, <1>11
    <2> HIDE DEF Open
    <2>2. Pieces(more, n + 1) = Pieces(events, n) /\ Pieces(events, n) \in Nat
        BY <1>2, <1>3, <1>4, <2>1
    <2> QED
        BY <1>2, <1>3, <1>11, <2>2 DEF n, more
<1> QED
    BY <1>9, <1>10, <1>11 DEF LogEvents

LEMMA PrintedMore ==
    ASSUME NEW events \in Seq(LogEvents), NEW e \in LogEvents
    PROVE  /\ Printed(events) \in Seq(Nat \ {0})
           /\ Printed(Append(events, e)) = IF e = "eol" THEN Append(Printed(events), Pieces(events, Len(events)) + 1)
                                           ELSE Printed(events)
<1> DEFINE n == Len(events)
           more == Append(events, e)
           Mark(s, i) == IF s[i] = "eol" THEN Pieces(s, i - 1) + 1 ELSE 0
           Marks(s) == [i \in DOMAIN s |-> Mark(s, i)]
           mark == IF e = "eol" THEN Pieces(events, n) + 1 ELSE 0
<1>1. /\ n \in Nat /\ DOMAIN events = 1..n /\ DOMAIN more = 1..(n + 1)
      /\ \A i \in 1..n : more[i] = events[i]
      /\ more[n + 1] = e
    BY OneMore
<1>2. \A i \in 0..n : Pieces(events, i) \in Nat /\ Pieces(more, i) = Pieces(events, i)
    BY PiecesMore
<1>3. \A i \in 1..(n + 1) : i - 1 \in 0..n
    BY <1>1
<1>4. (n + 1) - 1 = n /\ n \in 0..n
    BY <1>1
<1>5. \A s : Printed(s) = Only(Marks(s), Nat \ {0})
    BY DEF Printed
<1> HIDE DEF n, more
<1>6. Marks(events) \in Seq(Nat) /\ Len(Marks(events)) = n
    <2>1. \A i \in 1..n : Mark(events, i) \in Nat
        <3> SUFFICES ASSUME NEW i \in 1..n PROVE Mark(events, i) \in Nat
            OBVIOUS
        <3>1. i - 1 \in 0..n
            BY <1>1
        <3> QED
            BY <1>2, <3>1
    <2> HIDE DEF Mark
    <2> QED
        BY <1>1, <2>1
<1>7. mark \in Nat /\ (mark \in Nat \ {0} <=> e = "eol")
    BY <1>2, <1>4
<1>8. Marks(more) = Append(Marks(events), mark)
    <2> DEFINE a == Append(Marks(events), mark)
    <2>1. /\ a \in Seq(Nat) /\ Len(a) = n + 1
          /\ \A i \in 1..n : a[i] = Marks(events)[i]
          /\ a[n + 1] = mark
        <3> HIDE DEF Marks, mark
        <3> QED
            BY <1>6, <1>7, OneMore
    <2>2. \A i \in 1..n : Marks(events)[i] = Mark(events, i)
        BY <1>1
    <2>3. \A i \in 1..n : Mark(more, i) = Mark(events, i)
        <3> SUFFICES ASSUME NEW i \in 1..n PROVE Mark(more, i) = Mark(events, i)
            OBVIOUS
        <3>1. i - 1 \in 0..n
            BY <1>1
        <3> QED
            BY <1>1, <1>2, <3>1
    <2>4. Mark(more, n + 1) = mark
        BY <1>1, <1>2, <1>4
    <2>5. \A i : i \in 1..(n + 1) <=> i \in 1..n \/ i = n + 1
        BY <1>1
    <2> HIDE DEF a, Mark, mark
    <2>6. a = [i \in 1..(n + 1) |-> a[i]]
        BY <1>1, <2>1
    <2>7. \A i \in 1..(n + 1) : a[i] = Mark(more, i)
        BY <2>1, <2>2, <2>3, <2>4, <2>5
    <2>8. a = Marks(more)
        BY <1>1, <2>6, <2>7
    <2> QED
        BY <2>8 DEF a
<1> HIDE DEF Marks
<1>9. Printed(events) \in Seq(Nat \ {0})
    BY <1>5, <1>6, OnlyIs
<1>10. Printed(more) = IF e = "eol" THEN Append(Printed(events), mark) ELSE Printed(events)
    <2> HIDE DEF mark
    <2>0. \A s \in Seq(Nat) : \A x \in Nat : \A S :
              Only(Append(s, x), S) = IF x \in S THEN Append(Only(s, S), x) ELSE Only(s, S)
        BY ONLY OnlyAppend
    <2>1. Only(Append(Marks(events), mark), Nat \ {0}) =
              IF mark \in Nat \ {0} THEN Append(Only(Marks(events), Nat \ {0}), mark) ELSE Only(Marks(events), Nat \ {0})
        BY ONLY <1>6, <1>7, <2>0
    <2> QED
        BY <1>5, <1>7, <1>8, <2>1
<1> QED
    BY <1>9, <1>10 DEF n, more

Capped(lines) == IF Len(lines) <= MaxLines THEN lines ELSE Append(SubSeq(lines, 1, MaxLines), 0)

Logged == [lines : Seq(Nat), partial : Nat, next : Nat, got : Seq(Nat)]

(* The panel has the lines up to `next`, out of those printed so far. *)
Told(acc, printed) ==
    /\ acc \in Logged
    /\ printed \in Seq(Nat)
    /\ acc.lines = Capped(printed)
    /\ acc.next <= Len(acc.lines)
    /\ acc.got = SubSeq(acc.lines, 1, acc.next)

LogInv(events, acc) ==
    /\ events \in Seq(LogEvents)
    /\ acc.partial = Pieces(events, Len(events))
    /\ Told(acc, Printed(events))

LEMMA AddTells ==
    ASSUME NEW acc, NEW printed, Told(acc, printed), NEW line \in Nat
    PROVE  Told(AddLine(acc, line), Append(printed, line)) /\ AddLine(acc, line).partial = acc.partial
<1> DEFINE new == AddLine(acc, line)
           more == Append(printed, line)
           n == Len(printed)
<1>1. /\ acc \in Logged /\ acc.lines \in Seq(Nat) /\ acc.next \in Nat /\ printed \in Seq(Nat)
      /\ acc.lines = Capped(printed) /\ acc.next <= Len(acc.lines) /\ acc.got = SubSeq(acc.lines, 1, acc.next)
      /\ MaxLines \in Nat /\ n \in Nat /\ Len(acc.lines) \in Nat
    BY RulesAssumption DEF Told, Logged
<1>2. more \in Seq(Nat) /\ Len(more) = n + 1
    BY <1>1, OneMore
<1>3. ASSUME NEW x \in Nat, new = [acc EXCEPT !.lines = Append(@, x)], Append(acc.lines, x) = Capped(more)
      PROVE  Told(new, more) /\ new.partial = acc.partial
    <2>1. /\ Append(acc.lines, x) \in Seq(Nat) /\ Len(Append(acc.lines, x)) = Len(acc.lines) + 1
        BY <1>1, OneMore
    <2> HIDE DEF new, more
    <2>2. /\ new \in Logged /\ new.lines = Append(acc.lines, x) /\ new.next = acc.next /\ new.got = acc.got
          /\ new.partial = acc.partial
        BY <1>1, <1>3, <2>1 DEF Logged
    <2>3. SubSeq(Append(acc.lines, x), 1, acc.next) = SubSeq(acc.lines, 1, acc.next)
        <3>1. acc.next \in 0..Len(acc.lines)
            BY <1>1
        <3> QED
            BY <1>1, <3>1, HeadOfMore
    <2>4. acc.next <= Len(acc.lines) + 1
        BY <1>1
    <2> QED
        BY <1>1, <1>2, <1>3, <2>1, <2>2, <2>3, <2>4 DEF Told
<1>4. CASE n < MaxLines
    <2>1. acc.lines = printed /\ Capped(more) = Append(acc.lines, line) /\ Len(acc.lines) < MaxLines
        BY <1>1, <1>2, <1>4 DEF Capped
    <2>2. new = [acc EXCEPT !.lines = Append(@, line)]
        BY <2>1 DEF AddLine
    <2> QED
        BY <1>3, <2>1, <2>2
<1>5. CASE n = MaxLines
    <2>1. acc.lines = printed /\ Len(acc.lines) = MaxLines /\ ~(Len(acc.lines) < MaxLines)
        BY <1>1, <1>5 DEF Capped
    <2>2. new = [acc EXCEPT !.lines = Append(@, 0)]
        BY <2>1 DEF AddLine
    <2>3. SubSeq(more, 1, MaxLines) = printed
        <3>1. n \in 0..n
            BY <1>1
        <3>2. SubSeq(more, 1, n) = SubSeq(printed, 1, n)
            BY <1>1, <3>1, HeadOfMore
        <3>3. SubSeq(printed, 1, n) = printed
            BY <1>1, SubSeqFull
        <3> QED
            BY <1>5, <3>2, <3>3
    <2>4. Capped(more) = Append(acc.lines, 0)
        BY <1>1, <1>2, <1>5, <2>1, <2>3 DEF Capped
    <2> QED
        BY <1>3, <2>2, <2>4
<1>6. CASE n > MaxLines
    <2>1. acc.lines = Append(SubSeq(printed, 1, MaxLines), 0)
        BY <1>1, <1>6 DEF Capped
    <2>2. MaxLines \in 0..n
        BY <1>1, <1>6
    <2>3. SubSeq(printed, 1, MaxLines) \in Seq(Nat) /\ Len(SubSeq(printed, 1, MaxLines)) = MaxLines
        BY <1>1, <2>2, HeadOf
    <2>4. Len(acc.lines) = MaxLines + 1
        BY <2>1, <2>3, OneMore
    <2>5. new = acc
        BY <1>1, <2>4 DEF AddLine
    <2>6. SubSeq(more, 1, MaxLines) = SubSeq(printed, 1, MaxLines)
        BY <1>1, <2>2, HeadOfMore
    <2>7. Capped(more) = acc.lines
        <3>1. ~(Len(more) <= MaxLines)
            BY <1>1, <1>2, <1>6
        <3> HIDE DEF more
        <3> QED
            BY <2>1, <2>6, <3>1 DEF Capped
    <2> QED
        BY <1>1, <1>2, <2>5, <2>7 DEF Told
<1> QED
    BY <1>1, <1>4, <1>5, <1>6

LEMMA SinceTells ==
    ASSUME NEW acc, NEW printed, Told(acc, printed)
    PROVE  Told(Since(acc), printed) /\ Since(acc).partial = acc.partial /\ Since(acc).got = Capped(printed)
<1> DEFINE new == Since(acc)
           n == Len(acc.lines)
           first == SubSeq(acc.lines, 1, acc.next)
           rest == SubSeq(acc.lines, acc.next + 1, n)
<1>1. /\ acc \in Logged /\ acc.lines \in Seq(Nat) /\ acc.next \in Nat /\ printed \in Seq(Nat)
      /\ acc.lines = Capped(printed) /\ acc.next <= n /\ acc.got = first /\ n \in Nat
    BY DEF Told, Logged
<1>2. first \in Seq(Nat) /\ Len(first) = acc.next /\ \A i \in 1..acc.next : first[i] = acc.lines[i]
    BY <1>1, HeadOf
<1>3. rest \in Seq(Nat) /\ Len(rest) = n - acc.next /\ \A i \in 1..(n - acc.next) : rest[i] = acc.lines[acc.next + i]
    <2>1. \A i \in (acc.next + 1)..n : acc.lines[i] \in Nat
        <3>1. \A i \in (acc.next + 1)..n : i \in 1..n
            BY <1>1
        <3> QED
            BY <1>1, <3>1, ElementOfSeq
    <2>2. acc.next + 1 \in Int /\ n \in Int
        BY <1>1
    <2> HIDE DEF n
    <2>3. /\ rest \in Seq(Nat)
          /\ Len(rest) = IF acc.next + 1 <= n THEN n - (acc.next + 1) + 1 ELSE 0
          /\ \A i \in 1..(n - (acc.next + 1) + 1) : rest[i] = acc.lines[(acc.next + 1) + i - 1]
        BY <2>1, <2>2, SubSeqProperties
    <2>4. n - (acc.next + 1) + 1 = n - acc.next /\ Len(rest) = n - acc.next
        BY <1>1, <2>3
    <2>5. \A i \in 1..(n - acc.next) : (acc.next + 1) + i - 1 = acc.next + i
        BY <1>1
    <2> QED
        BY <2>3, <2>4, <2>5
<1>4. first \o rest = acc.lines
    <2> HIDE DEF first, rest, n
    <2>1. /\ first \o rest \in Seq(Nat) /\ Len(first \o rest) = acc.next + (n - acc.next)
          /\ \A i \in 1..(acc.next + (n - acc.next)) : (first \o rest)[i] =
                 IF i <= acc.next THEN first[i] ELSE rest[i - acc.next]
        <3>1. first \in Seq(Nat) /\ rest \in Seq(Nat) /\ Len(first) = acc.next /\ Len(rest) = n - acc.next
            BY <1>2, <1>3
        <3>2. ASSUME NEW s \in Seq(Nat), NEW t \in Seq(Nat), NEW a, NEW b, Len(s) = a, Len(t) = b
              PROVE  /\ s \o t \in Seq(Nat) /\ Len(s \o t) = a + b
                     /\ \A i \in 1..(a + b) : (s \o t)[i] = IF i <= a THEN s[i] ELSE t[i - a]
            BY ONLY ConcatProperties, <3>2
        <3> DEFINE b == n - acc.next
        <3>3. Len(rest) = b
            BY ONLY <3>1
        <3> HIDE DEF b
        <3>4. /\ first \o rest \in Seq(Nat) /\ Len(first \o rest) = acc.next + b
              /\ \A i \in 1..(acc.next + b) : (first \o rest)[i] = IF i <= acc.next THEN first[i] ELSE rest[i - acc.next]
            BY ONLY <3>1, <3>2, <3>3
        <3> QED
            BY ONLY <3>4 DEF b
    <2>2. acc.next + (n - acc.next) = n
        BY <1>1
    <2>3. ASSUME NEW i \in 1..n
          PROVE  (first \o rest)[i] = acc.lines[i]
        <3>1. CASE i <= acc.next
            <4>1. i \in 1..acc.next
                BY <1>1, <3>1
            <4> QED
                BY <1>2, <2>1, <2>2, <3>1, <4>1
        <3>2. CASE ~(i <= acc.next)
            <4>1. i - acc.next \in 1..(n - acc.next) /\ acc.next + (i - acc.next) = i
                BY <1>1, <3>2
            <4>2. rest[i - acc.next] = acc.lines[acc.next + (i - acc.next)]
                BY <1>3, <4>1
            <4> QED
                BY <2>1, <2>2, <3>2, <4>1, <4>2
        <3> QED
            BY <3>1, <3>2
    <2>4. Len(first \o rest) = Len(acc.lines)
        BY <2>1, <2>2 DEF n
    <2> QED
        BY <1>1, <2>1, <2>3, <2>4, SameSeq DEF n
<1>5. new = [acc EXCEPT !.got = acc.lines, !.next = n]
    BY <1>1, <1>4 DEF Since
<1> HIDE DEF new
<1>6. /\ new \in Logged /\ new.lines = acc.lines /\ new.next = n /\ new.got = acc.lines /\ new.partial = acc.partial
    BY <1>1, <1>5 DEF Logged
<1>7. SubSeq(acc.lines, 1, n) = acc.lines
    BY <1>1, SubSeqFull
<1>8. Told(new, printed)
    BY <1>1, <1>6, <1>7 DEF Told
<1> QED
    BY <1>1, <1>6, <1>8 DEF new

LEMMA LogStarts == LogInv(<<>>, [lines |-> <<>>, partial |-> 0, next |-> 0, got |-> <<>>])
<1> DEFINE start == [lines |-> <<>>, partial |-> 0, next |-> 0, got |-> <<>>]
<1>1. <<>> \in Seq(LogEvents) /\ <<>> \in Seq(Nat) /\ Len(<<>>) = 0 /\ start \in Logged
    BY DEF Logged
<1>2. Pieces(<<>>, 0) = 0
    <2>1. {j \in 1..0 : <<>>[j] = "piece" /\ \A k \in j..0 : <<>>[k] # "eol"} = {}
        OBVIOUS
    <2> QED
        BY <2>1, FS_EmptySet DEF Pieces
<1>3. Printed(<<>>) = <<>>
    <2>1. [i \in DOMAIN <<>> |-> IF <<>>[i] = "eol" THEN Pieces(<<>>, i - 1) + 1 ELSE 0] = <<>>
        OBVIOUS
    <2> QED
        BY <2>1, OnlyEmpty DEF Printed
<1>4. Capped(<<>>) = <<>> /\ SubSeq(<<>>, 1, 0) = <<>>
    BY <1>1, RulesAssumption DEF Capped
<1>5. start.lines = <<>> /\ Len(<<>>) = 0 /\ start.partial = 0 /\ start.next = 0 /\ start.got = <<>>
    OBVIOUS
<1> HIDE DEF start
<1>6. Told(start, Printed(<<>>))
    <2>1. start.lines = Capped(Printed(<<>>)) /\ Printed(<<>>) \in Seq(Nat)
        BY <1>1, <1>3, <1>4, <1>5
    <2>2. start.next <= Len(start.lines) /\ start.got = SubSeq(start.lines, 1, start.next)
        BY <1>1, <1>4, <1>5
    <2> QED
        BY <1>1, <2>1, <2>2 DEF Told
<1>7. LogInv(<<>>, start)
    BY <1>1, <1>2, <1>5, <1>6 DEF LogInv
<1> QED
    BY <1>7 DEF start

LEMMA FeedKeeps ==
    ASSUME NEW events, NEW acc, LogInv(events, acc), NEW e \in LogEvents
    PROVE  LogInv(Append(events, e), Feed(acc, e))
<1> DEFINE new == Feed(acc, e)
           more == Append(events, e)
           open == Pieces(events, Len(events))
<1>1. /\ events \in Seq(LogEvents) /\ acc.partial = open /\ Told(acc, Printed(events)) /\ acc \in Logged /\ open \in Nat
    BY DEF LogInv, Told, Logged
<1>2. /\ more \in Seq(LogEvents) /\ Len(more) = Len(events) + 1
    BY <1>1, OneMore
<1>3. Pieces(more, Len(more)) = IF e = "eol" THEN 0 ELSE open + (IF e = "piece" THEN 1 ELSE 0)
    BY <1>1, <1>2, PiecesMore
<1>4. Printed(more) = IF e = "eol" THEN Append(Printed(events), open + 1) ELSE Printed(events)
    BY <1>1, PrintedMore
<1> HIDE DEF open
<1>5. ASSUME NEW p \in Nat
      PROVE  /\ Told([acc EXCEPT !.partial = p], Printed(events))
             /\ [acc EXCEPT !.partial = p].partial = p
    <2> DEFINE put == [acc EXCEPT !.partial = p]
    <2>1. /\ put \in Logged /\ put.lines = acc.lines /\ put.next = acc.next /\ put.got = acc.got /\ put.partial = p
        BY <1>1 DEF Logged
    <2> HIDE DEF put
    <2>2. Told(put, Printed(events))
        BY <1>1, <2>1 DEF Told
    <2> QED
        BY <2>1, <2>2 DEF put
<1>6. CASE e = "piece"
    <2>1. new = [acc EXCEPT !.partial = open + 1]
        BY <1>1, <1>6 DEF Feed
    <2>2. open + 1 \in Nat
        BY <1>1
    <2>3. Told(new, Printed(events)) /\ new.partial = open + 1
        BY <1>5, <2>1, <2>2
    <2> QED
        BY <1>2, <1>3, <1>4, <1>6, <2>3 DEF LogInv
<1>7. CASE e = "eol"
    <2> DEFINE put == [acc EXCEPT !.partial = 0]
    <2>1. new = AddLine(put, open + 1)
        BY <1>1, <1>7 DEF Feed
    <2>2. Told(put, Printed(events)) /\ put.partial = 0 /\ open + 1 \in Nat
        <3>1. 0 \in Nat /\ open + 1 \in Nat
            BY <1>1
        <3> QED
            BY <1>5, <3>1
    <2> HIDE DEF put
    <2>3. Told(new, Append(Printed(events), open + 1)) /\ new.partial = 0
        BY <2>1, <2>2, AddTells
    <2> QED
        BY <1>2, <1>3, <1>4, <1>7, <2>3 DEF LogInv
<1>8. CASE e = "poll"
    <2>1. new = Since(acc)
        BY <1>8 DEF Feed
    <2>2. Told(new, Printed(events)) /\ new.partial = open
        BY <1>1, <2>1, SinceTells
    <2>3. Pieces(more, Len(more)) = open
        BY <1>1, <1>3, <1>8
    <2> QED
        BY <1>2, <1>4, <1>8, <2>2, <2>3 DEF LogInv
<1> QED
    BY <1>6, <1>7, <1>8 DEF LogEvents

LEMMA LogIsRight ==
    ASSUME NEW events, NEW acc, LogInv(events, acc)
    PROVE  LogRight(events, acc)
<1> DEFINE rest == Pieces(events, Len(events))
           printed == IF rest > 0 THEN Append(Printed(events), rest) ELSE Printed(events)
           whole == IF acc.partial > 0 THEN AddLine(acc, acc.partial) ELSE acc
<1>1. acc.partial = rest /\ rest \in Nat /\ Told(acc, Printed(events))
    BY DEF LogInv, Told, Logged
<1>2. Told(whole, printed)
    <2>1. CASE rest > 0
        BY <1>1, <2>1, AddTells
    <2>2. CASE ~(rest > 0)
        BY <1>1, <2>2
    <2> QED
        BY <2>1, <2>2
<1>3. TestLog(acc).got = Capped(printed)
    <2> HIDE DEF printed, rest
    <2>1. Since(whole).got = Capped(printed)
        BY <1>2, SinceTells
    <2> QED
        BY <2>1 DEF TestLog
<1> QED
    BY <1>3 DEF LogRight, Capped

-----------------------------------------------------------------------------
(* Any number of questions *)

(* The inductive invariant: a function without a loop is asked what it may be asked, and of the  *)
(* others the invariant of their loop holds.                                                     *)
Loops(q, list, acc) ==
    /\ q[1] = "none" => list = <<>>
    /\ q[1] = "range" => q[2] \in Ranges
    /\ q[1] = "order" => q[2] \in Rankings
    /\ q[1] = "view" => q[2] \in Views
    /\ q[1] = "playlist" => q[2] \in SUBSET Segs /\ PlaylistInv(q[2], list, acc)
    /\ q[1] = "plan" => PickedInv(q[2], list, acc)
    /\ q[1] = "numbering" => Numbered(list, acc)
    /\ q[1] = "rate" => q[2] \in Nat /\ RateInv(q[2], acc)
    /\ q[1] = "log" => LogInv(list, acc)

RulesInv == Loops(question, given, made)

LEMMA RulesStart == RulesInit => RulesInv
BY DEF RulesInit, RulesInv, Loops, Unasked

(* A question, and an entry more. *)
LEMMA AskAsks ==
    ASSUME RulesInv, NEW q, NEW start, Ask(q, start)
    PROVE  question' = q /\ given' = <<>> /\ made' = start
BY DEF RulesInv, Loops, Ask, Unasked

LEMMA GiveGives ==
    ASSUME NEW rule, NEW bound, NEW x, NEW result, Give(rule, bound, x, result)
    PROVE  question[1] = rule /\ question' = question /\ given' = Append(given, x) /\ made' = result
BY DEF Give

LEMMA OnceKeeps == ASSUME RulesInv, AskOnce PROVE RulesInv'
<1>1. CASE \E q \in Ranges : Ask(<<"range", q>>, made)
    BY <1>1, AskAsks DEF RulesInv, Loops
<1>2. CASE \E q \in Rankings : Ask(<<"order", q>>, made)
    BY <1>2, AskAsks DEF RulesInv, Loops
<1>3. CASE \E q \in Views : Ask(<<"view", q>>, made)
    BY <1>3, AskAsks DEF RulesInv, Loops
<1> QED
    BY <1>1, <1>2, <1>3 DEF AskOnce

LEMMA AskPlaylistKeeps == ASSUME RulesInv, AskPlaylist PROVE RulesInv'
<1> DEFINE start == [out |-> <<>>, pending |-> <<>>, on |-> TRUE]
<1>1. PICK exists \in SUBSET Segs : Ask(<<"playlist", exists>>, start)
    BY DEF AskPlaylist
<1>2. PlaylistInv(exists, <<>>, start)
    BY PlaylistStarts
<1> HIDE DEF start
<1>3. question' = <<"playlist", exists>> /\ given' = <<>> /\ made' = start
    BY <1>1, AskAsks
<1> QED
    BY <1>2, <1>3 DEF RulesInv, Loops

LEMMA GiveLineKeeps == ASSUME RulesInv, GiveLine PROVE RulesInv'
<1>1. PICK line \in Texts : Give("playlist", MaxItems, line, RewriteLine(made, line, question[2]))
    BY DEF GiveLine
<1>2. /\ question[1] = "playlist" /\ question' = question
      /\ given' = Append(given, line) /\ made' = RewriteLine(made, line, question[2])
    BY <1>1, GiveGives
<1>3. question[2] \in SUBSET Segs /\ PlaylistInv(question[2], given, made)
    BY <1>2 DEF RulesInv, Loops
<1>4. PlaylistInv(question[2], given', made')
    BY <1>2, <1>3, LineKeeps
<1> QED
    BY <1>2, <1>3, <1>4 DEF RulesInv, Loops

LEMMA AskPlanKeeps == ASSUME RulesInv, AskPlan PROVE RulesInv'
<1>1. PICK allow \in SUBSET Langs : Ask(<<"plan", allow>>, <<>>)
    BY DEF AskPlan
<1>2. question' = <<"plan", allow>> /\ given' = <<>> /\ made' = <<>>
    BY <1>1, AskAsks
<1>3. PickedInv(allow, <<>>, <<>>)
    BY PickStarts
<1> QED
    BY <1>2, <1>3 DEF RulesInv, Loops

LEMMA GiveSubtitleKeeps == ASSUME RulesInv, GiveSubtitle PROVE RulesInv'
<1>1. PICK d \in Tracks : Give("plan", MaxItems, d, PickSubtitle(made, d, question[2]))
    BY DEF GiveSubtitle
<1>2. /\ question[1] = "plan" /\ question' = question
      /\ given' = Append(given, d) /\ made' = PickSubtitle(made, d, question[2])
    BY <1>1, GiveGives
<1>3. PickedInv(question[2], given, made)
    BY <1>2 DEF RulesInv, Loops
<1>4. PickedInv(question[2], given', made')
    BY <1>2, <1>3, PickKeeps
<1> QED
    BY <1>2, <1>4 DEF RulesInv, Loops

LEMMA AskNumbersKeeps == ASSUME RulesInv, AskNumbers PROVE RulesInv'
<1> DEFINE start == [table |-> <<0>>, numbers |-> <<>>, full |-> FALSE]
<1>1. Ask(<<"numbering">>, start)
    BY DEF AskNumbers
<1>2. Numbered(<<>>, start)
    BY NumbersStart
<1> HIDE DEF start
<1>3. question' = <<"numbering">> /\ given' = <<>> /\ made' = start
    BY <1>1, AskAsks
<1> QED
    BY <1>2, <1>3 DEF RulesInv, Loops

LEMMA GiveUrlKeeps == ASSUME RulesInv, GiveUrl PROVE RulesInv'
<1>1. PICK url \in 0..MaxTable : Give("numbering", MaxItems, url, RegisterUrl(made, url))
    BY DEF GiveUrl
<1>2. /\ question[1] = "numbering" /\ question' = question
      /\ given' = Append(given, url) /\ made' = RegisterUrl(made, url)
    BY <1>1, GiveGives
<1>3. Numbered(given, made)
    BY <1>2 DEF RulesInv, Loops
<1>4. url \in Nat
    BY RulesAssumption
<1>5. Numbered(given', made')
    BY <1>2, <1>3, <1>4, UrlKeeps
<1> QED
    BY <1>2, <1>5 DEF RulesInv, Loops

LEMMA AskRateKeeps == ASSUME RulesInv, AskRate PROVE RulesInv'
<1> DEFINE start == [now |-> 0, hits |-> <<>>, accepted |-> <<>>, refused |-> {}]
<1>1. PICK limit \in 1..MaxLimit : Ask(<<"rate", limit>>, start)
    BY DEF AskRate
<1>2. limit \in Nat
    BY RulesAssumption
<1>3. RateInv(limit, start)
    BY <1>2, RateStarts
<1> HIDE DEF start
<1>4. question' = <<"rate", limit>> /\ given' = <<>> /\ made' = start
    BY <1>1, AskAsks
<1> QED
    BY <1>2, <1>3, <1>4 DEF RulesInv, Loops

LEMMA GiveRequestKeeps == ASSUME RulesInv, GiveRequest PROVE RulesInv'
<1>1. PICK pause \in 0..MaxSize : Give("rate", MaxItems, pause, CheckRate(made, pause, question[2]))
    BY DEF GiveRequest
<1>2. /\ question[1] = "rate" /\ question' = question
      /\ given' = Append(given, pause) /\ made' = CheckRate(made, pause, question[2])
    BY <1>1, GiveGives
<1>3. question[2] \in Nat /\ RateInv(question[2], made)
    BY <1>2 DEF RulesInv, Loops
<1>4. pause \in Nat
    BY RulesAssumption
<1>5. RateInv(question[2], made')
    BY <1>2, <1>3, <1>4, RequestKeeps
<1> QED
    BY <1>2, <1>3, <1>5 DEF RulesInv, Loops

LEMMA AskLogKeeps == ASSUME RulesInv, AskLog PROVE RulesInv'
<1> DEFINE start == [lines |-> <<>>, partial |-> 0, next |-> 0, got |-> <<>>]
<1>1. Ask(<<"log">>, start)
    BY DEF AskLog
<1>2. LogInv(<<>>, start)
    BY LogStarts
<1> HIDE DEF start
<1>3. question' = <<"log">> /\ given' = <<>> /\ made' = start
    BY <1>1, AskAsks
<1> QED
    BY <1>2, <1>3 DEF RulesInv, Loops

LEMMA GiveOutputKeeps == ASSUME RulesInv, GiveOutput PROVE RulesInv'
<1>1. PICK e \in LogEvents : Give("log", MaxEvents, e, Feed(made, e))
    BY DEF GiveOutput
<1>2. /\ question[1] = "log" /\ question' = question
      /\ given' = Append(given, e) /\ made' = Feed(made, e)
    BY <1>1, GiveGives
<1>3. LogInv(given, made)
    BY <1>2 DEF RulesInv, Loops
<1>4. LogInv(given', made')
    BY <1>2, <1>3, FeedKeeps
<1> QED
    BY <1>2, <1>4 DEF RulesInv, Loops

LEMMA RulesStep == RulesInv /\ [RulesNext]_rulesVars => RulesInv'
<1> SUFFICES ASSUME RulesInv, [RulesNext]_rulesVars
             PROVE  RulesInv'
    OBVIOUS
<1>1. CASE UNCHANGED rulesVars
    BY <1>1 DEF rulesVars, RulesInv, Loops
<1>2. CASE AskOnce BY <1>2, OnceKeeps
<1>3. CASE AskPlaylist BY <1>3, AskPlaylistKeeps
<1>4. CASE GiveLine BY <1>4, GiveLineKeeps
<1>5. CASE AskPlan BY <1>5, AskPlanKeeps
<1>6. CASE GiveSubtitle BY <1>6, GiveSubtitleKeeps
<1>7. CASE AskNumbers BY <1>7, AskNumbersKeeps
<1>8. CASE GiveUrl BY <1>8, GiveUrlKeeps
<1>9. CASE AskRate BY <1>9, AskRateKeeps
<1>10. CASE GiveRequest BY <1>10, GiveRequestKeeps
<1>11. CASE AskLog BY <1>11, AskLogKeeps
<1>12. CASE GiveOutput BY <1>12, GiveOutputKeeps
<1> QED
    BY <1>1, <1>2, <1>3, <1>4, <1>5, <1>6, <1>7, <1>8, <1>9, <1>10, <1>11, <1>12 DEF RulesNext

LEMMA AnswersAreRight == RulesInv => RulesAgree
<1> SUFFICES ASSUME RulesInv
             PROVE  RulesAgree
    OBVIOUS
<1>1. question[1] = "range" => RangeRight(question[2])
    BY RangeIsRight DEF RulesInv, Loops
<1>2. question[1] = "order" => OrderRight(question[2])
    BY OrderIsRight DEF RulesInv, Loops
<1>3. question[1] = "view" => ViewRight(question[2])
    BY ViewIsRight DEF RulesInv, Loops
<1>4. question[1] = "playlist" => PlaylistRight(question[2], given, made)
    BY PlaylistIsRight DEF RulesInv, Loops
<1>5. question[1] = "plan" => PlanRight(question[2], given, made)
    BY PlanIsRight DEF RulesInv, Loops
<1>6. question[1] = "numbering" => NumberingRight(given, made)
    BY NumberingIsRight DEF RulesInv, Loops
<1>7. question[1] = "rate" => RateRight(question[2], made)
    BY RateIsRight DEF RulesInv, Loops
<1>8. question[1] = "log" => LogRight(given, made)
    BY LogIsRight DEF RulesInv, Loops
<1> QED
    BY <1>1, <1>2, <1>3, <1>4, <1>5, <1>6, <1>7, <1>8 DEF RulesAgree

(* Whatever they are asked, the functions that only compute answer as they have to: a range of   *)
(* bytes is what the file has of it (rangeutil.py), a growing playlist lists the longest run of  *)
(* finished segments (hls.py), the sources of a task have one order (ranking.py), each subtitle  *)
(* is fetched once or counted (subengine.py), a number of a relayed playlist keeps its address   *)
(* (liverelay.py), no minute has more requests than the limit (auth.py), a task's results last   *)
(* as long as one can be played (taskstate.py), and the panel gets every printed line once       *)
(* (testlog.py).                                                                                 *)
THEOREM RulesAreRight == RulesSpec => []RulesAgree
<1>1. RulesInit => RulesInv
    BY RulesStart
<1>2. RulesInv /\ [RulesNext]_rulesVars => RulesInv'
    BY RulesStep
<1>3. RulesInv => RulesAgree
    BY AnswersAreRight
<1> QED
    BY <1>1, <1>2, <1>3, PTL DEF RulesSpec

-----------------------------------------------------------------------------
(* The admin's changes of sources *)

USE SourcesAssumption DEF Names

VersionRow == [code : Codes, active : BOOLEAN]
Row == [there : BOOLEAN, scripts : Seq(VersionRow), uses_browser : BOOLEAN, browser_manual : BOOLEAN]

(* Several versions are active together only if an imported file's text is theirs. *)
OneText(s) == \A v, w \in ActiveIn(s) : s.scripts[v].code = s.scripts[w].code

Fits(s) ==
    /\ s \in Row
    /\ Len(s.scripts) <= MaxVersions
    /\ OneText(s)
    /\ s.browser_manual \/ s.uses_browser = Detected(s)

(* What a request may make of a source: versions are added and never rewritten. *)
Reaches(s, to) ==
    /\ Fits(to)
    /\ Len(s.scripts) <= Len(to.scripts)
    /\ \A v \in 1..Len(s.scripts) : to.scripts[v].code = s.scripts[v].code
    /\ ActiveIn(s) # {} => ActiveIn(to) # {}

(* A request under way holds the difference between the source as it is and as it will be. *)
Holds(a) == \E n \in Names, to \in Row : Reaches(source[n], to) /\ pending[a] = Diff(n, source[n], to)

(* The inductive invariant. *)
SrcInv ==
    /\ source \in [Names -> Row]
    /\ pending = [a \in Admins |-> pending[a]]
    /\ \A n \in Names : Fits(source[n]) /\ (~source[n].there => source[n] = NoSource)
    /\ \A a \in Admins : pending[a] # NoWrite => Holds(a)

OneRequest == \A a, b \in Admins : a = b

-----------------------------------------------------------------------------
LEMMA RowFacts ==
    ASSUME NEW s \in Row
    PROVE  /\ s.there \in BOOLEAN /\ s.uses_browser \in BOOLEAN /\ s.browser_manual \in BOOLEAN
           /\ s.scripts \in Seq(VersionRow) /\ Len(s.scripts) \in Nat
           /\ DOMAIN s.scripts = 1..Len(s.scripts)
           /\ \A v \in 1..Len(s.scripts) : s.scripts[v] \in VersionRow
           /\ ActiveIn(s) = {v \in 1..Len(s.scripts) : s.scripts[v].active}
<1>1. s.scripts \in Seq(VersionRow)
    BY DEF Row
<1>2. Len(s.scripts) \in Nat /\ DOMAIN s.scripts = 1..Len(s.scripts)
    BY <1>1
<1>3. \A v \in 1..Len(s.scripts) : s.scripts[v] \in VersionRow
    BY <1>1, ElementOfSeq
<1> QED
    BY <1>1, <1>2, <1>3 DEF Row, ActiveIn

(* The oldest active version speaks for all of them when they have one text. *)
LEMMA DetectedSpeaks ==
    ASSUME NEW s \in Row, OneText(s)
    PROVE  /\ Detected(s) \in BOOLEAN
           /\ \A v \in ActiveIn(s) : (s.scripts[v].code \in Browser) = Detected(s)
<1>1. ActiveIn(s) \in SUBSET Nat
    BY RowFacts
<1>2. Detected(s) \in BOOLEAN
    BY DEF Detected
<1>3. ASSUME NEW v \in ActiveIn(s)
      PROVE  (s.scripts[v].code \in Browser) <=> Detected(s)
    <2>1. PICK i \in ActiveIn(s) : \A j \in ActiveIn(s) : i <= j
        BY <1>1, <1>3, LeastNatural
    <2>2. \A w \in ActiveIn(s) : s.scripts[w].code = s.scripts[v].code
        BY DEF OneText
    <2> QED
        BY <2>1, <2>2 DEF Detected
<1> QED
    BY <1>2, <1>3

LEMMA NothingThere == NoSource \in Row /\ Fits(NoSource) /\ ActiveIn(NoSource) = {} /\ NoSource.scripts = <<>>
<1>1. NoSource \in Row /\ NoSource.scripts = <<>> /\ ActiveIn(NoSource) = {}
    BY DEF NoSource, Row, ActiveIn
<1> QED
    BY <1>1 DEF Fits, OneText, Detected, NoSource

(* browserflag.py leaves a source with the flag of its script, unless it was set by hand. *)
LEMMA DetectionFits ==
    ASSUME NEW s \in Row, Len(s.scripts) <= MaxVersions, OneText(s)
    PROVE  /\ Fits(ApplyDetection(s))
           /\ ApplyDetection(s).scripts = s.scripts /\ ApplyDetection(s).there = s.there
           /\ ActiveIn(ApplyDetection(s)) = ActiveIn(s)
<1>1. CASE s.browser_manual
    BY <1>1 DEF ApplyDetection, Fits
<1>2. CASE ~s.browser_manual
    <2> DEFINE t == [s EXCEPT !.uses_browser = Detected(s)]
    <2>1. Detected(s) \in BOOLEAN
        BY DetectedSpeaks
    <2>2. t \in Row /\ t.scripts = s.scripts /\ t.there = s.there /\ t.uses_browser = Detected(s)
        BY <2>1 DEF Row
    <2>3. ApplyDetection(s) = t
        BY <1>2 DEF ApplyDetection
    <2> HIDE DEF t
    <2>4. ActiveIn(t) = ActiveIn(s)
        BY <2>2 DEF ActiveIn
    <2>5. Detected(t) = Detected(s) /\ OneText(t)
        BY <2>2, <2>4 DEF Detected, OneText
    <2> QED
        BY <2>2, <2>3, <2>4, <2>5 DEF Fits
<1> QED
    BY <1>1, <1>2 DEF Row

-----------------------------------------------------------------------------
(* The unit of work: what a session found changed, written to the row it read, is what it meant. *)
LEMMA SetFacts ==
    ASSUME NEW old, NEW new
    PROVE  Set(old, {new} \ {old}) = new
<1>1. CASE new = old
    BY <1>1 DEF Set
<1>2. CASE new # old
    <2>1. {new} \ {old} = {new} /\ (CHOOSE x \in {new} : TRUE) = new
        BY <1>2
    <2> QED
        BY <2>1 DEF Set
<1> QED
    BY <1>1, <1>2

LEMMA RoundTrip ==
    ASSUME NEW n, NEW s \in Row, NEW to \in Row, Reaches(s, to), to.there
    PROVE  Written(s, Diff(n, s, to)) = to
<1> DEFINE k == Len(s.scripts)
           m == Len(to.scripts)
<1> DEFINE w == Diff(n, s, to)
           kept == [v \in DOMAIN s.scripts |->
                       Version(s.scripts[v].code, v \in (ActiveIn(s) \ w.off) \cup w.on)]
<1>1. /\ w.add = SubSeq(to.scripts, k + 1, m)
      /\ w.on = {v \in 1..k : v \in ActiveIn(to) \ ActiveIn(s)}
      /\ w.off = {v \in 1..k : v \in ActiveIn(s) \ ActiveIn(to)}
      /\ w.uses = {to.uses_browser} \ {s.uses_browser}
      /\ w.manual = {to.browser_manual} \ {s.browser_manual}
    BY RowFacts DEF Diff
<1>0. /\ DOMAIN s.scripts = 1..k /\ DOMAIN to.scripts = 1..m /\ to.scripts \in Seq(VersionRow)
      /\ m = Len(to.scripts)
      /\ \A v \in 1..k : s.scripts[v] \in VersionRow /\ to.scripts[v].code = s.scripts[v].code
      /\ \A v \in 1..m : to.scripts[v] \in VersionRow /\ (v \in ActiveIn(to) <=> to.scripts[v].active)
    BY RowFacts DEF Reaches
<1>2. k \in Nat /\ m \in Nat /\ k <= m
    BY RowFacts DEF Reaches
<1> HIDE DEF k, m
<1>3. \A v \in 1..k : kept[v] = to.scripts[v]
    <2> SUFFICES ASSUME NEW v \in 1..k
                 PROVE  kept[v] = to.scripts[v]
        OBVIOUS
    <2>1. v \in 1..m
        BY <1>2
    <2>2. to.scripts[v] \in VersionRow /\ to.scripts[v].code = s.scripts[v].code
        BY <1>0, <2>1
    <2>3. (v \in (ActiveIn(s) \ w.off) \cup w.on) <=> v \in ActiveIn(to)
        BY <1>1
    <2>4. v \in ActiveIn(to) <=> to.scripts[v].active
        BY <1>0, <2>1
    <2>5. kept[v] = Version(s.scripts[v].code, v \in (ActiveIn(s) \ w.off) \cup w.on)
        BY <1>0
    <2> HIDE DEF kept, w
    <2>6. (v \in (ActiveIn(s) \ w.off) \cup w.on) = to.scripts[v].active
        BY <2>2, <2>3, <2>4 DEF VersionRow
    <2>7. kept[v] = [code |-> to.scripts[v].code, active |-> to.scripts[v].active]
        BY <2>2, <2>5, <2>6 DEF Version
    <2> QED
        BY <2>2, <2>7 DEF VersionRow
<1>4. kept \o w.add = to.scripts
    <2>1. kept \in Seq(VersionRow) /\ Len(kept) = k
        <3>1. DOMAIN kept = 1..k
            BY <1>0
        <3> HIDE DEF kept
        <3>2. kept \in [1..k -> VersionRow]
            <4>1. \A v \in 1..k : kept[v] \in VersionRow
                BY <1>0, <1>2, <1>3
            <4>2. kept = [v \in 1..k |-> kept[v]]
                BY <3>1 DEF kept
            <4> QED
                BY <4>1, <4>2
        <3> QED
            BY <1>2, <3>2
    <2>2. /\ w.add \in Seq(VersionRow) /\ Len(w.add) = m - k
          /\ \A i \in 1..(m - k) : w.add[i] = to.scripts[k + i]
        <3> HIDE DEF w, kept
        <3>1. \A i \in (k + 1)..m : to.scripts[i] \in VersionRow
            BY <1>0, <1>2
        <3>2. k + 1 \in Int /\ m \in Int
            BY <1>2
        <3>3. /\ w.add \in Seq(VersionRow)
              /\ Len(w.add) = IF k + 1 <= m THEN m - (k + 1) + 1 ELSE 0
              /\ \A i \in 1..(m - (k + 1) + 1) : w.add[i] = to.scripts[(k + 1) + i - 1]
            BY <1>1, <3>1, <3>2, SubSeqProperties
        <3>4. m - (k + 1) + 1 = m - k /\ Len(w.add) = m - k
            BY <1>2, <3>3
        <3>5. \A i \in 1..(m - k) : (k + 1) + i - 1 = k + i
            BY <1>2
        <3> QED
            BY <3>3, <3>4, <3>5
    <2> HIDE DEF w, kept
    <2>3. /\ kept \o w.add \in Seq(VersionRow) /\ Len(kept \o w.add) = m
          /\ \A i \in 1..m : (kept \o w.add)[i] = IF i <= k THEN kept[i] ELSE w.add[i - k]
        <3>1. Len(kept) + Len(w.add) = m
            BY <1>2, <2>1, <2>2
        <3>2. /\ kept \o w.add \in Seq(VersionRow) /\ Len(kept \o w.add) = Len(kept) + Len(w.add)
              /\ \A i \in 1..(Len(kept) + Len(w.add)) :
                     (kept \o w.add)[i] = IF i <= Len(kept) THEN kept[i] ELSE w.add[i - Len(kept)]
            BY ONLY <2>1, <2>2, ConcatProperties
        <3> QED
            BY <2>1, <3>1, <3>2
    <2>4. \A i \in 1..m : (kept \o w.add)[i] = to.scripts[i]
        BY <1>2, <1>3, <2>2, <2>3
    <2> QED
        BY <1>0, <2>3, <2>4, SeqEqual
<1>5. Set(s.uses_browser, w.uses) = to.uses_browser /\ Set(s.browser_manual, w.manual) = to.browser_manual
    <2> HIDE DEF w
    <2>1. Set(s.uses_browser, {to.uses_browser} \ {s.uses_browser}) = to.uses_browser
        BY SetFacts
    <2>2. Set(s.browser_manual, {to.browser_manual} \ {s.browser_manual}) = to.browser_manual
        BY SetFacts
    <2> QED
        BY <1>1, <2>1, <2>2
<1>6. Written(s, w) = [there |-> TRUE, scripts |-> to.scripts, uses_browser |-> to.uses_browser,
                       browser_manual |-> to.browser_manual]
    BY <1>4, <1>5 DEF Written
<1> QED
    BY <1>6 DEF Row

-----------------------------------------------------------------------------
(* What every handler's step comes to. *)
LEMMA PrepareKeeps ==
    ASSUME SrcInv, NEW a \in Admins, NEW n \in Names, NEW to \in Row, Prepares(a, n, to), Reaches(source[n], to)
    PROVE  SrcInv'
<1>1. source' = source /\ pending' = [pending EXCEPT ![a] = Diff(n, source[n], to)]
    BY DEF Prepares
<1>2. pending' = [b \in Admins |-> pending'[b]] /\ pending'[a] = Diff(n, source[n], to)
      /\ \A b \in Admins : b # a => pending'[b] = pending[b]
    BY <1>1 DEF SrcInv
<1>3. ASSUME NEW b \in Admins, pending'[b] # NoWrite
      PROVE  Holds(b)'
    <2>1. CASE b = a
        BY <1>1, <1>2, <2>1 DEF Holds
    <2>2. CASE b # a
        BY <1>1, <1>2, <1>3, <2>2 DEF Holds, SrcInv
    <2> QED
        BY <2>1, <2>2
<1> QED
    BY <1>1, <1>2, <1>3 DEF SrcInv

(* Only the flag or the row's fate changes. *)
LEMMA SameScripts ==
    ASSUME NEW s \in Row, NEW to \in Row, to.scripts = s.scripts
    PROVE  ActiveIn(to) = ActiveIn(s) /\ Detected(to) = Detected(s) /\ OneText(to) = OneText(s)
    BY DEF ActiveIn, Detected, OneText

LEMMA SameScriptsReach ==
    ASSUME NEW s \in Row, Fits(s), NEW to \in Row, to.scripts = s.scripts,
           to.browser_manual \/ to.uses_browser = Detected(to)
    PROVE  Reaches(s, to)
<1>1. ActiveIn(to) = ActiveIn(s) /\ OneText(to)
    BY SameScripts DEF Fits
<1> QED
    BY <1>1, RowFacts DEF Reaches, Fits

LEMMA CreateSourceKeeps ==
    ASSUME SrcInv, NEW a \in Admins, NEW n \in Names, CreateSource(a, n)
    PROVE  SrcInv'
<1>1. source[n] = NoSource
    BY DEF SrcInv, CreateSource
<1>2. ASSUME NEW flag \in BOOLEAN, NEW byHand \in BOOLEAN, byHand \/ ~flag
      PROVE  Fresh(flag, byHand) \in Row /\ Reaches(source[n], Fresh(flag, byHand))
    <2> DEFINE to == Fresh(flag, byHand)
    <2>1. to \in Row /\ to.scripts = NoSource.scripts /\ to.uses_browser = flag /\ to.browser_manual = byHand
        BY NothingThere DEF Fresh, Row
    <2> HIDE DEF to
    <2>2. Detected(to) = FALSE
        <3>1. ActiveIn(to) = {}
            BY <2>1, NothingThere, SameScripts
        <3> QED
            BY <3>1 DEF Detected
    <2>3. to.browser_manual \/ to.uses_browser = Detected(to)
        BY <1>2, <2>1, <2>2
    <2>4. Reaches(source[n], to)
        BY <1>1, <2>1, <2>3, NothingThere, SameScriptsReach
    <2> QED
        BY <2>1, <2>4 DEF to
<1>3. \/ Prepares(a, n, Fresh(FALSE, FALSE))
      \/ \E flag \in BOOLEAN : Prepares(a, n, Fresh(flag, TRUE))
    BY DEF CreateSource
<1> QED
    BY <1>2, <1>3, PrepareKeeps

LEMMA SetByHandKeeps ==
    ASSUME SrcInv, NEW a \in Admins, NEW n \in Names, SetByHand(a, n)
    PROVE  SrcInv'
<1>0. PICK flag \in BOOLEAN : Prepares(a, n, [source[n] EXCEPT !.uses_browser = flag, !.browser_manual = TRUE])
    BY DEF SetByHand
<1> DEFINE to == [source[n] EXCEPT !.uses_browser = flag, !.browser_manual = TRUE]
<1>1. source[n] \in Row /\ Fits(source[n])
    BY DEF SrcInv
<1>2. to \in Row /\ to.scripts = source[n].scripts /\ to.browser_manual
    BY <1>1 DEF Row
<1> HIDE DEF to
<1> QED
    BY <1>0, <1>1, <1>2, SameScriptsReach, PrepareKeeps DEF to

LEMMA BackToAutoKeeps ==
    ASSUME SrcInv, NEW a \in Admins, NEW n \in Names, BackToAuto(a, n)
    PROVE  SrcInv'
<1> DEFINE t == [source[n] EXCEPT !.browser_manual = FALSE]
<1>1. source[n] \in Row /\ Fits(source[n])
    BY DEF SrcInv
<1>2. t \in Row /\ t.scripts = source[n].scripts
    BY <1>1 DEF Row
<1>3. Prepares(a, n, ApplyDetection(t))
    BY DEF BackToAuto
<1> HIDE DEF t
<1>4. OneText(t) /\ Len(t.scripts) <= MaxVersions
    BY <1>1, <1>2, SameScripts DEF Fits
<1>5. Fits(ApplyDetection(t)) /\ ApplyDetection(t).scripts = source[n].scripts
    BY <1>2, <1>4, DetectionFits
<1> QED
    BY <1>1, <1>3, <1>5, SameScriptsReach, PrepareKeeps DEF Fits

LEMMA DeleteSourceKeeps ==
    ASSUME SrcInv, NEW a \in Admins, NEW n \in Names, DeleteSource(a, n)
    PROVE  SrcInv'
<1> DEFINE to == [source[n] EXCEPT !.there = FALSE]
<1>1. source[n] \in Row /\ Fits(source[n])
    BY DEF SrcInv
<1>2. /\ to \in Row /\ to.scripts = source[n].scripts
      /\ to.uses_browser = source[n].uses_browser /\ to.browser_manual = source[n].browser_manual
    BY <1>1 DEF Row
<1>3. Prepares(a, n, to)
    BY DEF DeleteSource
<1> HIDE DEF to
<1>4. to.browser_manual \/ to.uses_browser = Detected(to)
    BY <1>1, <1>2, SameScripts DEF Fits
<1> QED
    BY <1>1, <1>2, <1>3, <1>4, SameScriptsReach, PrepareKeeps

-----------------------------------------------------------------------------
LEMMA DetectedRowReaches ==
    ASSUME NEW s \in Row, NEW t \in Row, Len(s.scripts) <= Len(t.scripts), Len(t.scripts) <= MaxVersions,
           \A v \in 1..Len(s.scripts) : t.scripts[v].code = s.scripts[v].code,
           OneText(t), ActiveIn(s) # {} => ActiveIn(t) # {}
    PROVE  ApplyDetection(t) \in Row /\ Reaches(s, ApplyDetection(t))
    BY DetectionFits DEF Reaches, Fits

(* A version put behind the others. *)
LEMMA AppendedFacts ==
    ASSUME NEW s \in Row, NEW c \in Codes, NEW on \in BOOLEAN
    PROVE  LET t == [s EXCEPT !.scripts = Append(@, Version(c, on))] IN
           /\ t \in Row /\ Len(t.scripts) = Len(s.scripts) + 1
           /\ t.uses_browser = s.uses_browser /\ t.browser_manual = s.browser_manual
           /\ \A v \in 1..Len(s.scripts) : t.scripts[v] = s.scripts[v]
           /\ t.scripts[Len(s.scripts) + 1] = Version(c, on)
           /\ ActiveIn(t) = IF on THEN ActiveIn(s) \cup {Len(s.scripts) + 1} ELSE ActiveIn(s)
<1> DEFINE k == Len(s.scripts)
           q == Append(s.scripts, Version(c, on))
           t == [s EXCEPT !.scripts = q]
<1>1. Version(c, on) \in VersionRow /\ Version(c, on).active = on
    BY DEF Version, VersionRow
<1>2. s.scripts \in Seq(VersionRow) /\ k \in Nat
    BY RowFacts
<1>3. q \in Seq(VersionRow) /\ Len(q) = k + 1 /\ (\A v \in 1..k : q[v] = s.scripts[v])
      /\ q[k + 1] = Version(c, on)
    BY <1>1, <1>2, AppendProperties
<1> HIDE DEF q
<1>4. t \in Row /\ t.scripts = q /\ t.uses_browser = s.uses_browser /\ t.browser_manual = s.browser_manual
    BY <1>3 DEF Row
<1> HIDE DEF t
<1>5. ActiveIn(t) = {v \in 1..(k + 1) : q[v].active}
    BY <1>3, <1>4, RowFacts
<1>6. ActiveIn(s) = {v \in 1..k : s.scripts[v].active}
    BY RowFacts
<1> HIDE DEF k
<1>7. ActiveIn(t) = IF on THEN ActiveIn(s) \cup {k + 1} ELSE ActiveIn(s)
    <2>1. 1..(k + 1) = 1..k \cup {k + 1}
        BY <1>2
    <2>2. \A v \in 1..k : q[v].active = s.scripts[v].active
        BY <1>3
    <2>3. q[k + 1].active = on
        BY <1>1, <1>3
    <2> QED
        BY <1>5, <1>6, <2>1, <2>2, <2>3
<1> QED
    BY <1>3, <1>4, <1>7 DEF t, q, k

(* The assignment of active to every version of the loaded source. *)
LEMMA ReassignedFacts ==
    ASSUME NEW s \in Row, NEW q \in [1..Len(s.scripts) -> VersionRow],
           \A v \in 1..Len(s.scripts) : q[v].code = s.scripts[v].code
    PROVE  LET t == [s EXCEPT !.scripts = q] IN
           /\ t \in Row /\ t.scripts = q /\ Len(q) = Len(s.scripts)
           /\ t.uses_browser = s.uses_browser /\ t.browser_manual = s.browser_manual
           /\ ActiveIn(t) = {v \in 1..Len(s.scripts) : q[v].active}
<1> DEFINE k == Len(s.scripts)
           t == [s EXCEPT !.scripts = q]
<1>1. k \in Nat
    BY RowFacts
<1> HIDE DEF k
<1>2. q \in Seq(VersionRow) /\ Len(q) = k
    <2>1. q \in [1..k -> VersionRow]
        BY DEF k
    <2> QED
        BY <1>1, <2>1
<1>3. t \in Row /\ t.scripts = q /\ t.uses_browser = s.uses_browser /\ t.browser_manual = s.browser_manual
    BY <1>2 DEF Row
<1> HIDE DEF t
<1>4. ActiveIn(t) = {v \in 1..k : q[v].active}
    BY <1>2, <1>3, RowFacts
<1> QED
    BY <1>2, <1>3, <1>4 DEF t, k

LEMMA VersionFacts ==
    ASSUME NEW c \in Codes
    PROVE  /\ Version(c, TRUE) \in VersionRow /\ Version(c, TRUE).code = c /\ Version(c, TRUE).active
           /\ Version(c, FALSE) \in VersionRow /\ Version(c, FALSE).code = c /\ ~Version(c, FALSE).active
    BY DEF Version, VersionRow

LEMMA UploadScriptKeeps ==
    ASSUME SrcInv, NEW a \in Admins, NEW n \in Names, UploadScript(a, n)
    PROVE  SrcInv'
<1> DEFINE s == source[n]
           off == SetActive(s, LAMBDA v : FALSE)
<1>0. PICK c \in Codes :
        \/ Prepares(a, n, [s EXCEPT !.scripts = Append(@, Version(c, FALSE))])
        \/ Prepares(a, n, ApplyDetection([off EXCEPT !.scripts = Append(@, Version(c, TRUE))]))
    BY DEF UploadScript
<1>1. s \in Row /\ Fits(s) /\ Len(s.scripts) < MaxVersions /\ Len(s.scripts) \in Nat
    BY RowFacts DEF SrcInv, UploadScript
<1>2. CASE Prepares(a, n, [s EXCEPT !.scripts = Append(@, Version(c, FALSE))])
    <2> DEFINE t == [s EXCEPT !.scripts = Append(@, Version(c, FALSE))]
    <2>1. /\ t \in Row /\ Len(t.scripts) = Len(s.scripts) + 1
          /\ t.uses_browser = s.uses_browser /\ t.browser_manual = s.browser_manual
          /\ \A v \in 1..Len(s.scripts) : t.scripts[v] = s.scripts[v]
          /\ ActiveIn(t) = ActiveIn(s)
        BY <1>1, AppendedFacts
    <2> HIDE DEF t, s
    <2>2. ActiveIn(s) \subseteq 1..Len(s.scripts)
        BY <1>1, RowFacts
    <2>3. OneText(t) /\ Detected(t) = Detected(s)
        <3>1. \A v \in ActiveIn(s) : t.scripts[v] = s.scripts[v]
            BY <2>1, <2>2
        <3> QED
            BY <1>1, <2>1, <3>1 DEF OneText, Detected, Fits
    <2>4. Reaches(s, t)
        BY <1>1, <2>1, <2>3 DEF Reaches, Fits
    <2> QED
        BY <1>2, <2>1, <2>4, PrepareKeeps DEF t, s
<1>3. CASE Prepares(a, n, ApplyDetection([off EXCEPT !.scripts = Append(@, Version(c, TRUE))]))
    <2> DEFINE t == [off EXCEPT !.scripts = Append(@, Version(c, TRUE))]
    <2>1. off \in Row /\ Len(off.scripts) = Len(s.scripts) /\ ActiveIn(off) = {}
          /\ \A v \in 1..Len(s.scripts) : off.scripts[v].code = s.scripts[v].code
        <3> DEFINE q == [v \in DOMAIN s.scripts |-> Version(s.scripts[v].code, FALSE)]
        <3>1. off = [s EXCEPT !.scripts = q]
            BY DEF SetActive
        <3>2. \A v \in 1..Len(s.scripts) : q[v] = Version(s.scripts[v].code, FALSE) /\ s.scripts[v].code \in Codes
            BY <1>1, RowFacts DEF VersionRow
        <3>3. q = [v \in 1..Len(s.scripts) |-> q[v]]
            BY <1>1, RowFacts
        <3> HIDE DEF off, s, q
        <3>4. \A v \in 1..Len(s.scripts) : q[v] \in VersionRow /\ q[v].code = s.scripts[v].code /\ ~q[v].active
            <4> SUFFICES ASSUME NEW v \in 1..Len(s.scripts)
                         PROVE  q[v] \in VersionRow /\ q[v].code = s.scripts[v].code /\ ~q[v].active
                OBVIOUS
            <4>1. q[v] = Version(s.scripts[v].code, FALSE) /\ s.scripts[v].code \in Codes
                BY <3>2
            <4> QED
                BY ONLY <4>1, VersionFacts
        <3>5. /\ off \in Row /\ off.scripts = q /\ Len(q) = Len(s.scripts)
              /\ ActiveIn(off) = {v \in 1..Len(s.scripts) : q[v].active}
            <4>1. q \in [1..Len(s.scripts) -> VersionRow]
                BY <3>3, <3>4
            <4> QED
                BY ONLY <1>1, <3>1, <3>4, <4>1, ReassignedFacts
        <3> QED
            BY <3>4, <3>5
    <2> HIDE DEF off, s
    <2>2. /\ t \in Row /\ Len(t.scripts) = Len(s.scripts) + 1
          /\ \A v \in 1..Len(s.scripts) : t.scripts[v] = off.scripts[v]
          /\ ActiveIn(t) = {Len(s.scripts) + 1}
        <3>1. /\ t \in Row /\ Len(t.scripts) = Len(off.scripts) + 1
              /\ \A v \in 1..Len(off.scripts) : t.scripts[v] = off.scripts[v]
              /\ ActiveIn(t) = ActiveIn(off) \cup {Len(off.scripts) + 1}
            BY <2>1, AppendedFacts
        <3> HIDE DEF t
        <3> QED
            BY <2>1, <3>1
    <2> HIDE DEF t
    <2>3. ApplyDetection(t) \in Row /\ Reaches(s, ApplyDetection(t))
        <3>1. OneText(t) /\ ActiveIn(t) # {}
            BY <2>2 DEF OneText
        <3>2. \A v \in 1..Len(s.scripts) : t.scripts[v].code = s.scripts[v].code
            BY <2>1, <2>2
        <3>3. Len(s.scripts) <= Len(t.scripts) /\ Len(t.scripts) <= MaxVersions
            BY <1>1, <2>2
        <3> QED
            BY <1>1, <2>2, <3>1, <3>2, <3>3, DetectedRowReaches
    <2> QED
        BY <1>3, <2>3, PrepareKeeps DEF t, s
<1> QED
    BY <1>0, <1>2, <1>3

LEMMA ActivateScriptKeeps ==
    ASSUME SrcInv, NEW a \in Admins, NEW n \in Names, ActivateScript(a, n)
    PROVE  SrcInv'
<1> DEFINE s == source[n]
<1>0. PICK w \in DOMAIN s.scripts : Prepares(a, n, ApplyDetection(SetActive(s, LAMBDA x : x = w)))
    BY DEF ActivateScript
<1> DEFINE t == SetActive(s, LAMBDA x : x = w)
<1>1. s \in Row /\ Fits(s) /\ w \in 1..Len(s.scripts)
    BY RowFacts DEF SrcInv
<1> DEFINE q == [x \in DOMAIN s.scripts |-> Version(s.scripts[x].code, x = w)]
<1>2. /\ t = [s EXCEPT !.scripts = q] /\ q = [x \in 1..Len(s.scripts) |-> q[x]]
      /\ \A x \in 1..Len(s.scripts) : q[x] = Version(s.scripts[x].code, x = w) /\ s.scripts[x].code \in Codes
    <2>1. t = [s EXCEPT !.scripts = q]
        BY DEF SetActive
    <2>2. DOMAIN s.scripts = 1..Len(s.scripts)
        BY <1>1, RowFacts
    <2>3. q = [x \in 1..Len(s.scripts) |-> q[x]]
        BY <2>2
    <2>4. \A x \in 1..Len(s.scripts) : q[x] = Version(s.scripts[x].code, x = w)
        BY <2>2
    <2>5. \A x \in 1..Len(s.scripts) : s.scripts[x].code \in Codes
        BY <1>1, RowFacts DEF VersionRow
    <2> QED
        BY <2>1, <2>3, <2>4, <2>5
<1>3. Prepares(a, n, ApplyDetection(t))
    BY <1>0
<1> HIDE DEF t, s, q
<1>6. \A x \in 1..Len(s.scripts) : q[x] \in VersionRow /\ q[x].code = s.scripts[x].code /\ (q[x].active <=> x = w)
    <2> SUFFICES ASSUME NEW x \in 1..Len(s.scripts)
                 PROVE  q[x] \in VersionRow /\ q[x].code = s.scripts[x].code /\ (q[x].active <=> x = w)
        OBVIOUS
    <2>1. CASE x = w
        <3>1. q[x] = Version(s.scripts[x].code, TRUE)
            BY <1>2, <2>1
        <3> QED
            BY ONLY <1>2, <2>1, <3>1, VersionFacts
    <2>2. CASE x # w
        <3>1. q[x] = Version(s.scripts[x].code, FALSE)
            BY <1>2, <2>2
        <3> QED
            BY ONLY <1>2, <2>2, <3>1, VersionFacts
    <2> QED
        BY <2>1, <2>2
<1>4. /\ t \in Row /\ Len(t.scripts) = Len(s.scripts)
      /\ \A v \in 1..Len(s.scripts) : t.scripts[v].code = s.scripts[v].code
      /\ ActiveIn(t) = {w}
    <2>1. /\ t \in Row /\ t.scripts = q /\ Len(q) = Len(s.scripts)
          /\ ActiveIn(t) = {v \in 1..Len(s.scripts) : q[v].active}
        <3>1. q \in [1..Len(s.scripts) -> VersionRow]
            BY <1>2, <1>6
        <3>2. t = [s EXCEPT !.scripts = q]
            BY <1>2
        <3>3. \A v \in 1..Len(s.scripts) : q[v].code = s.scripts[v].code
            BY <1>6
        <3> QED
            BY ONLY <1>1, <3>1, <3>2, <3>3, ReassignedFacts
    <2> QED
        BY <1>1, <1>6, <2>1
<1>5. ApplyDetection(t) \in Row /\ Reaches(s, ApplyDetection(t))
    <2>1. OneText(t) /\ ActiveIn(t) # {} /\ Len(s.scripts) \in Nat
        BY <1>1, <1>4, RowFacts DEF OneText
    <2>2. Len(s.scripts) <= Len(t.scripts) /\ Len(t.scripts) <= MaxVersions
        BY <1>1, <1>4, <2>1 DEF Fits
    <2> QED
        BY <1>1, <1>4, <2>1, <2>2, DetectedRowReaches
<1> QED
    BY <1>3, <1>5, PrepareKeeps DEF s

-----------------------------------------------------------------------------
(* The versions plan() adds: not in force, and with them the source has every text of the file. *)
LEMMA NewScriptsFacts ==
    ASSUME NEW s \in Row, NEW e \in Files
    PROVE  /\ NewScripts(s, e) \in Seq(VersionRow)
           /\ \A i \in 1..Len(NewScripts(s, e)) : ~NewScripts(s, e)[i].active
           /\ \A k \in 1..Len(e.scripts) :
                  \/ \E v \in 1..Len(s.scripts) : s.scripts[v].code = e.scripts[k]
                  \/ \E i \in 1..Len(NewScripts(s, e)) : NewScripts(s, e)[i].code = e.scripts[k]
<1> DEFINE have == {s.scripts[v].code : v \in DOMAIN s.scripts}
           Is(k) == e.scripts[k] \notin have /\ \A j \in 1..(k - 1) : e.scripts[j] # e.scripts[k]
           new == {k \in DOMAIN e.scripts : Is(k)}
           Nth(i) == CHOOSE k \in new : Cardinality({j \in new : j <= k}) = i
           q == [i \in 1..Cardinality(new) |-> Version(e.scripts[Nth(i)], FALSE)]
<1>1. NewScripts(s, e) = q
    BY DEF NewScripts
<1>2. /\ Len(e.scripts) \in Nat /\ DOMAIN e.scripts = 1..Len(e.scripts)
      /\ \A k \in 1..Len(e.scripts) : e.scripts[k] \in Codes
    <2>1. e.scripts \in Seq(Codes)
        OBVIOUS
    <2> QED
        BY <2>1, ElementOfSeq
<1>3. DOMAIN s.scripts = 1..Len(s.scripts)
    BY RowFacts
<1>4. new \in SUBSET (1..Len(e.scripts))
    BY <1>2
<1>5. ASSUME NEW k \in 1..Len(e.scripts), e.scripts[k] \notin have
      PROVE  \E j \in new : e.scripts[j] = e.scripts[k]
    <2> DEFINE same == {j \in 1..Len(e.scripts) : e.scripts[j] = e.scripts[k]}
    <2>1. same \in SUBSET Nat /\ k \in same
        BY <1>2
    <2>2. PICK j \in same : \A i \in same : j <= i
        <3> HIDE DEF same
        <3> QED
            BY <2>1, LeastNatural
    <2>3. j \in 1..Len(e.scripts) /\ e.scripts[j] = e.scripts[k]
        OBVIOUS
    <2>4. \A i \in 1..(j - 1) : e.scripts[i] # e.scripts[j]
        <3> SUFFICES ASSUME NEW i \in 1..(j - 1), e.scripts[i] = e.scripts[j]
                     PROVE  FALSE
            OBVIOUS
        <3>1. i \in same /\ i < j
            BY <1>2, <2>3
        <3> QED
            BY <1>2, <2>2, <2>3, <3>1
    <2> QED
        BY <1>2, <1>5, <2>3, <2>4
<1> HIDE DEF new, have, Is
<1>6. /\ Cardinality(new) \in Nat
      /\ \A k \in new : Cardinality({j \in new : j <= k}) \in 1..Cardinality(new)
      /\ \A k, l \in new : Cardinality({j \in new : j <= k}) = Cardinality({j \in new : j <= l}) => k = l
      /\ \A i \in 1..Cardinality(new) : \E k \in new : Cardinality({j \in new : j <= k}) = i
    BY ONLY <1>2, <1>4, Ranks
<1>7. \A i \in 1..Cardinality(new) : Nth(i) \in new /\ Cardinality({j \in new : j <= Nth(i)}) = i
    BY <1>6
<1>8. \A k \in new : \E i \in 1..Cardinality(new) : Nth(i) = k
    <2> SUFFICES ASSUME NEW k \in new
                 PROVE  \E i \in 1..Cardinality(new) : Nth(i) = k
        OBVIOUS
    <2> DEFINE i == Cardinality({j \in new : j <= k})
    <2>1. i \in 1..Cardinality(new)
        BY <1>6
    <2>2. Nth(i) \in new /\ Cardinality({j \in new : j <= Nth(i)}) = i
        <3> HIDE DEF i, Nth
        <3> QED
            BY <1>7, <2>1
    <2>3. Nth(i) = k
        <3> HIDE DEF Nth
        <3> QED
            BY <1>6, <2>2
    <2> HIDE DEF i, Nth
    <2> QED
        BY <2>1, <2>3
<1> HIDE DEF Nth
<1>9. \A i \in 1..Cardinality(new) : q[i] = Version(e.scripts[Nth(i)], FALSE) /\ e.scripts[Nth(i)] \in Codes
    BY <1>2, <1>4, <1>7
<1>10. /\ q \in [1..Cardinality(new) -> VersionRow]
       /\ \A i \in 1..Cardinality(new) : ~q[i].active /\ q[i].code = e.scripts[Nth(i)]
    <2> SUFFICES ASSUME NEW i \in 1..Cardinality(new)
                 PROVE  Version(e.scripts[Nth(i)], FALSE) \in VersionRow /\ ~q[i].active
                        /\ q[i].code = e.scripts[Nth(i)]
        OBVIOUS
    <2>1. q[i] = Version(e.scripts[Nth(i)], FALSE) /\ e.scripts[Nth(i)] \in Codes
        BY <1>9
    <2> HIDE DEF q
    <2> QED
        BY <2>1, VersionFacts
<1> HIDE DEF q
<1>11. q \in Seq(VersionRow) /\ Len(q) = Cardinality(new)
    BY <1>6, <1>10
<1>12. ASSUME NEW k \in 1..Len(e.scripts)
       PROVE  \/ \E v \in 1..Len(s.scripts) : s.scripts[v].code = e.scripts[k]
              \/ \E i \in 1..Len(q) : q[i].code = e.scripts[k]
    <2>1. CASE e.scripts[k] \in have
        BY <1>3, <2>1 DEF have
    <2>2. CASE e.scripts[k] \notin have
        <3>1. PICK j \in new : e.scripts[j] = e.scripts[k]
            BY <1>5, <2>2
        <3>2. PICK i \in 1..Cardinality(new) : Nth(i) = j
            BY <1>8
        <3> QED
            BY <1>10, <1>11, <3>1, <3>2
    <2> QED
        BY <2>1, <2>2
<1> QED
    BY <1>1, <1>10, <1>11, <1>12

(* What a list of new versions has to be for the import of e into s. *)
Brings(s, e, new) ==
    /\ new \in Seq(VersionRow)
    /\ Len(s.scripts) + Len(new) <= MaxVersions
    /\ \A i \in 1..Len(new) : ~new[i].active
    /\ \A k \in 1..Len(e.scripts) :
           \/ \E v \in 1..Len(s.scripts) : s.scripts[v].code = e.scripts[k]
           \/ \E i \in 1..Len(new) : new[i].code = e.scripts[k]

(* What both imports make of a source: the new versions behind its own, those with the file's    *)
(* active text in force, and the flag of the file or of the detection.                           *)
LEMMA ImportReaches ==
    ASSUME NEW s \in Row, Fits(s), NEW e \in Files, NEW new, Brings(s, e, new)
    PROVE  Import(s, e, new) \in Row /\ Reaches(s, Import(s, e, new))
<1>0. /\ new \in Seq(VersionRow) /\ Len(s.scripts) + Len(new) <= MaxVersions
      /\ \A i \in 1..Len(new) : ~new[i].active
      /\ \A j \in 1..Len(e.scripts) :
             \/ \E v \in 1..Len(s.scripts) : s.scripts[v].code = e.scripts[j]
             \/ \E i \in 1..Len(new) : new[i].code = e.scripts[j]
    BY DEF Brings
<1> DEFINE k == Len(s.scripts)
           m == Len(new)
           with == [s EXCEPT !.there = TRUE, !.scripts = @ \o new]
           marked == SetActive(with, LAMBDA v : with.scripts[v].code = e.active)
           chosen == IF e.scripts = <<>> THEN with ELSE marked
<1>1. k \in Nat /\ m \in Nat /\ s.scripts \in Seq(VersionRow) /\ ActiveIn(s) = {v \in 1..k : s.scripts[v].active}
    BY <1>0, RowFacts
<1>2. /\ s.scripts \o new \in Seq(VersionRow) /\ Len(s.scripts \o new) = k + m
      /\ \A v \in 1..(k + m) : (s.scripts \o new)[v] = IF v <= k THEN s.scripts[v] ELSE new[v - k]
    BY <1>0, <1>1, ConcatProperties
<1>3. /\ with \in Row /\ with.scripts = s.scripts \o new
      /\ with.uses_browser = s.uses_browser /\ with.browser_manual = s.browser_manual
    BY <1>2 DEF Row
<1> HIDE DEF with, k, m
<1>4. /\ Len(with.scripts) = k + m
      /\ \A v \in 1..k : with.scripts[v] = s.scripts[v]
      /\ \A i \in 1..m : with.scripts[k + i] = new[i] /\ k + i \in 1..(k + m)
      /\ \A v \in 1..(k + m) : v \in 1..k \/ (v - k \in 1..m /\ v = k + (v - k))
    <2>1. 1..k \subseteq 1..(k + m) /\ \A v \in 1..k : v <= k
        BY <1>1
    <2>2. \A v \in 1..k : with.scripts[v] = s.scripts[v]
        BY <1>2, <1>3, <2>1
    <2>3. \A i \in 1..m : k + i \in 1..(k + m) /\ ~(k + i <= k) /\ (k + i) - k = i
        BY <1>1
    <2>4. \A i \in 1..m : with.scripts[k + i] = new[i]
        <3> SUFFICES ASSUME NEW i \in 1..m
                     PROVE  with.scripts[k + i] = new[i]
            OBVIOUS
        <3>1. with.scripts[k + i] = IF k + i <= k THEN s.scripts[k + i] ELSE new[(k + i) - k]
            BY <1>2, <1>3, <2>3
        <3> QED
            BY <2>3, <3>1
    <2>5. \A v \in 1..(k + m) : v \in 1..k \/ (v - k \in 1..m /\ v = k + (v - k))
        BY <1>1
    <2> QED
        BY <1>2, <1>3, <2>2, <2>3, <2>4, <2>5
<1>5. ActiveIn(with) = ActiveIn(s)
    <2>1. ActiveIn(with) = {v \in 1..(k + m) : with.scripts[v].active}
        BY <1>3, <1>4, RowFacts
    <2>2. \A i \in 1..m : ~with.scripts[k + i].active
        BY <1>0, <1>4 DEF m
    <2>3. \A v \in 1..(k + m) : with.scripts[v].active => v \in 1..k
        BY <1>4, <2>2
    <2>4. 1..k \subseteq 1..(k + m)
        BY <1>1
    <2> QED
        BY <1>1, <1>4, <2>1, <2>3, <2>4
<1>6. OneText(with)
    <2>1. \A v \in ActiveIn(s) : with.scripts[v] = s.scripts[v]
        BY <1>1, <1>4
    <2> QED
        BY <1>5, <2>1 DEF OneText, Fits
<1>7. ASSUME e.scripts # <<>>
      PROVE  /\ marked \in Row /\ Len(marked.scripts) = k + m /\ OneText(marked) /\ ActiveIn(marked) # {}
             /\ \A v \in 1..(k + m) : marked.scripts[v].code = with.scripts[v].code
    <2> DEFINE q == [v \in DOMAIN with.scripts |->
                        Version(with.scripts[v].code, with.scripts[v].code = e.active)]
    <2>1. marked = [with EXCEPT !.scripts = q]
        BY DEF SetActive
    <2>2. DOMAIN with.scripts = 1..(k + m) /\ \A v \in 1..(k + m) : with.scripts[v].code \in Codes
        BY <1>3, <1>4, RowFacts DEF VersionRow
    <2>3. q = [v \in 1..(k + m) |-> q[v]]
        BY <2>2
    <2>4. ASSUME NEW v \in 1..(k + m)
          PROVE  q[v] \in VersionRow /\ q[v].code = with.scripts[v].code
                 /\ (q[v].active <=> with.scripts[v].code = e.active)
        <3>1. q[v] = Version(with.scripts[v].code, with.scripts[v].code = e.active)
            BY <2>2
        <3> HIDE DEF q
        <3>4. with.scripts[v].code \in Codes
            BY <2>2
        <3>2. CASE with.scripts[v].code = e.active
            <4>1. q[v] = Version(with.scripts[v].code, TRUE)
                BY <3>1, <3>2
            <4> QED
                BY <3>2, <3>4, <4>1, VersionFacts
        <3>3. CASE with.scripts[v].code # e.active
            <4>1. q[v] = Version(with.scripts[v].code, FALSE)
                BY <3>1, <3>3
            <4> QED
                BY <3>3, <3>4, <4>1, VersionFacts
        <3> QED
            BY <3>2, <3>3
    <2> HIDE DEF q, marked
    <2>5. q \in [1..(k + m) -> VersionRow]
        BY <2>3, <2>4
    <2>6. /\ marked \in Row /\ marked.scripts = q /\ Len(q) = k + m
          /\ ActiveIn(marked) = {v \in 1..(k + m) : q[v].active}
        <3>1. q \in [1..Len(with.scripts) -> VersionRow]
            BY <1>4, <2>5
        <3>2. \A v \in 1..Len(with.scripts) : q[v].code = with.scripts[v].code
            BY <1>4, <2>4
        <3>3. /\ marked \in Row /\ marked.scripts = q /\ Len(q) = Len(with.scripts)
              /\ ActiveIn(marked) = {v \in 1..Len(with.scripts) : q[v].active}
            BY ONLY <1>3, <2>1, <3>1, <3>2, ReassignedFacts
        <3> QED
            BY <1>4, <3>3
    <2>7. OneText(marked)
        BY <2>4, <2>6 DEF OneText
    <2>8. ActiveIn(marked) # {}
        <3>1. PICK j \in 1..Len(e.scripts) : e.scripts[j] = e.active
            <4>1. e.scripts \in Seq(Codes) /\ \E j \in DOMAIN e.scripts : e.scripts[j] = e.active
                BY <1>7
            <4>2. DOMAIN e.scripts = 1..Len(e.scripts)
                BY <4>1, LenProperties
            <4> QED
                BY <4>1, <4>2
        <3>2. \E v \in 1..(k + m) : with.scripts[v].code = e.scripts[j]
            <4>1. CASE \E v \in 1..k : s.scripts[v].code = e.scripts[j]
                <5>1. 1..k \subseteq 1..(k + m)
                    BY <1>1
                <5> QED
                    BY <1>4, <4>1, <5>1
            <4>2. CASE \E i \in 1..m : new[i].code = e.scripts[j]
                BY <1>4, <4>2
            <4> QED
                BY <1>0, <4>1, <4>2 DEF k, m
        <3> QED
            BY <2>4, <2>6, <3>1, <3>2
    <2> QED
        BY <2>4, <2>6, <2>7, <2>8
<1>8. /\ chosen \in Row /\ Len(chosen.scripts) = k + m /\ OneText(chosen)
      /\ \A v \in 1..k : chosen.scripts[v].code = s.scripts[v].code
      /\ ActiveIn(s) # {} => ActiveIn(chosen) # {}
    <2>1. CASE e.scripts = <<>>
        BY <1>3, <1>4, <1>5, <1>6, <2>1
    <2>2. CASE e.scripts # <<>>
        <3>1. chosen = marked
            BY <2>2
        <3> HIDE DEF chosen, marked
        <3>2. 1..k \subseteq 1..(k + m)
            BY <1>1
        <3>3. \A v \in 1..k : marked.scripts[v].code = s.scripts[v].code
            BY <1>4, <1>7, <2>2, <3>2
        <3> QED
            BY <1>7, <2>2, <3>1, <3>3
    <2> QED
        BY <2>1, <2>2
<1>9. Import(s, e, new) = IF e.browser_manual
                          THEN [chosen EXCEPT !.uses_browser = e.uses_browser, !.browser_manual = TRUE]
                          ELSE ApplyDetection(chosen)
    BY DEF Import, with
<1> HIDE DEF chosen, marked
<1>10. CASE e.browser_manual
    <2> DEFINE t == [chosen EXCEPT !.uses_browser = e.uses_browser, !.browser_manual = TRUE]
    <2>1. t \in Row /\ t.scripts = chosen.scripts /\ t.browser_manual
        <3>1. e.uses_browser \in BOOLEAN
            OBVIOUS
        <3> QED
            BY <1>8, <3>1 DEF Row
    <2>2. Import(s, e, new) = t
        BY <1>9, <1>10
    <2> HIDE DEF t
    <2>3. OneText(t) /\ ActiveIn(t) = ActiveIn(chosen)
        BY <1>8, <2>1, SameScripts
    <2>4. k <= k + m /\ k + m <= MaxVersions
        BY <1>0, <1>1 DEF k, m
    <2> QED
        BY <1>8, <2>1, <2>2, <2>3, <2>4 DEF Reaches, Fits, k
<1>11. CASE ~e.browser_manual
    <2>1. k <= k + m /\ k + m <= MaxVersions
        BY <1>0, <1>1 DEF k, m
    <2>2. Len(s.scripts) <= Len(chosen.scripts) /\ Len(chosen.scripts) <= MaxVersions
        BY <1>8, <2>1 DEF k
    <2>3. \A v \in 1..Len(s.scripts) : chosen.scripts[v].code = s.scripts[v].code
        BY <1>8 DEF k
    <2>4. ApplyDetection(chosen) \in Row /\ Reaches(s, ApplyDetection(chosen))
        BY <1>8, <2>2, <2>3, DetectedRowReaches
    <2> QED
        BY <1>9, <1>11, <2>4
<1> QED
    BY <1>10, <1>11

LEMMA ImportUpdateKeeps ==
    ASSUME SrcInv, NEW a \in Admins, ImportUpdate(a)
    PROVE  SrcInv'
<1>1. PICK e \in Files : /\ Len(source[1].scripts) + Len(NewScripts(source[1], e)) <= MaxVersions
                          /\ Prepares(a, 1, Import(source[1], e, NewScripts(source[1], e)))
    BY DEF ImportUpdate
<1>2. 1 \in Names
    OBVIOUS
<1>3. source[1] \in Row /\ Fits(source[1])
    BY <1>2 DEF SrcInv
<1>4. /\ NewScripts(source[1], e) \in Seq(VersionRow)
      /\ \A i \in 1..Len(NewScripts(source[1], e)) : ~NewScripts(source[1], e)[i].active
      /\ \A k \in 1..Len(e.scripts) :
             \/ \E v \in 1..Len(source[1].scripts) : source[1].scripts[v].code = e.scripts[k]
             \/ \E i \in 1..Len(NewScripts(source[1], e)) : NewScripts(source[1], e)[i].code = e.scripts[k]
    BY <1>3, NewScriptsFacts
<1> DEFINE to == Import(source[1], e, NewScripts(source[1], e))
<1>5. to \in Row /\ Reaches(source[1], to)
    <2>1. Brings(source[1], e, NewScripts(source[1], e))
        BY <1>1, <1>4 DEF Brings
    <2> QED
        BY <1>3, <2>1, ImportReaches
<1> HIDE DEF to
<1> QED
    BY <1>1, <1>2, <1>5, PrepareKeeps DEF to

LEMMA ImportCreateKeeps ==
    ASSUME SrcInv, NEW a \in Admins, ImportCreate(a)
    PROVE  SrcInv'
<1>1. PICK n \in Names, e \in Files : /\ n \notin {x \in Names : source[x].there}
                                      /\ Prepares(a, n, Import(NoSource, e, AllNew(e)))
    BY DEF ImportCreate
<1>2. source[n] = NoSource
    BY <1>1 DEF SrcInv
<1>3. /\ Len(e.scripts) \in Nat /\ DOMAIN e.scripts = 1..Len(e.scripts) /\ Len(e.scripts) <= MaxVersions
      /\ \A k \in 1..Len(e.scripts) : e.scripts[k] \in Codes
    <2>1. e.scripts \in Seq(Codes)
        OBVIOUS
    <2> QED
        BY <2>1, ElementOfSeq
<1> DEFINE new == AllNew(e)
<1>4. /\ new = [k \in 1..Len(e.scripts) |-> new[k]]
      /\ \A k \in 1..Len(e.scripts) : new[k] = Version(e.scripts[k], FALSE)
    BY <1>3 DEF AllNew
<1> HIDE DEF new
<1>5. \A k \in 1..Len(e.scripts) : new[k] \in VersionRow /\ new[k].code = e.scripts[k] /\ ~new[k].active
    <2> SUFFICES ASSUME NEW k \in 1..Len(e.scripts)
                 PROVE  new[k] \in VersionRow /\ new[k].code = e.scripts[k] /\ ~new[k].active
        OBVIOUS
    <2>1. new[k] = Version(e.scripts[k], FALSE) /\ e.scripts[k] \in Codes
        BY <1>3, <1>4
    <2> QED
        BY <2>1, VersionFacts
<1>6. new \in Seq(VersionRow) /\ Len(new) = Len(e.scripts)
    <2>1. new \in [1..Len(e.scripts) -> VersionRow]
        BY <1>4, <1>5
    <2> QED
        BY <1>3, <2>1
<1>7. Import(NoSource, e, new) \in Row /\ Reaches(NoSource, Import(NoSource, e, new))
    <2>1. Len(NoSource.scripts) + Len(new) <= MaxVersions
        BY <1>3, <1>6, NothingThere
    <2>2. \A i \in 1..Len(new) : ~new[i].active
        BY <1>5, <1>6
    <2>3. \A k \in 1..Len(e.scripts) : \E i \in 1..Len(new) : new[i].code = e.scripts[k]
        BY <1>5, <1>6
    <2>4. Brings(NoSource, e, new)
        BY <1>6, <2>1, <2>2, <2>3 DEF Brings
    <2> QED
        BY <2>4, NothingThere, ImportReaches
<1> DEFINE to == Import(NoSource, e, new)
<1>8. to \in Row /\ Reaches(source[n], to)
    BY <1>2, <1>7
<1>9. Prepares(a, n, to)
    BY <1>1 DEF new
<1> HIDE DEF to
<1> QED
    BY <1>8, <1>9, PrepareKeeps

-----------------------------------------------------------------------------
Replaced(n, r) ==
    /\ source' = [source EXCEPT ![n] = r]
    /\ r = NoSource \/ (r.there /\ Reaches(source[n], r))

(* One source at most changes: to what the request meant, or it goes with its versions. *)
LEMMA CommitEffect ==
    ASSUME SrcInv, OneRequest, NEW a \in Admins, Commit(a)
    PROVE  /\ pending' = [b \in Admins |-> NoWrite]
           /\ source' = source \/ \E n \in Names, r \in Row : Replaced(n, r)
<1> DEFINE w == pending[a]
<1>1. w # NoWrite
    BY DEF Commit, Idle
<1>2. PICK n \in Names, to \in Row : Reaches(source[n], to) /\ w = Diff(n, source[n], to)
    BY <1>1 DEF SrcInv, Holds
<1>3. w.name = n /\ w.gone = ~to.there
    BY <1>2 DEF Diff
<1>4. source[n] \in Row /\ source \in [Names -> Row]
    BY DEF SrcInv
<1>5. \A b \in Admins : b = a
    BY DEF OneRequest
<1>6. CASE ~Accepted(w)
    <2>1. source' = source /\ pending' = [pending EXCEPT ![a] = NoWrite]
        BY <1>6 DEF Commit
    <2>2. pending' = [b \in Admins |-> NoWrite]
        BY <1>5, <2>1 DEF SrcInv
    <2> QED
        BY <2>1, <2>2
<1>7. CASE Accepted(w)
    <2>1. /\ source' = [source EXCEPT ![w.name] = IF w.gone THEN NoSource ELSE Written(@, w)]
          /\ pending' = [b \in Admins |-> IF b = a \/ (w.gone /\ pending[b].name = w.name)
                                          THEN NoWrite ELSE pending[b]]
        BY <1>7 DEF Commit
    <2>2. pending' = [b \in Admins |-> NoWrite]
        BY <1>5, <2>1
    <2>3. CASE w.gone
        <3>1. source' = [source EXCEPT ![n] = NoSource]
            BY <1>3, <2>1, <2>3
        <3> QED
            BY <2>2, <3>1, NothingThere DEF Replaced
    <2>4. CASE ~w.gone
        <3>1. source' = [source EXCEPT ![n] = Written(source[n], w)]
            BY <1>3, <2>1, <2>4
        <3>2. to.there
            BY <1>3, <2>4
        <3>3. Written(source[n], w) = to
            BY <1>2, <1>4, <3>2, RoundTrip
        <3> QED
            BY <1>2, <2>2, <3>1, <3>2, <3>3 DEF Replaced
    <2> QED
        BY <2>3, <2>4
<1> QED
    BY <1>6, <1>7

LEMMA CommitKeeps ==
    ASSUME SrcInv, OneRequest, NEW a \in Admins, Commit(a)
    PROVE  SrcInv'
<1>1. pending' = [b \in Admins |-> NoWrite]
    BY CommitEffect
<1>2. pending' = [b \in Admins |-> pending'[b]] /\ \A b \in Admins : pending'[b] = NoWrite
    BY <1>1
<1>3. CASE source' = source
    BY <1>2, <1>3 DEF SrcInv
<1>4. CASE source' # source
    <2>0. PICK n \in Names, r \in Row : Replaced(n, r)
        BY <1>4, CommitEffect
    <2>1. source' = [source EXCEPT ![n] = r] /\ (r = NoSource \/ (r.there /\ Reaches(source[n], r)))
        BY <2>0 DEF Replaced
    <2>2. source \in [Names -> Row]
        BY DEF SrcInv
    <2>3. source' \in [Names -> Row] /\ source'[n] = r /\ \A x \in Names : x # n => source'[x] = source[x]
        BY <2>1, <2>2
    <2>4. Fits(r) /\ (~r.there => r = NoSource)
        BY <2>1, NothingThere DEF Reaches
    <2>5. \A x \in Names : Fits(source'[x]) /\ (~source'[x].there => source'[x] = NoSource)
        BY <2>3, <2>4 DEF SrcInv
    <2>6. \A x \in Names : (Fits(source[x]))' <=> Fits(source'[x])
        BY DEF Fits, Row, OneText, ActiveIn, Detected
    <2> QED
        BY <1>2, <2>3, <2>5, <2>6 DEF SrcInv
<1> QED
    BY <1>3, <1>4

LEMMA RestartKeeps ==
    ASSUME SrcInv, RestartServer
    PROVE  SrcInv'
<1>1. /\ source' = [n \in Names |-> IF source[n].there THEN ApplyDetection(source[n]) ELSE NoSource]
      /\ pending' = [a \in Admins |-> NoWrite]
    BY DEF RestartServer
<1>2. pending' = [b \in Admins |-> pending'[b]] /\ \A b \in Admins : pending'[b] = NoWrite
    BY <1>1
<1>3. ASSUME NEW n \in Names
      PROVE  source'[n] \in Row /\ Fits(source'[n]) /\ (~source'[n].there => source'[n] = NoSource)
    <2>1. source[n] \in Row /\ Fits(source[n])
        BY DEF SrcInv
    <2>2. CASE source[n].there
        <3>1. source'[n] = ApplyDetection(source[n])
            BY <1>1, <2>2
        <3>2. /\ Fits(ApplyDetection(source[n])) /\ ApplyDetection(source[n]).there = source[n].there
            BY <2>1, DetectionFits DEF Fits
        <3> QED
            BY <2>2, <3>1, <3>2 DEF Fits
    <2>3. CASE ~source[n].there
        BY <1>1, <2>3, NothingThere
    <2> QED
        BY <2>2, <2>3
<1>4. source' \in [Names -> Row]
    <2>1. source' = [n \in Names |-> source'[n]]
        BY <1>1
    <2> QED
        BY <1>3, <2>1
<1> QED
    BY <1>2, <1>3, <1>4 DEF SrcInv

LEMMA SourcesStart ==
    ASSUME SourcesInit
    PROVE  SrcInv
    BY NothingThere DEF SourcesInit, SrcInv

LEMMA SourcesStep ==
    ASSUME SrcInv, OneRequest, [SourcesNext]_sourceVars
    PROVE  SrcInv'
<1>1. CASE UNCHANGED sourceVars
    BY <1>1 DEF sourceVars, SrcInv, Holds
<1>2. CASE \E a \in Admins : Commit(a) \/ ImportUpdate(a) \/ ImportCreate(a)
    BY <1>2, CommitKeeps, ImportUpdateKeeps, ImportCreateKeeps
<1>3. CASE \E a \in Admins, n \in Names :
               \/ CreateSource(a, n) \/ SetByHand(a, n) \/ BackToAuto(a, n) \/ DeleteSource(a, n)
               \/ UploadScript(a, n) \/ ActivateScript(a, n)
    BY <1>3, CreateSourceKeeps, SetByHandKeeps, BackToAutoKeeps, DeleteSourceKeeps, UploadScriptKeeps,
       ActivateScriptKeeps
<1>4. CASE RestartServer
    BY <1>4, RestartKeeps
<1> QED
    BY <1>1, <1>2, <1>3, <1>4 DEF SourcesNext

(* routers/admin.py, sourcexfer.py: whatever is created, uploaded, activated, imported or        *)
(* deleted, every row is a source with its versions, and what a commit writes is well formed.    *)
THEOREM RowsAreTyped ==
    ASSUME OneRequest
    PROVE  SourcesSpec => []SourcesTypeOK
<1>1. SourcesInit => SrcInv
    BY SourcesStart
<1>2. SrcInv /\ [SourcesNext]_sourceVars => SrcInv'
    BY SourcesStep
<1>3. SrcInv => SourcesTypeOK
    BY DEF SrcInv, SourcesTypeOK, Fits, Row, VersionRow
<1> QED
    BY <1>1, <1>2, <1>3, PTL DEF SourcesSpec

(* browserflag.py: the flag BrowserSlots count by is what the script in force says, unless an    *)
(* admin set it by hand, after every sequence of requests made one at a time.                    *)
THEOREM FlagsFollow ==
    ASSUME OneRequest
    PROVE  SourcesSpec => []FlagFollowsScript
<1>1. SourcesInit => SrcInv
    BY SourcesStart
<1>2. SrcInv /\ [SourcesNext]_sourceVars => SrcInv'
    BY SourcesStep
<1>3. SrcInv => FlagFollowsScript
    <2> SUFFICES ASSUME SrcInv, NEW n \in Names, ~source[n].browser_manual
                 PROVE  /\ source[n].uses_browser = Detected(source[n])
                        /\ \A v \in ActiveIn(source[n]) :
                               (source[n].scripts[v].code \in Browser) = source[n].uses_browser
        BY DEF FlagFollowsScript
    <2>1. source[n] \in Row /\ OneText(source[n]) /\ source[n].uses_browser = Detected(source[n])
        BY DEF SrcInv, Fits
    <2> QED
        BY <2>1, DetectedSpeaks
<1> QED
    BY <1>1, <1>2, <1>3, PTL DEF SourcesSpec

(* resolver._run joins on the active versions: no request takes the last one from a source that  *)
(* has one, so none drops out of every search in silence.                                        *)
THEOREM ScriptsAreKept ==
    ASSUME OneRequest
    PROVE  SourcesSpec => ScriptKept
<1> DEFINE Keeps == \A n \in Names : ActiveIn(source[n]) # {} /\ source'[n].there => ActiveIn(source'[n]) # {}
<1>1. SourcesInit => SrcInv
    BY SourcesStart
<1>2. SrcInv /\ [SourcesNext]_sourceVars => SrcInv'
    BY SourcesStep
<1>3. SrcInv /\ [SourcesNext]_sourceVars => [Keeps]_sourceVars
    <2> SUFFICES ASSUME SrcInv, SourcesNext, NEW n \in Names, ActiveIn(source[n]) # {}, source'[n].there
                 PROVE  ActiveIn(source'[n]) # {}
        OBVIOUS
    <2>1. CASE source' = source
        BY <2>1
    <2>2. CASE \E a \in Admins : Commit(a)
        <3>1. CASE \E m \in Names, r \in Row : Replaced(m, r)
            <4>1. PICK m \in Names, r \in Row : Replaced(m, r)
                BY <3>1
            <4>2. source' = [source EXCEPT ![m] = r] /\ (r = NoSource \/ (r.there /\ Reaches(source[m], r)))
                BY <4>1 DEF Replaced
            <4>3. source \in [Names -> Row]
                BY DEF SrcInv
            <4>4. CASE n = m
                <5>1. source'[n] = r
                    BY <4>2, <4>3, <4>4
                <5>2. ~NoSource.there
                    BY DEF NoSource
                <5> QED
                    BY <4>2, <4>4, <5>1, <5>2 DEF Reaches
            <4>5. CASE n # m
                <5>1. source'[n] = source[n]
                    BY <4>2, <4>3, <4>5
                <5> QED
                    BY <5>1
            <4> QED
                BY <4>4, <4>5
        <3> QED
            BY <2>1, <2>2, <3>1, CommitEffect
    <2>3. CASE RestartServer
        <3>1. source'[n] = IF source[n].there THEN ApplyDetection(source[n]) ELSE NoSource
            BY <2>3 DEF RestartServer
        <3>2. source'[n] = ApplyDetection(source[n])
            BY <3>1 DEF NoSource
        <3> QED
            BY <3>2, DetectionFits DEF SrcInv, Fits
    <2> QED
        BY <2>1, <2>2, <2>3 DEF SourcesNext, CreateSource, SetByHand, BackToAuto, DeleteSource, UploadScript,
           ActivateScript, ImportUpdate, ImportCreate, Prepares
<1> QED
    BY <1>1, <1>2, <1>3, PTL DEF SourcesSpec, ScriptKept
=============================================================================
