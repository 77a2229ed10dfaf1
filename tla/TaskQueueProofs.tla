-------------------------- MODULE TaskQueueProofs ---------------------------
(***************************************************************************)
(* Theorems about TaskQueue.tla, for any set of tasks and any limits.      *)
(***************************************************************************)
EXTENDS TaskQueue, TLAPS, FiniteSetTheorems, SequenceTheorems

-----------------------------------------------------------------------------
(* What the helpers on sequences return *)

(* A nonempty set of numbers has a least element. *)
LEMMA LeastElement ==
    ASSUME NEW P \in SUBSET Nat, P # {}
    PROVE  \E i \in P : \A j \in P : i <= j
<1>1. IsWellFoundedOn(OpToRel(<, Nat), Nat)
    BY NatLessThanWellFounded
<1>2. PICK i \in P : \A j \in P : ~ (<<j, i>> \in OpToRel(<, Nat))
    BY <1>1, WFMin
<1>3. OpToRel(<, Nat) = {ss \in Nat \X Nat : ss[1] < ss[2]}
    BY DEF OpToRel
<1>4. ASSUME NEW j \in P
      PROVE  i <= j
    <2>1. ~ (<<j, i>> \in {ss \in Nat \X Nat : ss[1] < ss[2]})
        BY <1>2, <1>3, Zenon
    <2>2. i \in Nat /\ j \in Nat
        OBVIOUS
    <2>3. <<j, i>> \in Nat \X Nat
        BY <2>2
    <2>4. ~ (j < i)
        BY <2>1, <2>3
    <2> QED BY <2>2, <2>4
<1> QED BY <1>4

Listed(s, t) == \E i \in 1..Len(s) : s[i] = t

OneEach(s) == \A i, j \in 1..Len(s) : s[i] = s[j] => i = j

(* What list.append adds: one element, behind all the others. *)
LEMMA AppendOrder ==
    ASSUME NEW S, NEW s \in Seq(S), NEW x \in S
    PROVE  /\ \A t : Listed(Append(s, x), t) <=> Listed(s, t) \/ t = x
           /\ \A u, t : Comes(Append(s, x), u, t) <=> Comes(s, u, t) \/ (t = x /\ Listed(s, u))
           /\ OneEach(s) /\ ~ Listed(s, x) => OneEach(Append(s, x))
<1> DEFINE a == Append(s, x)
<1>1. /\ Len(s) \in Nat
      /\ Len(a) = Len(s) + 1
      /\ \A i \in 1..Len(s) : a[i] = s[i]
      /\ a[Len(s) + 1] = x
    BY LenProperties, AppendProperties
<1> HIDE DEF a
<1>2. \A i \in 1..Len(a) : i \in 1..Len(s) \/ i = Len(s) + 1
    BY <1>1
<1>3. \A i \in 1..Len(s) : i \in 1..Len(a) /\ Len(s) + 1 \in 1..Len(a) /\ i < Len(s) + 1
    BY <1>1
<1>4. Len(s) + 1 \in 1..Len(a)
    BY <1>1
<1>5. ASSUME NEW t
      PROVE  Listed(a, t) <=> Listed(s, t) \/ t = x
    BY <1>1, <1>2, <1>3, <1>4 DEF Listed
<1>6. ASSUME NEW u, NEW t
      PROVE  Comes(a, u, t) <=> Comes(s, u, t) \/ (t = x /\ Listed(s, u))
    <2>1. ASSUME Comes(a, u, t)
          PROVE  Comes(s, u, t) \/ (t = x /\ Listed(s, u))
        <3>1. PICK i, j \in 1..Len(a) : i < j /\ a[i] = u /\ a[j] = t
            BY <2>1 DEF Comes
        <3>2. i \in 1..Len(s) /\ a[i] = s[i]
            BY <3>1, <1>1
        <3>3. CASE j \in 1..Len(s)
            BY <3>1, <3>2, <3>3, <1>1 DEF Comes
        <3>4. CASE j = Len(s) + 1
            BY <3>1, <3>2, <3>4, <1>1 DEF Listed
        <3> QED BY <3>3, <3>4, <1>2
    <2>2. ASSUME Comes(s, u, t)
          PROVE  Comes(a, u, t)
        BY <2>2, <1>1, <1>3 DEF Comes
    <2>3. ASSUME t = x, Listed(s, u)
          PROVE  Comes(a, u, t)
        BY <2>3, <1>1, <1>3 DEF Comes, Listed
    <2> QED BY <2>1, <2>2, <2>3
<1>7. ASSUME OneEach(s), ~ Listed(s, x)
      PROVE  OneEach(a)
    <2> SUFFICES ASSUME NEW i \in 1..Len(a), NEW j \in 1..Len(a), a[i] = a[j]
                 PROVE  i = j
        BY DEF OneEach
    <2>1. \A k \in 1..Len(s) : a[k] = s[k] /\ s[k] # x
        BY <1>1, <1>7 DEF Listed
    <2> QED BY <1>1, <1>2, <1>7, <2>1 DEF OneEach
<1> QED BY <1>5, <1>6, <1>7 DEF a

(* What is left when the front is served. *)
LEMMA TailOrder ==
    ASSUME NEW S, NEW s \in Seq(S), s # <<>>, OneEach(s)
    PROVE  LET h == Head(s)
           IN  /\ Listed(s, h)
               /\ \A t : Listed(Tail(s), t) <=> Listed(s, t) /\ t # h
               /\ \A u, t : u # h => (Comes(Tail(s), u, t) <=> Comes(s, u, t))
               /\ \A u, t : Comes(Tail(s), u, t) => u # h /\ t # h
               /\ \A t : Comes(s, h, t) <=> Listed(s, t) /\ t # h
               /\ \A u : ~ Comes(s, u, h)
               /\ OneEach(Tail(s))
<1> DEFINE h == Head(s)
           r == Tail(s)
<1>1. /\ Len(s) \in Nat
      /\ Len(s) >= 1
      /\ Len(r) = Len(s) - 1
      /\ h = s[1]
      /\ \A i \in 1..Len(r) : r[i] = s[i + 1]
    BY HeadTailProperties, LenProperties, EmptySeq
<1> HIDE DEF h, r
<1>2. \A i \in 1..Len(r) : i + 1 \in 1..Len(s) /\ i + 1 # 1
    BY <1>1
<1>3. \A i \in 1..Len(s) : i # 1 => i - 1 \in 1..Len(r) /\ r[i - 1] = s[i]
    BY <1>1
<1>4. 1 \in 1..Len(s) /\ \A i \in 1..Len(s) : s[i] = h <=> i = 1
    BY <1>1 DEF OneEach
<1>5. ASSUME NEW t
      PROVE  Listed(r, t) <=> Listed(s, t) /\ t # h
    <2>1. ASSUME Listed(r, t)
          PROVE  Listed(s, t) /\ t # h
        <3>1. PICK i \in 1..Len(r) : r[i] = t
            BY <2>1 DEF Listed
        <3>2. i + 1 \in 1..Len(s) /\ i + 1 # 1 /\ s[i + 1] = t
            BY <3>1, <1>1, <1>2
        <3> QED BY <3>2, <1>4 DEF Listed
    <2>2. ASSUME Listed(s, t), t # h
          PROVE  Listed(r, t)
        <3>1. PICK i \in 1..Len(s) : s[i] = t
            BY <2>2 DEF Listed
        <3> QED BY <3>1, <2>2, <1>3, <1>4 DEF Listed
    <2> QED BY <2>1, <2>2
<1>6. ASSUME NEW u, NEW t, Comes(r, u, t)
      PROVE  Comes(s, u, t) /\ u # h /\ t # h
    <2>1. PICK i, j \in 1..Len(r) : i < j /\ r[i] = u /\ r[j] = t
        BY <1>6 DEF Comes
    <2>2. /\ i + 1 \in 1..Len(s) /\ j + 1 \in 1..Len(s)
          /\ i + 1 < j + 1
          /\ s[i + 1] = u /\ s[j + 1] = t
          /\ i + 1 # 1 /\ j + 1 # 1
        BY <2>1, <1>1, <1>2
    <2> QED BY <2>2, <1>4 DEF Comes
<1>7. ASSUME NEW u, NEW t, u # h, Comes(s, u, t)
      PROVE  Comes(r, u, t)
    <2>1. PICK i, j \in 1..Len(s) : i < j /\ s[i] = u /\ s[j] = t
        BY <1>7 DEF Comes
    <2>2. i # 1 /\ j # 1
        BY <2>1, <1>4, <1>7
    <2>3. i - 1 < j - 1
        BY <2>1
    <2> QED BY <2>1, <2>2, <2>3, <1>3 DEF Comes
<1>8. ASSUME NEW t
      PROVE  Comes(s, h, t) <=> Listed(s, t) /\ t # h
    <2>1. ASSUME Comes(s, h, t)
          PROVE  Listed(s, t) /\ t # h
        <3>1. PICK i, j \in 1..Len(s) : i < j /\ s[i] = h /\ s[j] = t
            BY <2>1 DEF Comes
        <3>2. i = 1 /\ j # 1
            BY <3>1, <1>4
        <3> QED BY <3>1, <3>2, <1>4 DEF Listed
    <2>2. ASSUME Listed(s, t), t # h
          PROVE  Comes(s, h, t)
        <3>1. PICK j \in 1..Len(s) : s[j] = t
            BY <2>2 DEF Listed
        <3>2. j # 1 /\ 1 < j
            BY <3>1, <2>2, <1>1, <1>4
        <3> QED BY <3>1, <3>2, <1>4 DEF Comes
    <2> QED BY <2>1, <2>2
<1>9. ASSUME NEW u
      PROVE  ~ Comes(s, u, h)
    BY <1>1, <1>4 DEF Comes
<1>10. OneEach(r)
    <2> SUFFICES ASSUME NEW i \in 1..Len(r), NEW j \in 1..Len(r), r[i] = r[j]
                 PROVE  i = j
        BY DEF OneEach
    <2>1. i + 1 = j + 1
        BY <1>1, <1>2 DEF OneEach
    <2> QED BY <2>1
<1>11. Listed(s, h)
    BY <1>4 DEF Listed
<1> QED BY <1>5, <1>6, <1>7, <1>8, <1>9, <1>10, <1>11 DEF h, r

(* list.remove takes one place out of the list and moves up what stood behind it. *)
LEMMA WithoutShape ==
    ASSUME NEW S, NEW s \in Seq(S), NEW t, Places(s, t) # {}
    PROVE  /\ Without(s, t) \in Seq(S)
           /\ Len(s) \in Nat
           /\ \E k \in 1..Len(s) :
                /\ s[k] = t
                /\ Len(Without(s, t)) = Len(s) - 1
                /\ \A i \in 1..(Len(s) - 1) : Without(s, t)[i] = IF i < k THEN s[i] ELSE s[i + 1]
<1> DEFINE k == CHOOSE i \in Places(s, t) : \A j \in Places(s, t) : i <= j
           a == SubSeq(s, 1, k - 1)
           b == SubSeq(s, k + 1, Len(s))
<1>0. Len(s) \in Nat
    BY LenProperties
<1>1. \E i \in Places(s, t) : \A j \in Places(s, t) : i <= j
    <2>1. Places(s, t) \subseteq Nat
        BY <1>0 DEF Places
    <2> QED BY <2>1, LeastElement
<1>2. k \in 1..Len(s) /\ s[k] = t
    BY <1>1 DEF Places
<1> HIDE DEF k
<1>3. /\ a \in Seq(S)
      /\ Len(a) = k - 1
      /\ \A i \in 1..(k - 1) : a[i] = s[i]
    <2>1. \A i \in 1..(k - 1) : s[i] \in S
        BY <1>0, <1>2, ElementOfSeq
    <2>2. 1 \in Int /\ k - 1 \in Int
        BY <1>0, <1>2
    <2> QED BY <1>0, <1>2, <2>1, <2>2, SubSeqProperties
<1>4. /\ b \in Seq(S)
      /\ Len(b) = Len(s) - k
      /\ \A i \in 1..(Len(s) - k) : b[i] = s[k + i]
    <2>1. \A i \in (k + 1)..Len(s) : s[i] \in S
        BY <1>0, <1>2, ElementOfSeq
    <2>2. k + 1 \in Int /\ Len(s) \in Int
        BY <1>0, <1>2
    <2>3. /\ b \in Seq(S)
          /\ Len(b) = IF k + 1 <= Len(s) THEN Len(s) - (k + 1) + 1 ELSE 0
          /\ \A i \in 1..(Len(s) - (k + 1) + 1) : b[i] = s[(k + 1) + i - 1]
        BY ONLY <2>1, <2>2, SubSeqProperties
    <2> QED BY <1>0, <1>2, <2>3
<1>5. Without(s, t) = a \o b
    BY DEF Without, k
<1> HIDE DEF a, b
<1>6. /\ a \o b \in Seq(S)
      /\ Len(a \o b) = Len(s) - 1
      /\ \A i \in 1..(Len(s) - 1) : (a \o b)[i] = IF i < k THEN s[i] ELSE s[i + 1]
    <2>1. /\ a \o b \in Seq(S)
          /\ Len(a \o b) = Len(a) + Len(b)
          /\ \A i \in 1..(Len(a) + Len(b)) : (a \o b)[i] =
                IF i <= Len(a) THEN a[i] ELSE b[i - Len(a)]
        BY <1>3, <1>4, ConcatProperties
    <2>2. Len(a) + Len(b) = Len(s) - 1
        BY <1>0, <1>2, <1>3, <1>4
    <2>3. ASSUME NEW i \in 1..(Len(s) - 1)
          PROVE  (a \o b)[i] = IF i < k THEN s[i] ELSE s[i + 1]
        <3>1. CASE i < k
            BY <3>1, <2>1, <2>2, <1>0, <1>2, <1>3
        <3>2. CASE i >= k
            <4>1. i - (k - 1) \in 1..(Len(s) - k) /\ k + (i - (k - 1)) = i + 1
                BY <3>2, <1>0, <1>2
            <4>2. b[i - (k - 1)] = s[i + 1]
                BY <4>1, <1>4
            <4> QED BY <3>2, <4>2, <2>1, <2>2, <1>0, <1>2, <1>3
        <3>3. i < k \/ i >= k
            BY <1>0, <1>2
        <3> QED BY <3>1, <3>2, <3>3
    <2> QED BY <2>1, <2>2, <2>3
<1> QED BY <1>0, <1>2, <1>5, <1>6

(* Whoever is not removed keeps its place among the others. *)
LEMMA WithoutOrder ==
    ASSUME NEW S, NEW s \in Seq(S), NEW t, OneEach(s)
    PROVE  /\ OneEach(Without(s, t))
           /\ \A u : Listed(Without(s, t), u) <=> Listed(s, u) /\ u # t
           /\ \A u, v : u # t /\ v # t => (Comes(Without(s, t), u, v) <=> Comes(s, u, v))
<1> DEFINE w == Without(s, t)
<1>1. CASE Places(s, t) = {}
    <2>1. w = s /\ ~ Listed(s, t)
        BY <1>1 DEF Without, Places, Listed
    <2> QED BY <2>1 DEF Listed
<1>2. CASE Places(s, t) # {}
    <2>1. PICK k \in 1..Len(s) :
                /\ s[k] = t
                /\ Len(w) = Len(s) - 1
                /\ \A i \in 1..(Len(s) - 1) : w[i] = IF i < k THEN s[i] ELSE s[i + 1]
        BY <1>2, WithoutShape
    <2>2. Len(s) \in Nat
        BY LenProperties
    <2> HIDE DEF w
    <2> DEFINE to(i) == IF i < k THEN i ELSE i + 1
               from(i) == IF i < k THEN i ELSE i - 1
    <2>3. \A i \in 1..Len(w) : to(i) \in 1..Len(s) /\ to(i) # k /\ w[i] = s[to(i)]
        BY <2>1, <2>2
    <2>4. \A i \in 1..Len(s) : i # k => from(i) \in 1..Len(w) /\ w[from(i)] = s[i]
        BY <2>1, <2>2
    <2>5. \A i, j \in 1..Len(w) : /\ i < j => to(i) < to(j)
                                  /\ to(i) = to(j) => i = j
        BY <2>1, <2>2
    <2>6. \A i, j \in 1..Len(s) : i # k /\ j # k /\ i < j => from(i) < from(j)
        BY <2>1, <2>2
    <2>7. \A i \in 1..Len(s) : s[i] = t <=> i = k
        BY <2>1 DEF OneEach
    <2> HIDE DEF to, from
    <2>8. OneEach(w)
        BY <2>3, <2>5 DEF OneEach
    <2>9. ASSUME NEW u
          PROVE  Listed(w, u) <=> Listed(s, u) /\ u # t
        BY <2>3, <2>4, <2>7 DEF Listed
    <2>10. ASSUME NEW u, NEW v, u # t, v # t
           PROVE  Comes(w, u, v) <=> Comes(s, u, v)
        <3>1. ASSUME Comes(w, u, v)
              PROVE  Comes(s, u, v)
            BY <3>1, <2>3, <2>5 DEF Comes
        <3>2. ASSUME Comes(s, u, v)
              PROVE  Comes(w, u, v)
            <4>1. PICK i, j \in 1..Len(s) : i < j /\ s[i] = u /\ s[j] = v
                BY <3>2 DEF Comes
            <4>2. i # k /\ j # k
                BY <4>1, <2>7, <2>10
            <4> QED BY <4>1, <4>2, <2>4, <2>6 DEF Comes
        <3> QED BY <3>1, <3>2
    <2> QED BY <2>8, <2>9, <2>10 DEF w
<1> QED BY <1>1, <1>2

(* list.remove: nothing is invented, and of a list without repetitions the element is gone. *)
LEMMA WithoutFacts ==
    ASSUME NEW S, NEW s \in Seq(S), NEW t
    PROVE  /\ Without(s, t) \in Seq(S)
           /\ \A i \in 1..Len(Without(s, t)) : \E j \in 1..Len(s) : Without(s, t)[i] = s[j]
           /\ (\A i, j \in 1..Len(s) : s[i] = s[j] => i = j)
                => /\ \A i \in 1..Len(Without(s, t)) : Without(s, t)[i] # t
                   /\ \A i, j \in 1..Len(Without(s, t)) :
                        Without(s, t)[i] = Without(s, t)[j] => i = j
<1>1. Without(s, t) \in Seq(S) /\ \A i \in 1..Len(Without(s, t)) : \E j \in 1..Len(s) : Without(s, t)[i] = s[j]
    <2>1. CASE Places(s, t) = {}
        BY <2>1 DEF Without
    <2>2. CASE Places(s, t) # {}
        <3>1. Without(s, t) \in Seq(S) /\ Len(s) \in Nat
            BY <2>2, WithoutShape
        <3>2. PICK k \in 1..Len(s) :
                    /\ Len(Without(s, t)) = Len(s) - 1
                    /\ \A i \in 1..(Len(s) - 1) : Without(s, t)[i] = IF i < k THEN s[i] ELSE s[i + 1]
            BY <2>2, WithoutShape
        <3>3. \A i \in 1..(Len(s) - 1) : i \in 1..Len(s) /\ i + 1 \in 1..Len(s)
            BY <3>1
        <3> QED BY <3>1, <3>2, <3>3
    <2> QED BY <2>1, <2>2
<1>2. ASSUME \A i, j \in 1..Len(s) : s[i] = s[j] => i = j
      PROVE  OneEach(Without(s, t)) /\ ~ Listed(Without(s, t), t)
    BY <1>2, WithoutOrder DEF OneEach
<1> QED BY <1>1, <1>2 DEF OneEach, Listed

-----------------------------------------------------------------------------
(* The semaphore *)

(* n wake-ups grant at most n waiters, and only such as are still queued. *)
LEMMA FirstQueuedFacts ==
    ASSUME NEW n \in Nat, NEW a \in [Tasks -> AcqStates], NEW d \in Seq(Tasks)
    PROVE  /\ FirstQueued(n, a, d) \subseteq {t \in Tasks : a[t] = "queued"}
           /\ Cardinality(FirstQueued(n, a, d)) <= n
<1> DEFINE q == {i \in 1..Len(d) : a[d[i]] = "queued"}
           before(i) == {j \in q : j < i}
           I == {i \in q : Cardinality(before(i)) < n}
           rank == [i \in I |-> Cardinality(before(i))]
           W == FirstQueued(n, a, d)
<1>0. Len(d) \in Nat
    BY LenProperties
<1>1. W = {d[i] : i \in I}
    BY DEF FirstQueued
<1>2. IsFiniteSet(q) /\ q \subseteq 1..Len(d)
    <2>1. IsFiniteSet(1..Len(d))
        BY <1>0, FS_Interval
    <2> QED BY <2>1, FS_Subset
<1>3. \A i \in q : IsFiniteSet(before(i)) /\ Cardinality(before(i)) \in Nat
    BY <1>2, FS_Subset, FS_CardinalityType
<1>4. \A i, j \in q : i < j => Cardinality(before(i)) < Cardinality(before(j))
    <2> SUFFICES ASSUME NEW i \in q, NEW j \in q, i < j
                 PROVE  Cardinality(before(i)) < Cardinality(before(j))
        OBVIOUS
    <2>1. before(i) \subseteq before(j) /\ before(i) # before(j)
        <3>1. i \in before(j) /\ i \notin before(i)
            BY <1>0, <1>2
        <3>2. before(i) \subseteq before(j)
            BY <1>0, <1>2
        <3> QED BY <3>1, <3>2
    <2>2. /\ Cardinality(before(i)) <= Cardinality(before(j))
          /\ Cardinality(before(j)) = Cardinality(before(i)) => before(j) = before(i)
        BY <1>3, <2>1, FS_Subset
    <2>3. Cardinality(before(i)) \in Nat /\ Cardinality(before(j)) \in Nat
        BY <1>3
    <2> HIDE DEF before
    <2> QED BY <2>1, <2>2, <2>3
<1>5. rank \in Injection(I, 0..(n - 1))
    <2>1. rank \in [I -> 0..(n - 1)]
        <3>1. \A i \in I : Cardinality(before(i)) \in Nat /\ Cardinality(before(i)) < n
            BY <1>3
        <3>2. \A i \in I : Cardinality(before(i)) \in 0..(n - 1)
            <4> HIDE DEF before, I
            <4> QED BY <3>1
        <3> QED BY <3>2
    <2>2. \A i, j \in I : rank[i] = rank[j] => i = j
        <3> SUFFICES ASSUME NEW i \in I, NEW j \in I, rank[i] = rank[j]
                     PROVE  i = j
            OBVIOUS
        <3>1. i \in q /\ j \in q /\ Cardinality(before(i)) = Cardinality(before(j))
            OBVIOUS
        <3> HIDE DEF before, q, I, rank
        <3>2. ~ (i < j) /\ ~ (j < i)
            BY <3>1, <1>3, <1>4
        <3> QED BY <3>1, <3>2, <1>0, <1>2
    <2> QED BY <2>1, <2>2 DEF Injection, IsInjective
<1>6. IsFiniteSet(I) /\ Cardinality(I) <= n
    <2>1. IsFiniteSet(0..(n - 1)) /\ Cardinality(0..(n - 1)) = n
        BY FS_Interval
    <2> HIDE DEF rank, I
    <2> QED BY <1>5, <2>1, FS_Injection
<1>7. Cardinality(W) <= n
    <2> DEFINE f == [i \in I |-> d[i]]
    <2>1. f \in Surjection(I, W)
        BY <1>1 DEF Surjection
    <2>2. Cardinality(W) <= Cardinality(I) /\ IsFiniteSet(W)
        <3> HIDE DEF f, I, W
        <3> QED BY <2>1, <1>6, FS_Surjection
    <2>3. Cardinality(W) \in Nat /\ Cardinality(I) \in Nat
        BY <2>2, <1>6, FS_CardinalityType
    <2> QED BY <2>2, <2>3, <1>6
<1>8. W \subseteq {t \in Tasks : a[t] = "queued"}
    <2>1. \A i \in 1..Len(d) : d[i] \in Tasks
        BY ElementOfSeq
    <2> QED BY <1>1, <2>1
<1> QED BY <1>7, <1>8

(* The wake-ups go down the deque: who stands before a woken waiter is woken too, and with a   *)
(* permit to hand out and somebody queued, somebody is woken.                                   *)
LEMMA FirstQueuedOrder ==
    ASSUME NEW n \in Nat, NEW a \in [Tasks -> AcqStates], NEW d \in Seq(Tasks), OneEach(d)
    PROVE  /\ \A u \in FirstQueued(n, a, d) : Listed(d, u)
           /\ \A t \in FirstQueued(n, a, d) : \A u \in Tasks :
                a[u] = "queued" /\ Comes(d, u, t) => u \in FirstQueued(n, a, d)
           /\ \A u \in Tasks : n > 0 /\ Listed(d, u) /\ a[u] = "queued" => FirstQueued(n, a, d) # {}
<1> DEFINE q == {i \in 1..Len(d) : a[d[i]] = "queued"}
           before(i) == {j \in q : j < i}
           W == FirstQueued(n, a, d)
<1>0. Len(d) \in Nat
    BY LenProperties
<1>1. W = {d[i] : i \in {i \in q : Cardinality(before(i)) < n}}
    BY DEF FirstQueued
<1>2. q \subseteq 1..Len(d) /\ q \subseteq Nat /\ \A i \in q : a[d[i]] = "queued"
    BY <1>0
<1>3. ASSUME NEW i
      PROVE  IsFiniteSet(before(i)) /\ Cardinality(before(i)) \in Nat
    <2>1. IsFiniteSet(1..Len(d)) /\ before(i) \subseteq 1..Len(d)
        BY <1>0, FS_Interval
    <2> QED BY <2>1, FS_Subset, FS_CardinalityType
<1> HIDE DEF W
<1>4. ASSUME NEW u \in W
      PROVE  Listed(d, u)
    BY <1>1, <1>2 DEF Listed
<1>5. ASSUME NEW t \in W, NEW u \in Tasks, a[u] = "queued", Comes(d, u, t)
      PROVE  u \in W
    <2>1. PICK j \in q : Cardinality(before(j)) < n /\ d[j] = t
        BY <1>1
    <2>2. PICK i, k \in 1..Len(d) : i < k /\ d[i] = u /\ d[k] = t
        BY <1>5 DEF Comes
    <2>3. k = j /\ i \in q
        BY <2>1, <2>2, <1>2, <1>5 DEF OneEach
    <2>4. before(i) \subseteq before(j)
        BY <2>2, <2>3, <1>2
    <2>5. Cardinality(before(i)) <= Cardinality(before(j))
        BY <2>4, <1>3, FS_Subset
    <2>6. /\ Cardinality(before(i)) \in Nat /\ Cardinality(before(j)) \in Nat
          /\ Cardinality(before(j)) < n
        BY <2>1, <1>3
    <2>7. Cardinality(before(i)) < n
        <3> HIDE DEF before, q
        <3> QED BY <2>5, <2>6
    <2> QED BY <1>1, <2>2, <2>3, <2>7
<1>6. ASSUME NEW u \in Tasks, n > 0, Listed(d, u), a[u] = "queued"
      PROVE  W # {}
    <2>1. q # {}
        BY <1>6 DEF Listed
    <2>2. PICK i \in q : \A j \in q : i <= j
        BY <2>1, <1>2, LeastElement
    <2>3. before(i) = {}
        BY <2>2, <1>2
    <2>4. Cardinality(before(i)) < n
        BY <2>3, <1>6, FS_EmptySet
    <2> QED BY <1>1, <2>4
<1> QED BY <1>4, <1>5, <1>6 DEF W

(* The permits held when the acquire() tasks are in the states a. *)
HeldIn(a) == {t \in Tasks : a[t] \in {"granted", "done", "returning"}}

LEMMA HeldFinite ==
    ASSUME NEW a
    PROVE  IsFiniteSet(HeldIn(a)) /\ Cardinality(HeldIn(a)) \in Nat
<1>1. HeldIn(a) \subseteq Tasks
    BY DEF HeldIn
<1> QED BY <1>1, TasksAssumption, FS_Subset, FS_CardinalityType

(* Waking waiters up hands out permits, it makes and loses none. *)
LEMMA WakeUpFacts ==
    ASSUME NEW n \in Nat, NEW v \in Nat, NEW a \in [Tasks -> AcqStates],
           deque' \in Seq(Tasks), WakeUp(n, v, a)
    PROVE  /\ acq' \in [Tasks -> AcqStates]
           /\ value' \in Nat
           /\ \A t \in Tasks : \/ acq'[t] = a[t]
                               \/ a[t] = "queued" /\ acq'[t] = "granted"
           /\ value' + Cardinality(Holding') = v + Cardinality(HeldIn(a))
<1> DEFINE W == FirstQueued(Min2(n, v), a, deque')
<1>1. Min2(n, v) \in Nat /\ Min2(n, v) <= v
    BY DEF Min2
<1>2. W \subseteq {t \in Tasks : a[t] = "queued"} /\ Cardinality(W) <= Min2(n, v)
    BY <1>1, FirstQueuedFacts
<1>3. IsFiniteSet(W) /\ Cardinality(W) \in Nat
    <2> HIDE DEF W
    <2>1. W \subseteq Tasks
        BY <1>2
    <2> QED BY <2>1, TasksAssumption, FS_Subset, FS_CardinalityType
<1>4. /\ acq' = [t \in Tasks |-> IF t \in W THEN "granted" ELSE a[t]]
      /\ value' = v - Cardinality(W)
    BY DEF WakeUp
<1> HIDE DEF W
<1>5. acq' \in [Tasks -> AcqStates]
    BY <1>4 DEF AcqStates
<1>6. value' \in Nat
    BY <1>1, <1>2, <1>3, <1>4
<1>7. \A t \in Tasks : acq'[t] = a[t] \/ (a[t] = "queued" /\ acq'[t] = "granted")
    BY <1>2, <1>4
<1>8. value' + Cardinality(Holding') = v + Cardinality(HeldIn(a))
    <2>1. Holding' = HeldIn(a) \cup W /\ HeldIn(a) \cap W = {}
        BY <1>2, <1>4 DEF Holding, HeldIn
    <2>2. Cardinality(Holding') = Cardinality(HeldIn(a)) + Cardinality(W) - Cardinality({})
        BY <2>1, <1>3, HeldFinite, FS_Union
    <2>3. Cardinality(Holding') = Cardinality(HeldIn(a)) + Cardinality(W)
        BY <2>2, <1>3, HeldFinite, FS_EmptySet
    <2> QED BY <2>3, <1>3, <1>4, HeldFinite
<1> QED BY <1>5, <1>6, <1>7, <1>8

(* One acquire() that moves from one state to another takes, keeps or gives back a permit. *)
LEMMA OneMoves ==
    ASSUME acq \in [Tasks -> AcqStates], NEW t \in Tasks, NEW x \in AcqStates
    PROVE  LET held == {"granted", "done", "returning"}
               a    == [acq EXCEPT ![t] = x]
           IN  /\ a \in [Tasks -> AcqStates]
               /\ Cardinality(Holding) \in Nat
               /\ acq[t] \in held /\ x \notin held => Cardinality(HeldIn(a)) = Cardinality(Holding) - 1
               /\ acq[t] \notin held /\ x \in held => Cardinality(HeldIn(a)) = Cardinality(Holding) + 1
               /\ (acq[t] \in held <=> x \in held) => HeldIn(a) = Holding
<1> DEFINE held == {"granted", "done", "returning"}
           a    == [acq EXCEPT ![t] = x]
<1>1. a \in [Tasks -> AcqStates]
    OBVIOUS
<1>2. Holding = HeldIn(acq)
    BY DEF Holding, HeldIn
<1>3. ASSUME acq[t] \in held, x \notin held
      PROVE  Cardinality(HeldIn(a)) = Cardinality(Holding) - 1
    <2>1. HeldIn(a) = Holding \ {t} /\ t \in Holding
        BY <1>3 DEF Holding, HeldIn
    <2> QED BY <2>1, <1>2, HeldFinite, FS_RemoveElement
<1>4. ASSUME acq[t] \notin held, x \in held
      PROVE  Cardinality(HeldIn(a)) = Cardinality(Holding) + 1
    <2>1. HeldIn(a) = Holding \cup {t} /\ t \notin Holding
        BY <1>4 DEF Holding, HeldIn
    <2> QED BY <2>1, <1>2, HeldFinite, FS_AddElement
<1>5. ASSUME acq[t] \in held <=> x \in held
      PROVE  HeldIn(a) = Holding
    BY <1>5 DEF Holding, HeldIn
<1> QED BY <1>1, <1>2, <1>3, <1>4, <1>5, HeldFinite

-----------------------------------------------------------------------------
(* The inductive invariant *)

(* An acquire() task that has not run yet is in `ready`, once, and nowhere else. *)
ReadyFresh ==
    /\ \A i \in 1..Len(ready) : acq[ready[i]] = "new"
    /\ \A i, j \in 1..Len(ready) : ready[i] = ready[j] => i = j

(* A call in its block owns the permit its acquire() took; without a limit nothing is acquired. *)
Shape ==
    /\ active = {t \in Tasks : pc[t] = "active"}
    /\ Limit > 0 => \A t \in Tasks : pc[t] = "active" => acq[t] = "done"
    /\ Limit = 0 => \A t \in Tasks : acq[t] = "none" /\ pc[t] \notin {"marking", "waiting"}

IInv == TypeOK /\ ReadyFresh /\ Shape /\ PermitsConserved /\ InflightExact

LEMMA InitEstablishesIInv == Init => IInv
<1> SUFFICES ASSUME Init PROVE IInv
    OBVIOUS
<1>1. TypeOK
    <2>1. <<>> \in Seq(Tasks)
        BY EmptySeq
    <2> QED BY <2>1, LimitAssumption DEF Init, TypeOK, PCs, AcqStates
<1>2. ReadyFresh
    <2>1. Len(ready) = 0
        BY EmptySeq DEF Init
    <2> QED BY <2>1 DEF ReadyFresh
<1>3. Shape
    BY DEF Init, Shape
<1>4. Holding = {} /\ Inside = {}
    BY DEF Init, Holding, Inside
<1>5. PermitsConserved
    BY <1>4, FS_EmptySet, LimitAssumption DEF Init, PermitsConserved
<1>6. InflightExact
    BY <1>4, FS_EmptySet DEF Init, InflightExact
<1> QED BY <1>1, <1>2, <1>3, <1>5, <1>6 DEF IInv

(* A call that enters slot() is counted, one that leaves it is not any more. *)
LEMMA InsideFacts ==
    ASSUME NEW t \in Tasks, pc \in [Tasks -> PCs], NEW x \in PCs, pc' = [pc EXCEPT ![t] = x]
    PROVE  LET in == {"marking", "waiting", "active"}
           IN  /\ Cardinality(Inside) \in Nat
               /\ pc[t] \in in => Cardinality(Inside) > 0
               /\ pc[t] \in in /\ x \notin in => Cardinality(Inside') = Cardinality(Inside) - 1
               /\ pc[t] \notin in /\ x \in in => Cardinality(Inside') = Cardinality(Inside) + 1
               /\ (pc[t] \in in <=> x \in in) => Inside' = Inside
<1> DEFINE in == {"marking", "waiting", "active"}
<1>1. IsFiniteSet(Inside) /\ Cardinality(Inside) \in Nat
    <2>1. Inside \subseteq Tasks
        BY DEF Inside
    <2> QED BY <2>1, TasksAssumption, FS_Subset, FS_CardinalityType
<1>2. pc[t] \in in => Cardinality(Inside) > 0
    <2>1. pc[t] \in in => Inside # {}
        BY DEF Inside
    <2> QED BY <2>1, <1>1, FS_EmptySet
<1>3. ASSUME pc[t] \in in, x \notin in
      PROVE  Cardinality(Inside') = Cardinality(Inside) - 1
    <2>1. Inside' = Inside \ {t} /\ t \in Inside
        BY <1>3 DEF Inside
    <2> QED BY <2>1, <1>1, FS_RemoveElement
<1>4. ASSUME pc[t] \notin in, x \in in
      PROVE  Cardinality(Inside') = Cardinality(Inside) + 1
    <2>1. Inside' = Inside \cup {t} /\ t \notin Inside
        BY <1>4 DEF Inside
    <2> QED BY <2>1, <1>1, FS_AddElement
<1>5. ASSUME pc[t] \in in <=> x \in in
      PROVE  Inside' = Inside
    BY <1>5 DEF Inside
<1> QED BY <1>1, <1>2, <1>3, <1>4, <1>5

-----------------------------------------------------------------------------
(* Every step keeps it: one lemma per action *)

LEMMA AcquireBeginsKeeps == IInv /\ AcquireBegins => IInv'
<1> SUFFICES ASSUME IInv, AcquireBegins PROVE IInv'
    OBVIOUS
<1> DEFINE h == Head(ready)
<1> USE DEF IInv
<1>1. /\ h \in Tasks
      /\ Tail(ready) \in Seq(Tasks)
      /\ Len(ready) \in Nat
      /\ Len(ready) >= 1
      /\ Len(Tail(ready)) = Len(ready) - 1
      /\ h = ready[1]
      /\ \A i \in 1..Len(Tail(ready)) : Tail(ready)[i] = ready[i + 1]
    BY HeadTailProperties, LenProperties, EmptySeq DEF AcquireBegins, TypeOK
<1>2. acq[h] = "new" /\ acq \in [Tasks -> AcqStates]
    BY <1>1 DEF ReadyFresh, TypeOK
<1>3. Limit # 0
    BY <1>1, <1>2 DEF Shape
<1>4. /\ ready' = Tail(ready)
      /\ UNCHANGED <<pc, waiting, active, inflight>>
      /\ \/ /\ acq' = [acq EXCEPT ![h] = "queued"]
            /\ deque' = Append(deque, h)
            /\ value' = value
         \/ /\ value # 0
            /\ acq' = [acq EXCEPT ![h] = "done"]
            /\ value' = value - 1
            /\ deque' = deque
    BY DEF AcquireBegins, Locked
<1> HIDE DEF h
<1>5. TypeOK'
    <2>1. Append(deque, h) \in Seq(Tasks)
        BY <1>1, AppendProperties DEF TypeOK
    <2>2. acq' \in [Tasks -> AcqStates]
        BY <1>1, <1>2, <1>4 DEF AcqStates
    <2>3. value' \in Nat
        BY <1>4 DEF TypeOK
    <2> QED BY <1>1, <1>4, <2>1, <2>2, <2>3 DEF TypeOK
<1>6. ReadyFresh'
    <2>1. \A i \in 1..Len(ready') : /\ i + 1 \in 1..Len(ready)
                                    /\ ready'[i] = ready[i + 1]
                                    /\ ready'[i] # h
                                    /\ ready'[i] \in Tasks
        BY <1>1, <1>4, ElementOfSeq DEF ReadyFresh, TypeOK
    <2>2. \A t \in Tasks : t # h => acq'[t] = acq[t]
        BY <1>4, <1>2
    <2>3. \A i \in 1..Len(ready') : acq'[ready'[i]] = "new"
        BY <2>1, <2>2 DEF ReadyFresh
    <2>4. \A i, j \in 1..Len(ready') : ready'[i] = ready'[j] => i = j
        BY <2>1, <1>1, <1>4 DEF ReadyFresh
    <2> QED BY <2>3, <2>4 DEF ReadyFresh
<1>7. Shape'
    BY <1>1, <1>2, <1>3, <1>4 DEF Shape, TypeOK
<1>8. PermitsConserved'
    <2>1. CASE acq' = [acq EXCEPT ![h] = "queued"] /\ value' = value
        <3>1. HeldIn(acq') = Holding
            BY <1>1, <1>2, <2>1, OneMoves DEF AcqStates
        <3> QED BY <3>1, <2>1 DEF PermitsConserved, Holding, HeldIn
    <2>2. CASE acq' = [acq EXCEPT ![h] = "done"] /\ value' = value - 1
        <3>1. Cardinality(HeldIn(acq')) = Cardinality(Holding) + 1 /\ Cardinality(Holding) \in Nat
            BY <1>1, <1>2, <2>2, OneMoves DEF AcqStates
        <3>2. HeldIn(acq') = Holding'
            BY DEF Holding, HeldIn
        <3> QED BY <3>1, <3>2, <2>2 DEF PermitsConserved, TypeOK
    <2> QED BY <1>4, <2>1, <2>2
<1>9. InflightExact'
    BY <1>4 DEF InflightExact, Inside
<1> QED BY <1>5, <1>6, <1>7, <1>8, <1>9

(* What the end of acquire() and release() have in common: only queued waiters move, to "granted". *)
LEMMA WokenKeeps ==
    ASSUME IInv, NEW t \in Tasks, NEW x \in AcqStates, acq[t] # "new", acq[t] # "none",
           \A u \in Tasks : \/ acq'[u] = [acq EXCEPT ![t] = x][u]
                            \/ /\ [acq EXCEPT ![t] = x][u] = "queued"
                               /\ acq'[u] = "granted",
           ready' = ready, x # "new"
    PROVE  /\ ReadyFresh'
           /\ Limit # 0
           /\ \A u \in Tasks : u # t /\ acq[u] = "done" => acq'[u] = "done"
<1>1. acq \in [Tasks -> AcqStates] /\ ready \in Seq(Tasks)
    BY DEF IInv, TypeOK
<1>2. \A i \in 1..Len(ready) : ready[i] \in Tasks /\ acq[ready[i]] = "new"
    BY <1>1, ElementOfSeq DEF IInv, ReadyFresh
<1>3. \A i \in 1..Len(ready) : acq'[ready[i]] = "new"
    BY <1>1, <1>2
<1>4. ReadyFresh'
    BY <1>3 DEF IInv, ReadyFresh
<1>5. Limit # 0
    BY DEF IInv, Shape
<1>6. \A u \in Tasks : u # t /\ acq[u] = "done" => acq'[u] = "done"
    BY <1>1
<1> QED BY <1>4, <1>5, <1>6

LEMMA AcquireResumesKeeps ==
    ASSUME IInv, NEW t \in Tasks, AcquireResumes(t)
    PROVE  IInv'
<1> DEFINE a == [acq EXCEPT ![t] = "done"]
<1>1. /\ acq[t] = "granted"
      /\ deque' = Without(deque, t)
      /\ WakeUp(value, value, a)
      /\ UNCHANGED <<pc, ready, waiting, active, inflight>>
    BY DEF AcquireResumes, LeaveDeque
<1>2. TypeOK /\ "done" \in AcqStates
    BY DEF IInv, AcqStates
<1>3. a \in [Tasks -> AcqStates] /\ value \in Nat /\ deque' \in Seq(Tasks)
    BY <1>1, <1>2, WithoutFacts DEF TypeOK
<1>4. /\ acq' \in [Tasks -> AcqStates]
      /\ value' \in Nat
      /\ \A u \in Tasks : acq'[u] = a[u] \/ (a[u] = "queued" /\ acq'[u] = "granted")
      /\ value' + Cardinality(Holding') = value + Cardinality(HeldIn(a))
    <2>1. WakeUp(value, value, a)
        BY <1>1
    <2> HIDE DEF a
    <2> QED BY <1>3, <2>1, WakeUpFacts
<1>5. TypeOK'
    BY <1>1, <1>2, <1>3, <1>4 DEF TypeOK
<1>6. ReadyFresh' /\ Limit # 0 /\ \A u \in Tasks : u # t /\ acq[u] = "done" => acq'[u] = "done"
    BY <1>1, <1>2, <1>4, WokenKeeps
<1>7. Shape'
    BY <1>1, <1>2, <1>6 DEF IInv, Shape, TypeOK
<1>8. PermitsConserved'
    <2>1. HeldIn(a) = Holding
        BY <1>1, <1>2, OneMoves DEF TypeOK
    <2> QED BY <2>1, <1>4 DEF IInv, PermitsConserved
<1>9. InflightExact'
    BY <1>1 DEF IInv, InflightExact, Inside
<1> QED BY <1>5, <1>6, <1>7, <1>8, <1>9 DEF IInv

LEMMA AcquireCancelledKeeps ==
    ASSUME IInv, NEW t \in Tasks, AcquireCancelled(t)
    PROVE  IInv'
<1> DEFINE over == IF pc[t] = "waiting" THEN "cancelled" ELSE "none"
           a == [acq EXCEPT ![t] = over]
           v == IF acq[t] = "returning" THEN value + 1 ELSE value
<1>1. acq[t] \in {"unborn", "dropping", "returning"} /\ UNCHANGED <<pc, ready, waiting, active, inflight>>
    BY DEF AcquireCancelled
<1>2. TypeOK /\ over \in {"none", "cancelled"} /\ over \in AcqStates
    BY DEF IInv, AcqStates
<1>3. /\ acq' \in [Tasks -> AcqStates]
      /\ value' \in Nat
      /\ deque' \in Seq(Tasks)
      /\ \A u \in Tasks : acq'[u] = a[u] \/ (a[u] = "queued" /\ acq'[u] = "granted")
      /\ value' + Cardinality(Holding') = v + Cardinality(HeldIn(a))
    <2>1. CASE acq[t] = "unborn"
        <3>1. acq' = a /\ UNCHANGED <<deque, value>>
            BY <2>1 DEF AcquireCancelled
        <3>2. Holding' = HeldIn(a)
            BY <3>1 DEF Holding, HeldIn
        <3> QED BY <2>1, <3>1, <3>2, <1>2 DEF TypeOK
    <2>2. CASE acq[t] # "unborn"
        <3>1. deque' = Without(deque, t) /\ WakeUp(v, v, a)
            BY <2>2 DEF AcquireCancelled, LeaveDeque
        <3>2. a \in [Tasks -> AcqStates] /\ v \in Nat /\ deque' \in Seq(Tasks)
            BY <3>1, <1>2, WithoutFacts DEF TypeOK
        <3> HIDE DEF a, v
        <3> QED BY <3>1, <3>2, WakeUpFacts
    <2> QED BY <2>1, <2>2
<1>4. TypeOK'
    BY <1>1, <1>2, <1>3 DEF TypeOK
<1>5. ReadyFresh' /\ Limit # 0 /\ \A u \in Tasks : u # t /\ acq[u] = "done" => acq'[u] = "done"
    <2> HIDE DEF over
    <2>1. acq[t] # "new" /\ acq[t] # "none" /\ over # "new"
        BY <1>1, <1>2
    <2> QED BY <1>1, <1>2, <1>3, <2>1, WokenKeeps
<1>6. Shape'
    <2>1. pc[t] = "active" => acq[t] = "done"
        BY <1>5, LimitAssumption DEF IInv, Shape
    <2> QED BY <2>1, <1>1, <1>2, <1>5 DEF IInv, Shape, TypeOK
<1>7. PermitsConserved'
    <2>1. acq \in [Tasks -> AcqStates] /\ value \in Nat
        BY <1>2 DEF TypeOK
    <2>2. Cardinality(Holding) \in Nat /\ value + Cardinality(Holding) = Limit
        BY <2>1, <1>2, OneMoves DEF IInv, PermitsConserved
    <2>3. CASE acq[t] = "returning"
        <3>1. Cardinality(HeldIn(a)) = Cardinality(Holding) - 1
            BY <2>1, <2>3, <1>2, OneMoves
        <3> QED BY <2>1, <2>2, <2>3, <3>1, <1>3 DEF PermitsConserved
    <2>4. CASE acq[t] # "returning"
        <3>1. HeldIn(a) = Holding
            BY <2>1, <2>4, <1>1, <1>2, OneMoves
        <3> QED BY <2>1, <2>2, <2>4, <3>1, <1>3 DEF PermitsConserved
    <2> QED BY <2>3, <2>4
<1>8. InflightExact'
    BY <1>1 DEF IInv, InflightExact, Inside
<1> QED BY <1>4, <1>5, <1>6, <1>7, <1>8 DEF IInv

LEMMA EnterSlotKeeps ==
    ASSUME IInv, NEW t \in Tasks, pc[t] \in {"out", "creating"}, EnterSlot(t)
    PROVE  IInv'
<1>1. TypeOK /\ acq[t] = "none" /\ deque' = deque /\ value' = value
    BY DEF IInv, EnterSlot
<1>2. CASE Limit = 0
    <2>1. /\ pc' = [pc EXCEPT ![t] = "active"]
          /\ active' = active \cup {t}
          /\ UNCHANGED <<acq, ready, waiting, inflight>>
        BY <1>2 DEF EnterSlot
    <2>2. TypeOK'
        BY <1>1, <2>1 DEF TypeOK, PCs
    <2>3. ReadyFresh' /\ PermitsConserved'
        BY <1>1, <2>1 DEF IInv, ReadyFresh, PermitsConserved, Holding
    <2>4. Shape'
        BY <1>1, <1>2, <2>1 DEF IInv, Shape, TypeOK
    <2> QED BY <1>2, <2>2, <2>3, <2>4 DEF IInv, InflightExact
<1>3. CASE Limit # 0
    <2> DEFINE mustWait == inflight >= Limit
               at == IF mustWait THEN "marking" ELSE "waiting"
    <2>1. /\ pc' = [pc EXCEPT ![t] = at]
          /\ waiting' = IF mustWait THEN Append(waiting, t) ELSE waiting
          /\ inflight' = inflight + 1
          /\ acq' = [acq EXCEPT ![t] = "new"]
          /\ ready' = Append(ready, t)
          /\ UNCHANGED active
        BY <1>3 DEF EnterSlot
    <2>2. at \in {"marking", "waiting"} /\ at \in PCs
        BY DEF PCs
    <2>3. /\ ready' \in Seq(Tasks)
          /\ Len(ready') = Len(ready) + 1
          /\ Len(ready) \in Nat
          /\ \A i \in 1..Len(ready) : ready'[i] = ready[i] /\ ready[i] \in Tasks
          /\ ready'[Len(ready) + 1] = t
        BY <1>1, <2>1, AppendProperties, LenProperties, ElementOfSeq DEF TypeOK
    <2> HIDE DEF at
    <2>4. TypeOK'
        <3>1. waiting' \in Seq(Tasks)
            BY <1>1, <2>1, AppendProperties DEF TypeOK
        <3>2. acq' \in [Tasks -> AcqStates] /\ pc' \in [Tasks -> PCs]
            BY <1>1, <2>1, <2>2 DEF TypeOK, AcqStates
        <3> QED BY <1>1, <2>1, <2>3, <3>1, <3>2 DEF TypeOK
    <2>5. ReadyFresh'
        <3>1. \A i \in 1..Len(ready) : acq[ready[i]] = "new" /\ ready[i] # t
            BY <1>1 DEF IInv, ReadyFresh
        <3>2. ASSUME NEW i \in 1..Len(ready')
              PROVE  acq'[ready'[i]] = "new"
            <4>1. CASE i \in 1..Len(ready)
                BY <4>1, <1>1, <2>1, <2>3, <3>1 DEF TypeOK
            <4>2. CASE i = Len(ready) + 1
                BY <4>2, <1>1, <2>1, <2>3 DEF TypeOK
            <4> QED BY <4>1, <4>2, <2>3
        <3>3. ASSUME NEW i \in 1..Len(ready'), NEW j \in 1..Len(ready'), ready'[i] = ready'[j]
              PROVE  i = j
            <4>1. i \in 1..Len(ready) \/ i = Len(ready) + 1
                BY <2>3
            <4>2. j \in 1..Len(ready) \/ j = Len(ready) + 1
                BY <2>3
            <4> QED BY <4>1, <4>2, <2>3, <3>1, <3>3 DEF IInv, ReadyFresh
        <3> QED BY <3>2, <3>3 DEF ReadyFresh
    <2>6. Shape'
        BY <1>1, <1>3, <2>1, <2>2 DEF IInv, Shape, TypeOK
    <2>7. PermitsConserved'
        <3>1. HeldIn(acq') = Holding /\ HeldIn(acq') = Holding'
            BY <1>1, <2>1, OneMoves DEF TypeOK, AcqStates, Holding, HeldIn
        <3> QED BY <1>1, <3>1 DEF IInv, PermitsConserved
    <2>8. InflightExact'
        <3>1. pc \in [Tasks -> PCs]
            BY <1>1 DEF TypeOK
        <3>2. Cardinality(Inside') = Cardinality(Inside) + 1
            BY <2>1, <2>2, <3>1, InsideFacts
        <3> QED BY <1>3, <2>1, <3>2, LimitAssumption DEF IInv, InflightExact
    <2> QED BY <2>4, <2>5, <2>6, <2>7, <2>8 DEF IInv
<1> QED BY <1>2, <1>3

(* The steps of the endpoint, and of slot() between two awaits, that touch no permit. *)
LEMMA PcMovesKeeps ==
    ASSUME IInv, NEW t \in Tasks, NEW x \in PCs, pc' = [pc EXCEPT ![t] = x],
           UNCHANGED <<acq, ready, deque, value, inflight>>, waiting' \in Seq(Tasks),
           \/ pc[t] \in {"out", "creating"} /\ x \in {"out", "creating"} /\ active' = active
           \/ pc[t] = "marking" /\ x = "waiting" /\ active' = active
           \/ pc[t] = "waiting" /\ acq[t] = "done" /\ x = "active" /\ active' = active \cup {t}
    PROVE  IInv'
<1>1. TypeOK'
    BY DEF IInv, TypeOK
<1>2. ReadyFresh' /\ PermitsConserved'
    BY DEF IInv, ReadyFresh, PermitsConserved, Holding
<1>3. Shape'
    BY DEF IInv, Shape, TypeOK
<1>4. InflightExact'
    <2>1. pc \in [Tasks -> PCs]
        BY DEF IInv, TypeOK
    <2>2. Inside' = Inside
        BY <2>1, InsideFacts
    <2> QED BY <2>2 DEF IInv, InflightExact
<1> QED BY <1>1, <1>2, <1>3, <1>4 DEF IInv

(* A call that has its permit gives it back: one more in the semaphore, or a waiter has it. *)
LEMMA ReleaseKeeps ==
    ASSUME IInv, NEW t \in Tasks, acq[t] = "done", Release([acq EXCEPT ![t] = "none"]), ready' = ready
    PROVE  /\ acq' \in [Tasks -> AcqStates]
           /\ value' \in Nat
           /\ deque' = deque
           /\ \A u \in Tasks : u # t /\ acq[u] = "done" => acq'[u] = "done"
           /\ Limit # 0
           /\ ReadyFresh'
           /\ PermitsConserved'
<1> DEFINE a == [acq EXCEPT ![t] = "none"]
           v == value + 1
<1>1. TypeOK /\ "none" \in AcqStates /\ deque' = deque /\ WakeUp(1, v, a)
    BY DEF IInv, Release, AcqStates
<1>2. acq \in [Tasks -> AcqStates] /\ value \in Nat
    BY <1>1 DEF TypeOK
<1>3. a \in [Tasks -> AcqStates] /\ v \in Nat /\ deque' \in Seq(Tasks)
    BY <1>1, <1>2 DEF TypeOK
<1>4. /\ acq' \in [Tasks -> AcqStates]
      /\ value' \in Nat
      /\ \A u \in Tasks : acq'[u] = a[u] \/ (a[u] = "queued" /\ acq'[u] = "granted")
      /\ value' + Cardinality(Holding') = v + Cardinality(HeldIn(a))
    <2> HIDE DEF a, v
    <2> QED BY <1>1, <1>3, WakeUpFacts
<1>5. ReadyFresh' /\ Limit # 0 /\ \A u \in Tasks : u # t /\ acq[u] = "done" => acq'[u] = "done"
    BY <1>1, <1>4, WokenKeeps
<1>6. PermitsConserved'
    <2>1. Cardinality(HeldIn(a)) = Cardinality(Holding) - 1 /\ Cardinality(Holding) \in Nat
        BY <1>1, <1>2, OneMoves
    <2> QED BY <1>2, <1>4, <2>1 DEF IInv, PermitsConserved
<1> QED BY <1>1, <1>4, <1>5, <1>6

LEMMA LeaveBlockKeeps ==
    ASSUME IInv, NEW t \in Tasks, LeaveBlock(t)
    PROVE  IInv'
<1>1. /\ TypeOK
      /\ pc[t] = "active"
      /\ pc' = [pc EXCEPT ![t] = "out"]
      /\ active' = active \ {t}
      /\ UNCHANGED <<ready, waiting>>
      /\ "out" \in PCs
    BY DEF IInv, LeaveBlock, PCs
<1>2. CASE Limit = 0
    <2>1. UNCHANGED <<acq, deque, value, inflight>>
        BY <1>2 DEF LeaveBlock
    <2>2. TypeOK'
        BY <1>1, <2>1 DEF TypeOK
    <2>3. ReadyFresh' /\ PermitsConserved'
        BY <1>1, <2>1 DEF IInv, ReadyFresh, PermitsConserved, Holding
    <2>4. Shape'
        BY <1>1, <1>2, <2>1 DEF IInv, Shape, TypeOK
    <2> QED BY <1>2, <2>2, <2>3, <2>4 DEF IInv, InflightExact
<1>3. CASE Limit # 0
    <2>1. Release([acq EXCEPT ![t] = "none"]) /\ inflight' = inflight - 1
        BY <1>3 DEF LeaveBlock
    <2>2. acq[t] = "done"
        BY <1>1, <1>3, LimitAssumption DEF IInv, Shape
    <2>3. /\ acq' \in [Tasks -> AcqStates]
          /\ value' \in Nat
          /\ deque' = deque
          /\ \A u \in Tasks : u # t /\ acq[u] = "done" => acq'[u] = "done"
          /\ ReadyFresh'
          /\ PermitsConserved'
        BY <1>1, <2>1, <2>2, ReleaseKeeps
    <2>4. pc \in [Tasks -> PCs]
        BY <1>1 DEF TypeOK
    <2>5. Cardinality(Inside') = Cardinality(Inside) - 1 /\ Cardinality(Inside) > 0 /\ Cardinality(Inside) \in Nat
        BY <1>1, <2>4, InsideFacts
    <2>6. InflightExact' /\ inflight' \in Nat
        BY <1>3, <2>1, <2>5, LimitAssumption DEF IInv, InflightExact
    <2>7. TypeOK'
        BY <1>1, <2>3, <2>6 DEF TypeOK
    <2>8. Shape'
        BY <1>1, <1>3, <2>3 DEF IInv, Shape, TypeOK
    <2> QED BY <2>3, <2>6, <2>7, <2>8 DEF IInv
<1> QED BY <1>2, <1>3

(* A call that was waiting is over: QuitLine after any step of the semaphore that keeps the rest. *)
LEMMA QuitLineKeeps ==
    ASSUME IInv, NEW t \in Tasks, pc[t] \in {"marking", "waiting"}, QuitLine(t),
           acq' \in [Tasks -> AcqStates], value' \in Nat, deque' \in Seq(Tasks), ready' \in Seq(Tasks),
           \A u \in Tasks : u # t /\ acq[u] = "done" => acq'[u] = "done",
           ReadyFresh', PermitsConserved'
    PROVE  IInv'
<1>1. /\ TypeOK
      /\ pc' = [pc EXCEPT ![t] = "out"]
      /\ waiting' = Without(waiting, t)
      /\ inflight' = inflight - 1
      /\ active' = active
      /\ "out" \in PCs
    BY DEF IInv, QuitLine, PCs
<1>2. Limit > 0
    BY LimitAssumption DEF IInv, Shape
<1>3. InflightExact' /\ inflight' \in Nat
    <2>1. pc \in [Tasks -> PCs]
        BY <1>1 DEF TypeOK
    <2>2. Cardinality(Inside') = Cardinality(Inside) - 1 /\ Cardinality(Inside) > 0 /\ Cardinality(Inside) \in Nat
        BY <1>1, <2>1, InsideFacts
    <2> QED BY <1>1, <1>2, <2>2 DEF IInv, InflightExact
<1>4. TypeOK'
    <2>1. waiting' \in Seq(Tasks)
        BY <1>1, WithoutFacts DEF TypeOK
    <2> QED BY <1>1, <1>3, <2>1 DEF TypeOK
<1>5. Shape'
    BY <1>1, <1>2 DEF IInv, Shape, TypeOK
<1> QED BY <1>3, <1>4, <1>5 DEF IInv

LEMMA CancelHoldingSlotKeeps ==
    ASSUME IInv, NEW t \in Tasks, CancelHoldingSlot(t)
    PROVE  IInv'
<1>1. /\ TypeOK
      /\ pc[t] \in {"marking", "waiting"}
      /\ acq[t] = "done"
      /\ Release([acq EXCEPT ![t] = "none"])
      /\ QuitLine(t)
      /\ ready' = ready
    BY DEF IInv, CancelHoldingSlot
<1>2. /\ acq' \in [Tasks -> AcqStates]
      /\ value' \in Nat
      /\ deque' = deque
      /\ \A u \in Tasks : u # t /\ acq[u] = "done" => acq'[u] = "done"
      /\ ReadyFresh'
      /\ PermitsConserved'
    BY <1>1, ReleaseKeeps
<1>3. deque' \in Seq(Tasks) /\ ready' \in Seq(Tasks)
    BY <1>1, <1>2 DEF TypeOK
<1> QED BY <1>1, <1>2, <1>3, QuitLineKeeps

(* Cancelling an acquire() moves no permit: one that was granted still counts as held. *)
LEMMA CancelAcquireKeeps ==
    ASSUME IInv, NEW t \in Tasks, acq[t] \in {"new", "queued", "granted"}, CancelAcquire(t)
    PROVE  /\ acq' \in [Tasks -> AcqStates]
           /\ value' \in Nat
           /\ deque' \in Seq(Tasks)
           /\ ready' \in Seq(Tasks)
           /\ \A u \in Tasks : u # t => acq'[u] = acq[u]
           /\ ReadyFresh'
           /\ PermitsConserved'
<1> DEFINE x == CASE acq[t] = "new"     -> "unborn"
                  [] acq[t] = "queued"  -> "dropping"
                  [] acq[t] = "granted" -> "returning"
                  [] OTHER              -> acq[t]
<1>1. TypeOK /\ acq' = [acq EXCEPT ![t] = x] /\ ready' = Without(ready, t) /\ UNCHANGED <<deque, value>>
    BY DEF IInv, CancelAcquire
<1>2. /\ x \in AcqStates
      /\ acq[t] \in {"granted", "done", "returning"} <=> x \in {"granted", "done", "returning"}
    BY DEF AcqStates
<1> HIDE DEF x
<1>3. acq \in [Tasks -> AcqStates] /\ ready \in Seq(Tasks)
    BY <1>1 DEF TypeOK
<1>4. /\ ready' \in Seq(Tasks)
      /\ \A i \in 1..Len(ready') : \E j \in 1..Len(ready) : ready'[i] = ready[j]
      /\ \A i \in 1..Len(ready') : ready'[i] # t
      /\ \A i, j \in 1..Len(ready') : ready'[i] = ready'[j] => i = j
    <2> DEFINE w == Without(ready, t)
    <2>1. \A i, j \in 1..Len(ready) : ready[i] = ready[j] => i = j
        BY DEF IInv, ReadyFresh
    <2>2. /\ w \in Seq(Tasks)
          /\ \A i \in 1..Len(w) : \E j \in 1..Len(ready) : w[i] = ready[j]
          /\ \A i \in 1..Len(w) : w[i] # t
          /\ \A i, j \in 1..Len(w) : w[i] = w[j] => i = j
        BY <1>3, <2>1, WithoutFacts
    <2> HIDE DEF w
    <2>3. ready' = w
        BY <1>1 DEF w
    <2> QED BY <2>2, <2>3
<1>5. ReadyFresh'
    <2>1. ASSUME NEW i \in 1..Len(ready')
          PROVE  acq'[ready'[i]] = "new"
        <3>1. PICK j \in 1..Len(ready) : ready'[i] = ready[j]
            BY <1>4
        <3>2. ready[j] \in Tasks /\ acq[ready[j]] = "new" /\ ready[j] # t
            BY <1>3, <1>4, <3>1, ElementOfSeq DEF IInv, ReadyFresh
        <3> QED BY <1>1, <1>3, <3>1, <3>2
    <2> QED BY <1>4, <2>1 DEF ReadyFresh
<1>6. PermitsConserved'
    <2>1. HeldIn(acq') = Holding /\ HeldIn(acq') = Holding'
        BY <1>1, <1>2, <1>3, OneMoves DEF Holding, HeldIn
    <2> QED BY <1>1, <2>1 DEF IInv, PermitsConserved
<1>7. /\ acq' \in [Tasks -> AcqStates]
      /\ \A u \in Tasks : u # t => acq'[u] = acq[u]
    BY <1>1, <1>2, <1>3
<1> QED BY <1>1, <1>4, <1>5, <1>6, <1>7 DEF TypeOK

LEMMA CancelWhileMarkingKeeps ==
    ASSUME IInv, NEW t \in Tasks, CancelWhileMarking(t)
    PROVE  IInv'
<1>1. /\ pc[t] \in {"marking", "waiting"}
      /\ acq[t] \in {"new", "queued", "granted"}
      /\ CancelAcquire(t)
      /\ QuitLine(t)
    BY DEF CancelWhileMarking
<1>2. /\ acq' \in [Tasks -> AcqStates]
      /\ value' \in Nat
      /\ deque' \in Seq(Tasks)
      /\ ready' \in Seq(Tasks)
      /\ \A u \in Tasks : u # t => acq'[u] = acq[u]
      /\ ReadyFresh'
      /\ PermitsConserved'
    BY <1>1, CancelAcquireKeeps
<1> QED BY <1>1, <1>2, QuitLineKeeps

LEMMA CancelWhileWaitingKeeps ==
    ASSUME IInv, NEW t \in Tasks, CancelWhileWaiting(t)
    PROVE  IInv'
<1>1. /\ TypeOK
      /\ pc[t] = "waiting"
      /\ acq[t] \in {"new", "queued", "granted"}
      /\ CancelAcquire(t)
      /\ UNCHANGED <<pc, waiting, active, inflight>>
    BY DEF IInv, CancelWhileWaiting
<1>2. /\ acq' \in [Tasks -> AcqStates]
      /\ value' \in Nat
      /\ deque' \in Seq(Tasks)
      /\ ready' \in Seq(Tasks)
      /\ \A u \in Tasks : u # t => acq'[u] = acq[u]
      /\ ReadyFresh'
      /\ PermitsConserved'
    BY <1>1, CancelAcquireKeeps
<1>3. TypeOK'
    BY <1>1, <1>2 DEF TypeOK
<1>4. Shape'
    BY <1>1, <1>2 DEF IInv, Shape
<1>5. InflightExact'
    BY <1>1 DEF IInv, InflightExact, Inside
<1> QED BY <1>2, <1>3, <1>4, <1>5 DEF IInv

LEMMA UnwindKeeps ==
    ASSUME IInv, NEW t \in Tasks, Unwind(t)
    PROVE  IInv'
<1>1. /\ TypeOK
      /\ pc[t] \in {"marking", "waiting"}
      /\ acq[t] = "cancelled"
      /\ acq' = [acq EXCEPT ![t] = "none"]
      /\ QuitLine(t)
      /\ UNCHANGED <<ready, deque, value>>
      /\ "none" \in AcqStates
    BY DEF IInv, Unwind, AcqStates
<1>2. acq \in [Tasks -> AcqStates] /\ ready \in Seq(Tasks) /\ deque \in Seq(Tasks) /\ value \in Nat
    BY <1>1 DEF TypeOK
<1>3. ReadyFresh'
    <2>1. \A i \in 1..Len(ready) : ready[i] \in Tasks /\ acq[ready[i]] = "new"
        BY <1>2, ElementOfSeq DEF IInv, ReadyFresh
    <2>2. \A i \in 1..Len(ready) : acq'[ready[i]] = "new"
        BY <1>1, <1>2, <2>1
    <2> QED BY <1>1, <2>2 DEF IInv, ReadyFresh
<1>4. PermitsConserved'
    <2>1. HeldIn(acq') = Holding /\ HeldIn(acq') = Holding'
        BY <1>1, <1>2, OneMoves DEF Holding, HeldIn
    <2> QED BY <1>1, <2>1 DEF IInv, PermitsConserved
<1>5. acq' \in [Tasks -> AcqStates] /\ \A u \in Tasks : u # t => acq'[u] = acq[u]
    BY <1>1, <1>2
<1> QED BY <1>1, <1>2, <1>3, <1>4, <1>5, QuitLineKeeps

-----------------------------------------------------------------------------
LEMMA NextKeepsIInv == IInv /\ [Next]_vars => IInv'
<1> SUFFICES ASSUME IInv, [Next]_vars PROVE IInv'
    OBVIOUS
<1>1. CASE UNCHANGED vars
    BY <1>1 DEF vars, IInv, TypeOK, ReadyFresh, Shape, PermitsConserved, Holding, InflightExact, Inside
<1>2. CASE AcquireBegins
    BY <1>2, AcquireBeginsKeeps
<1>3. ASSUME NEW t \in Tasks, EventLoop(t)
      PROVE  IInv'
    <2>1. CASE AcquireResumes(t)
        BY <2>1, AcquireResumesKeeps
    <2>2. CASE AcquireCancelled(t)
        BY <2>2, AcquireCancelledKeeps
    <2>3. CASE MarkedQueued(t)
        <3>1. waiting \in Seq(Tasks)
            BY DEF IInv, TypeOK
        <3> QED BY <2>3, <3>1, PcMovesKeeps DEF MarkedQueued, PCs
    <2>4. CASE Activate(t)
        <3>1. Without(waiting, t) \in Seq(Tasks)
            BY WithoutFacts DEF IInv, TypeOK
        <3> QED BY <2>4, <3>1, PcMovesKeeps DEF Activate, PCs
    <2>5. CASE Unwind(t)
        BY <2>5, UnwindKeeps
    <2> QED BY <1>3, <2>1, <2>2, <2>3, <2>4, <2>5 DEF EventLoop
<1>4. ASSUME NEW t \in Tasks, Cancel(t)
      PROVE  IInv'
    BY <1>4, CancelHoldingSlotKeeps, CancelWhileMarkingKeeps, CancelWhileWaitingKeeps DEF Cancel
<1>5. ASSUME NEW t \in Tasks, Request(t)
      PROVE  IInv'
    <2>1. waiting \in Seq(Tasks)
        BY DEF IInv, TypeOK
    <2>2. CASE ResolveAdmitted(t)
        BY <2>1, <2>2, PcMovesKeeps DEF ResolveAdmitted, PCs
    <2>3. CASE ResolveFails(t)
        BY <2>1, <2>3, PcMovesKeeps DEF ResolveFails, PCs
    <2>4. CASE ResolveCreates(t) \/ RestartFinished(t)
        BY <2>4, EnterSlotKeeps DEF ResolveCreates, RestartFinished
    <2> QED BY <1>5, <2>2, <2>3, <2>4 DEF Request
<1> QED BY <1>1, <1>2, <1>3, <1>4, <1>5, LeaveBlockKeeps DEF Next

LEMMA IInvAlways == Spec => []IInv
BY InitEstablishesIInv, NextKeepsIInv, PTL DEF Spec

(* Every variable keeps its type: in particular neither the semaphore's counter nor _inflight   *)
(* ever goes below zero, whatever is cancelled (TaskQueue.slot).                                *)
THEOREM TypeCorrect == Spec => []TypeOK
<1>1. IInv => TypeOK
    BY DEF IInv
<1> QED BY <1>1, IInvAlways, PTL

(* No run slot is lost or invented: the free permits and the ones some acquire() was granted or *)
(* a task holds always add up to MAX_CONCURRENT_TASKS (TaskQueue.slot and its except branch).   *)
THEOREM PermitsAreConserved == Spec => []PermitsConserved
<1>1. IInv => PermitsConserved
    BY DEF IInv
<1> QED BY <1>1, IInvAlways, PTL

(* At most MAX_CONCURRENT_TASKS tasks are inside the block of slot() at once. *)
THEOREM CapacityHolds == Spec => []Capacity
<1>1. IInv => Capacity
    <2> SUFFICES ASSUME IInv, Limit > 0 PROVE Cardinality(active) <= Limit
        BY DEF Capacity
    <2>1. active \subseteq Holding
        BY DEF IInv, Shape, Holding
    <2>2. IsFiniteSet(Holding) /\ Cardinality(Holding) \in Nat
        BY HeldFinite DEF Holding, HeldIn
    <2>3. Cardinality(active) <= Cardinality(Holding) /\ Cardinality(active) \in Nat
        BY <2>1, <2>2, FS_Subset, FS_CardinalityType
    <2> QED BY <2>2, <2>3 DEF IInv, TypeOK, PermitsConserved
<1> QED BY <1>1, IInvAlways, PTL

(* _inflight is the number of calls inside slot(), so the decision who must wait is never made  *)
(* on a stale count.                                                                            *)
THEOREM InflightIsExact == Spec => []InflightExact
<1>1. IInv => InflightExact
    BY DEF IInv
<1> QED BY <1>1, IInvAlways, PTL

-----------------------------------------------------------------------------
(* Where every acquire() stands *)

(* The deque holds the acquire() tasks that wait on a future, answered or not, and `ready` those *)
(* that have not begun, each once.                                                              *)
LinesExact ==
    /\ OneEach(deque)
    /\ \A t \in Tasks : Listed(deque, t) <=> acq[t] \in {"queued", "granted", "dropping", "returning"}
    /\ \A t \in Tasks : Listed(ready, t) <=> acq[t] = "new"

(* A free permit and a waiter never just coexist. *)
QInv == IInv /\ LinesExact /\ NoStrandedPermit

LEMMA InitEstablishesQInv == Init => QInv
<1> SUFFICES ASSUME Init PROVE QInv
    OBVIOUS
<1>1. IInv
    BY InitEstablishesIInv
<1>2. Len(deque) = 0 /\ Len(ready) = 0
    BY EmptySeq DEF Init
<1>3. LinesExact
    BY <1>2 DEF Init, LinesExact, OneEach, Listed
<1>4. NoStrandedPermit
    BY DEF Init, NoStrandedPermit
<1> QED BY <1>1, <1>3, <1>4 DEF QInv

(* What QInv says of the order of the line, in one place. *)
LEMMA LineFacts ==
    ASSUME QInv
    PROVE  /\ acq \in [Tasks -> AcqStates]
           /\ deque \in Seq(Tasks) /\ ready \in Seq(Tasks) /\ value \in Nat
           /\ OneEach(deque) /\ OneEach(ready)
           /\ \A t \in Tasks : Listed(deque, t) <=> acq[t] \in {"queued", "granted", "dropping", "returning"}
           /\ \A t \in Tasks : Listed(ready, t) <=> acq[t] = "new"
           /\ InLine \subseteq Tasks
           /\ Ahead \in [InLine -> SUBSET InLine]
<1>1. OneEach(ready)
    BY DEF QInv, IInv, ReadyFresh, OneEach
<1> QED BY <1>1 DEF QInv, IInv, TypeOK, LinesExact, InLine, Ahead

-----------------------------------------------------------------------------
(* Every step keeps it, and does to the line what SlotLine allows: one lemma per kind of step *)

(* What any step but an arrival is to the line. *)
LineAdvances ==
    \/ \E t \in Tasks : SL!GiveUp(t)
    \/ \E back \in SUBSET Holding : \E first \in SUBSET SL!Waiting : SL!Serve(back, first)
    \/ UNCHANGED SL!vars

LineKept == LinesExact' /\ NoStrandedPermit' /\ LineAdvances

(* A task in slot() with a limit is the last one of the line. *)
LEMMA Arrives ==
    ASSUME QInv, NEW t \in Tasks, acq[t] = "none", acq' = [acq EXCEPT ![t] = "new"],
           ready' = Append(ready, t), UNCHANGED <<deque, value>>
    PROVE  LinesExact' /\ NoStrandedPermit' /\ SL!Arrive(t)
<1>1. /\ acq \in [Tasks -> AcqStates]
      /\ ready \in Seq(Tasks)
      /\ \A u \in Tasks : Listed(deque, u) <=> acq[u] \in {"queued", "granted", "dropping", "returning"}
      /\ \A u \in Tasks : Listed(ready, u) <=> acq[u] = "new"
      /\ OneEach(deque)
    BY LineFacts
<1>2. /\ \A u : Listed(ready', u) <=> Listed(ready, u) \/ u = t
      /\ \A u, v : Comes(ready', u, v) <=> Comes(ready, u, v) \/ (v = t /\ Listed(ready, u))
    BY <1>1, AppendOrder
<1>3. \A u \in Tasks : acq'[u] = IF u = t THEN "new" ELSE acq[u]
    BY <1>1
<1>4. LinesExact'
    BY <1>1, <1>2, <1>3 DEF LinesExact
<1>5. NoStrandedPermit'
    BY <1>3 DEF QInv, NoStrandedPermit
<1>6. InLine' = InLine \cup {t} /\ t \notin InLine /\ Holding' = Holding /\ t \notin Holding
    BY <1>3 DEF InLine, Holding
<1>7. ASSUME NEW u, NEW v, Comes(deque, u, v) \/ Comes(ready, u, v)
      PROVE  (Listed(deque, u) /\ Listed(deque, v)) \/ (Listed(ready, u) /\ Listed(ready, v))
    BY <1>7 DEF Comes, Listed
<1>8. ASSUME NEW u \in InLine', NEW v \in InLine'
      PROVE  Before(u, v)' <=> IF v = t THEN u \in InLine ELSE u # t /\ Before(u, v)
    <2>1. u \in Tasks /\ v \in Tasks
        BY DEF InLine
    <2>2. ~ Listed(deque, t) /\ ~ Listed(ready, t)
        BY <1>1
    <2>3. CASE v = t
        <3>1. ~ Comes(deque, u, v) /\ ~ Comes(ready, u, v)
            BY <1>7, <2>2, <2>3
        <3> QED BY <3>1, <2>1, <2>3, <1>1, <1>2, <1>3, <1>6 DEF Before, InLine
    <2>4. CASE v # t
        <3>1. u = t => ~ Comes(deque, u, v) /\ ~ Comes(ready, u, v)
            BY <1>7, <2>2
        <3> QED BY <3>1, <2>1, <2>4, <1>2, <1>3 DEF Before
    <2> QED BY <2>3, <2>4
<1>9. Ahead' = [u \in InLine \cup {t} |-> IF u = t THEN InLine ELSE Ahead[u]]
    <2>1. Ahead' = [v \in InLine' |-> {u \in InLine' : Before(u, v)'}]
        BY DEF Ahead
    <2>2. ASSUME NEW v \in InLine'
          PROVE  {u \in InLine' : Before(u, v)'} = IF v = t THEN InLine ELSE Ahead[v]
        BY <1>6, <1>8 DEF Ahead
    <2> QED BY <2>1, <2>2, <1>6
<1>10. DOMAIN Ahead = InLine
    BY DEF Ahead
<1> QED BY <1>4, <1>5, <1>6, <1>9, <1>10 DEF SL!Arrive, SL!Waiting


(* Steps that leave the line as it is: nobody in it, and nobody with a permit, moves. *)
LEMMA StandsStill ==
    ASSUME QInv, UNCHANGED <<ready, deque, value>>,
           \A u \in Tasks : \/ acq'[u] = acq[u]
                            \/ /\ acq[u] \in {"none", "unborn", "cancelled"}
                               /\ acq'[u] \in {"none", "unborn", "cancelled"}
    PROVE  LineKept
<1>1. LinesExact'
    BY DEF QInv, LinesExact
<1>2. NoStrandedPermit'
    BY DEF QInv, NoStrandedPermit
<1>3. InLine' = InLine /\ Holding' = Holding
    BY DEF InLine, Holding
<1>4. \A u, v \in InLine : Before(u, v)' <=> Before(u, v)
    BY DEF InLine, Before
<1>5. Ahead' = Ahead
    <2>1. Ahead' = [v \in InLine' |-> {u \in InLine' : Before(u, v)'}]
        BY DEF Ahead
    <2> QED BY <2>1, <1>3, <1>4 DEF Ahead
<1> QED BY <1>1, <1>2, <1>3, <1>5 DEF SL!vars, LineKept, LineAdvances

(* A cancelled task leaves the line, or was out of it already with its permit on the way. *)
LEMMA Quits ==
    ASSUME QInv, NEW t \in Tasks, acq[t] \in {"new", "queued", "granted"}, CancelAcquire(t)
    PROVE  LineKept
<1>1. /\ acq \in [Tasks -> AcqStates]
      /\ ready \in Seq(Tasks)
      /\ OneEach(deque) /\ OneEach(ready)
      /\ \A u \in Tasks : Listed(deque, u) <=> acq[u] \in {"queued", "granted", "dropping", "returning"}
      /\ \A u \in Tasks : Listed(ready, u) <=> acq[u] = "new"
    BY LineFacts
<1>2. /\ UNCHANGED <<deque, value>>
      /\ ready' = Without(ready, t)
      /\ \A u \in Tasks : u # t => acq'[u] = acq[u]
      /\ acq[t] = "new" => acq'[t] = "unborn"
      /\ acq[t] = "queued" => acq'[t] = "dropping"
      /\ acq[t] = "granted" => acq'[t] = "returning"
    BY <1>1 DEF CancelAcquire
<1>3. /\ \A u : Listed(ready', u) <=> Listed(ready, u) /\ u # t
      /\ \A u, v : u # t /\ v # t => (Comes(ready', u, v) <=> Comes(ready, u, v))
    BY <1>1, <1>2, WithoutOrder
<1>4. LinesExact'
    BY <1>1, <1>2, <1>3 DEF LinesExact
<1>5. NoStrandedPermit'
    BY <1>2 DEF QInv, NoStrandedPermit
<1>6. InLine' = InLine \ {t} /\ Holding' = Holding
    BY <1>2 DEF InLine, Holding
<1>7. \A u, v \in InLine \ {t} : Before(u, v)' <=> Before(u, v)
    BY <1>2, <1>3 DEF InLine, Before
<1>8. Ahead' = [v \in InLine \ {t} |-> {u \in InLine \ {t} : Before(u, v)}]
    <2>1. Ahead' = [v \in InLine' |-> {u \in InLine' : Before(u, v)'}]
        BY DEF Ahead
    <2> QED BY <2>1, <1>6, <1>7
<1>9. CASE t \in InLine
    <2>1. DOMAIN Ahead = InLine /\ \A v \in InLine : Ahead[v] = {u \in InLine : Before(u, v)}
        BY DEF Ahead
    <2>2. Ahead' = [v \in InLine \ {t} |-> Ahead[v] \ {t}]
        BY <1>8, <2>1
    <2>3. SL!GiveUp(t)
        BY <1>6, <1>9, <2>1, <2>2 DEF SL!GiveUp, SL!Waiting
    <2> QED BY <1>4, <1>5, <2>3 DEF LineKept, LineAdvances
<1>10. CASE t \notin InLine
    <2>1. Ahead' = Ahead
        BY <1>8, <1>10 DEF Ahead
    <2> QED BY <1>4, <1>5, <1>6, <2>1 DEF SL!vars, LineKept, LineAdvances
<1> QED BY <1>9, <1>10

(* SlotLine counts as TaskQueue does. *)
LEMMA SameCount == \A S : SL!Cardinality(S) = Cardinality(S)
BY DEF SL!Cardinality, Cardinality

(* The permits that are out after a step never exceed the limit. *)
LEMMA HoldingBounded ==
    ASSUME TypeOK', PermitsConserved'
    PROVE  Cardinality(Holding') <= Limit
<1>1. Holding' = HeldIn(acq')
    BY DEF Holding, HeldIn
<1>2. Cardinality(Holding') \in Nat
    BY <1>1, HeldFinite
<1> QED BY <1>2, LimitAssumption DEF TypeOK, PermitsConserved

(* The oldest acquire() that has not begun either has the line to itself and takes a permit, or *)
(* gets its future behind all the others, which moves nobody.                                   *)
LEMMA Begins ==
    ASSUME QInv, IInv', AcquireBegins
    PROVE  LineKept
<1> DEFINE h == Head(ready)
<1>1. /\ acq \in [Tasks -> AcqStates]
      /\ deque \in Seq(Tasks) /\ ready \in Seq(Tasks) /\ value \in Nat
      /\ OneEach(deque) /\ OneEach(ready)
      /\ \A u \in Tasks : Listed(deque, u) <=> acq[u] \in {"queued", "granted", "dropping", "returning"}
      /\ \A u \in Tasks : Listed(ready, u) <=> acq[u] = "new"
    BY LineFacts
<1>2. ready # <<>> /\ h \in Tasks
    BY <1>1, HeadTailProperties DEF AcquireBegins
<1>3. /\ \A t : Listed(Tail(ready), t) <=> Listed(ready, t) /\ t # h
      /\ \A u, t : u # h => (Comes(Tail(ready), u, t) <=> Comes(ready, u, t))
      /\ \A u, t : Comes(Tail(ready), u, t) => u # h /\ t # h
      /\ \A t : Comes(ready, h, t) <=> Listed(ready, t) /\ t # h
      /\ \A u : ~ Comes(ready, u, h)
      /\ Listed(ready, h)
    BY <1>1, <1>2, TailOrder
<1>4. ready' = Tail(ready) /\ UNCHANGED <<pc, waiting, active, inflight>>
    BY DEF AcquireBegins
<1> HIDE DEF h
<1>5. acq[h] = "new" /\ h \in InLine /\ h \notin Holding
    BY <1>1, <1>2, <1>3 DEF InLine, Holding
<1>6. \A u, v : Comes(deque, u, v) => Listed(deque, u) /\ Listed(deque, v)
    BY DEF Comes, Listed
<1>7. ~ Listed(deque, h)
    BY <1>1, <1>2, <1>5
<1>8. Ahead' = [w \in InLine' |-> {u \in InLine' : Before(u, w)'}]
    BY DEF Ahead
<1>9. CASE Locked
    <2>1. /\ acq' = [acq EXCEPT ![h] = "queued"]
          /\ deque' = Append(deque, h)
          /\ value' = value
        BY <1>9 DEF AcquireBegins, h
    <2>2. \A u \in Tasks : acq'[u] = IF u = h THEN "queued" ELSE acq[u]
        BY <1>1, <2>1
    <2>3. /\ \A t : Listed(deque', t) <=> Listed(deque, t) \/ t = h
          /\ \A u, t : Comes(deque', u, t) <=> Comes(deque, u, t) \/ (t = h /\ Listed(deque, u))
          /\ OneEach(deque')
        BY <1>1, <1>2, <1>7, <2>1, AppendOrder
    <2>4. LinesExact'
        BY <1>1, <1>3, <1>4, <1>5, <2>2, <2>3 DEF LinesExact
    <2>5. NoStrandedPermit'
        <3> SUFFICES ASSUME value > 0
                     PROVE  \E t \in Tasks : acq'[t] \in {"granted", "returning"}
            BY <2>1 DEF NoStrandedPermit
        <3>1. \E t \in Tasks : acq[t] \in {"queued", "granted", "returning"}
            BY <1>1, <1>9 DEF Locked
        <3>2. PICK t \in Tasks : acq[t] \in {"granted", "returning"}
            BY <3>1 DEF QInv, NoStrandedPermit
        <3> QED BY <3>2, <1>5, <2>2
    <2>6. InLine' = InLine /\ Holding' = Holding
        BY <1>2, <1>5, <2>2 DEF InLine, Holding
    <2>7. ASSUME NEW u \in InLine, NEW v \in InLine
          PROVE  Before(u, v)' <=> Before(u, v)
        <3>1. u \in Tasks /\ v \in Tasks /\ acq[u] \in {"new", "queued"} /\ acq[v] \in {"new", "queued"}
            BY DEF InLine
        <3>2. Before(u, v)' <=> \/ Comes(deque, u, v) \/ (v = h /\ Listed(deque, u))
                                \/ Comes(Tail(ready), u, v)
                                \/ acq'[u] = "queued" /\ acq'[v] = "new"
            BY <1>4, <2>3 DEF Before
        <3>3. CASE v = h
            BY <3>1, <3>2, <3>3, <1>1, <1>3, <1>5, <1>6, <1>7, <2>2 DEF Before
        <3>4. CASE v # h /\ u = h
            BY <3>1, <3>2, <3>4, <1>1, <1>3, <1>5, <1>6, <1>7, <2>2 DEF Before
        <3>5. CASE v # h /\ u # h
            BY <3>1, <3>2, <3>5, <1>3, <2>2 DEF Before
        <3> QED BY <3>3, <3>4, <3>5
    <2>8. Ahead' = Ahead
        BY <1>8, <2>6, <2>7 DEF Ahead
    <2> QED BY <2>4, <2>5, <2>6, <2>8 DEF SL!vars, LineKept, LineAdvances
<1>10. CASE ~ Locked
    <2>1. /\ acq' = [acq EXCEPT ![h] = "done"]
          /\ deque' = deque
        BY <1>10 DEF AcquireBegins, h
    <2>2. \A u \in Tasks : acq'[u] = IF u = h THEN "done" ELSE acq[u]
        BY <1>1, <2>1
    <2>3. \A u \in Tasks : acq[u] \notin {"queued", "granted", "returning"}
        BY <1>10 DEF Locked
    <2>4. LinesExact'
        BY <1>1, <1>3, <1>4, <1>5, <2>1, <2>2 DEF LinesExact
    <2>5. NoStrandedPermit'
        BY <2>2, <2>3 DEF NoStrandedPermit
    <2>6. InLine' = InLine \ {h} /\ Holding' = Holding \cup {h}
        BY <1>2, <2>2 DEF InLine, Holding
    <2>7. \A u, v \in InLine \ {h} : Before(u, v)' <=> Before(u, v)
        BY <1>3, <1>4, <2>1, <2>2 DEF Before, InLine
    <2>8. \A u \in InLine : ~ Before(u, h)
        BY <1>3, <1>6, <1>7, <2>3 DEF Before, InLine
    <2>9. DOMAIN Ahead = InLine /\ \A v \in InLine : Ahead[v] = {u \in InLine : Before(u, v)}
        BY DEF Ahead
    <2>10. Ahead' = [v \in InLine \ {h} |-> Ahead[v] \ {h}]
        BY <1>8, <2>6, <2>7, <2>9
    <2>11. Cardinality(Holding') <= Limit
        BY HoldingBounded DEF IInv
    <2>12. SL!Serve({}, {h})
        BY <1>5, <2>6, <2>8, <2>9, <2>10, <2>11, FS_EmptySet, SameCount DEF SL!Serve, SL!Waiting
    <2>13. {} \in SUBSET Holding /\ {h} \in SUBSET SL!Waiting
        BY <1>5, <2>9 DEF SL!Waiting
    <2> QED BY <2>4, <2>5, <2>12, <2>13 DEF LineKept, LineAdvances
<1> QED BY <1>9, <1>10


(* release() and the end of acquire(): the call lets go of its future, at most its own permit    *)
(* comes back, and the permits that are free go to the first in line.                           *)
LEMMA Serves ==
    ASSUME QInv, IInv', NEW t \in Tasks, NEW x \in {"none", "done", "cancelled"}, NEW n \in Nat, NEW v \in Nat,
           acq[t] \in {"granted", "dropping", "returning", "done"}, acq[t] = "granted" <=> x = "done",
           deque' = Without(deque, t), ready' = ready, v > 0 => n > 0,
           WakeUp(n, v, [acq EXCEPT ![t] = x])
    PROVE  LineKept
<1> DEFINE a == [acq EXCEPT ![t] = x]
           m == Min2(n, v)
           W == FirstQueued(m, a, deque')
           back == IF t \in Holding /\ x # "done" THEN {t} ELSE {}
<1>1. /\ acq \in [Tasks -> AcqStates]
      /\ deque \in Seq(Tasks)
      /\ OneEach(deque)
      /\ \A u \in Tasks : Listed(deque, u) <=> acq[u] \in {"queued", "granted", "dropping", "returning"}
      /\ \A u \in Tasks : Listed(ready, u) <=> acq[u] = "new"
    BY LineFacts
<1>2. /\ OneEach(deque')
      /\ \A u : Listed(deque', u) <=> Listed(deque, u) /\ u # t
      /\ \A u, w : u # t /\ w # t => (Comes(deque', u, w) <=> Comes(deque, u, w))
    BY <1>1, WithoutOrder
<1>3. /\ a \in [Tasks -> AcqStates] /\ m \in Nat /\ deque' \in Seq(Tasks)
      /\ v > 0 => m > 0
    BY <1>1 DEF AcqStates, Min2, IInv, TypeOK
<1>4. \A u \in Tasks : a[u] = IF u = t THEN x ELSE acq[u]
    BY <1>1
<1>5. acq' = [u \in Tasks |-> IF u \in W THEN "granted" ELSE a[u]] /\ value' = v - Cardinality(W)
    BY DEF WakeUp
<1>6. W \subseteq {u \in Tasks : a[u] = "queued"}
    BY <1>3, FirstQueuedFacts
<1>7. /\ \A u \in W : Listed(deque', u)
      /\ \A w \in W : \A u \in Tasks : a[u] = "queued" /\ Comes(deque', u, w) => u \in W
      /\ \A u \in Tasks : m > 0 /\ Listed(deque', u) /\ a[u] = "queued" => W # {}
    BY <1>2, <1>3, FirstQueuedOrder
<1> HIDE DEF a, m, W
<1>8. /\ W \subseteq Tasks
      /\ \A u \in W : u # t /\ acq[u] = "queued"
      /\ \A u \in Tasks : acq'[u] = IF u \in W THEN "granted" ELSE IF u = t THEN x ELSE acq[u]
    BY <1>4, <1>5, <1>6
<1>9. LinesExact'
    <2>1. acq[t] # "done" => Listed(deque, t)
        BY <1>1
    <2>2. ASSUME NEW u \in Tasks
          PROVE  Listed(deque', u) <=> acq'[u] \in {"queued", "granted", "dropping", "returning"}
        BY <1>1, <1>2, <1>8
    <2>3. ASSUME NEW u \in Tasks
          PROVE  Listed(ready', u) <=> acq'[u] = "new"
        BY <1>1, <1>8
    <2> QED BY <1>2, <2>2, <2>3 DEF LinesExact
<1>10. NoStrandedPermit'
    <2> SUFFICES ASSUME value' > 0, NEW u \in Tasks, acq'[u] = "queued"
                 PROVE  \E w \in Tasks : acq'[w] = "granted"
        BY DEF NoStrandedPermit
    <2>1. Cardinality(W) \in Nat
        BY <1>8, TasksAssumption, FS_Subset, FS_CardinalityType
    <2>2. v > 0
        BY <1>5, <2>1
    <2>3. a[u] = "queued" /\ Listed(deque', u)
        BY <1>4, <1>8, <1>9 DEF LinesExact
    <2> QED BY <1>3, <1>7, <1>8, <2>2, <2>3
<1>11. /\ InLine' = InLine \ W
       /\ W \subseteq InLine
       /\ t \notin InLine
       /\ Holding' = (Holding \ back) \cup W
       /\ back \subseteq Holding
    <2>1. W \subseteq InLine /\ t \notin InLine
        BY <1>8 DEF InLine
    <2>2. InLine' = InLine \ W
        BY <1>8 DEF InLine
    <2>3. Holding' = (Holding \ back) \cup W
        BY <1>8 DEF Holding
    <2> QED BY <2>1, <2>2, <2>3
<1>12. \A u, w \in InLine \ W : Before(u, w)' <=> Before(u, w)
    BY <1>2, <1>8, <1>11 DEF Before, InLine
<1>13. ASSUME NEW w \in W, NEW u \in InLine, Before(u, w)
       PROVE  u \in W
    <2>1. ~ Listed(ready, w) /\ u \in Tasks /\ u # t /\ w # t
        BY <1>1, <1>8, <1>11 DEF InLine
    <2>2. Comes(deque, u, w)
        BY <2>1, <1>8, <1>13 DEF Before, Comes, Listed
    <2>3. Listed(deque, u)
        BY <2>2 DEF Comes, Listed
    <2>4. a[u] = "queued"
        BY <1>1, <1>4, <2>1, <2>3 DEF InLine
    <2>5. Comes(deque', u, w)
        BY <1>2, <2>1, <2>2
    <2> QED BY <1>7, <2>1, <2>4, <2>5
<1>14. DOMAIN Ahead = InLine /\ \A w \in InLine : Ahead[w] = {u \in InLine : Before(u, w)}
    BY DEF Ahead
<1>15. Ahead' = [w \in InLine \ W |-> Ahead[w] \ W]
    <2>1. Ahead' = [w \in InLine' |-> {u \in InLine' : Before(u, w)'}]
        BY DEF Ahead
    <2> QED BY <2>1, <1>11, <1>12, <1>14
<1>16. Cardinality(back) <= 1 /\ Cardinality(Holding') <= Limit
    <2>1. Cardinality({}) = 0 /\ Cardinality({t}) = 1
        BY FS_EmptySet, FS_Singleton
    <2> QED BY <2>1, HoldingBounded DEF IInv
<1> HIDE DEF back
<1>17. SL!Serve(back, W)
    <2>1. \A w \in W : Ahead[w] \subseteq W
        BY <1>11, <1>13, <1>14
    <2> QED BY <1>11, <1>14, <1>15, <1>16, <2>1, SameCount DEF SL!Serve, SL!Waiting
<1>18. back \in SUBSET Holding /\ W \in SUBSET SL!Waiting
    BY <1>11, <1>14 DEF SL!Waiting
<1> QED BY <1>9, <1>10, <1>17, <1>18 DEF LineKept, LineAdvances


LEMMA AcquireResumesServes ==
    ASSUME QInv, IInv', NEW t \in Tasks, AcquireResumes(t)
    PROVE  LineKept
<1>1. /\ acq[t] = "granted"
      /\ deque' = Without(deque, t)
      /\ ready' = ready
      /\ WakeUp(value, value, [acq EXCEPT ![t] = "done"])
    BY DEF AcquireResumes, LeaveDeque
<1>2. value \in Nat
    BY LineFacts
<1> QED BY <1>1, <1>2, Serves

LEMMA AcquireCancelledServes ==
    ASSUME QInv, IInv', NEW t \in Tasks, AcquireCancelled(t)
    PROVE  LineKept
<1> DEFINE over == IF pc[t] = "waiting" THEN "cancelled" ELSE "none"
           v == IF acq[t] = "returning" THEN value + 1 ELSE value
<1>1. /\ acq[t] \in {"unborn", "dropping", "returning"}
      /\ ready' = ready
      /\ over \in {"none", "cancelled"}
      /\ acq \in [Tasks -> AcqStates]
      /\ v \in Nat
    BY LineFacts DEF AcquireCancelled
<1>2. CASE acq[t] = "unborn"
    <2>1. acq' = [acq EXCEPT ![t] = over] /\ UNCHANGED <<ready, deque, value>>
        BY <1>1, <1>2 DEF AcquireCancelled
    <2> HIDE DEF over
    <2> QED BY <1>1, <1>2, <2>1, StandsStill
<1>3. CASE acq[t] # "unborn"
    <2>1. deque' = Without(deque, t) /\ WakeUp(v, v, [acq EXCEPT ![t] = over])
        BY <1>3 DEF AcquireCancelled, LeaveDeque
    <2> HIDE DEF over, v
    <2>2. over \in {"none", "done", "cancelled"} /\ over # "done" /\ acq[t] # "granted"
        BY <1>1
    <2>3. acq[t] \in {"granted", "dropping", "returning", "done"}
        BY <1>1, <1>3
    <2> QED BY <1>1, <2>1, <2>2, <2>3, Serves
<1> QED BY <1>2, <1>3

LEMMA ReleaseServes ==
    ASSUME QInv, IInv', NEW t \in Tasks, acq[t] = "done", Release([acq EXCEPT ![t] = "none"]), ready' = ready
    PROVE  LineKept
<1>1. WakeUp(1, value + 1, [acq EXCEPT ![t] = "none"]) /\ deque' = deque
    BY DEF Release
<1>2. /\ value + 1 \in Nat
      /\ ~ Listed(deque, t)
    BY LineFacts
<1>3. Without(deque, t) = deque
    BY <1>2 DEF Without, Places, Listed
<1>4. 1 \in Nat /\ 1 > 0
    OBVIOUS
<1> QED BY <1>1, <1>2, <1>3, <1>4, Serves

(* A call reaches slot(): from the endpoint that created the task, or for a finished one. *)
Enters(t) == pc[t] \in {"out", "creating"} /\ EnterSlot(t)

LEMMA StepAdvances ==
    ASSUME QInv, IInv', [Next]_vars, \A t \in Tasks : ~ Enters(t)
    PROVE  LineKept
<1>1. CASE UNCHANGED vars
    BY <1>1, StandsStill DEF vars
<1>2. CASE AcquireBegins
    BY <1>2, Begins
<1>3. ASSUME NEW t \in Tasks, EventLoop(t)
      PROVE  LineKept
    <2>1. CASE AcquireResumes(t)
        BY <2>1, AcquireResumesServes
    <2>2. CASE AcquireCancelled(t)
        BY <2>2, AcquireCancelledServes
    <2>3. CASE MarkedQueued(t) \/ Activate(t)
        <3>1. UNCHANGED <<acq, ready, deque, value>>
            BY <2>3 DEF MarkedQueued, Activate
        <3> QED BY <3>1, StandsStill
    <2>4. CASE Unwind(t)
        <3>1. /\ acq \in [Tasks -> AcqStates] /\ acq[t] = "cancelled" /\ acq' = [acq EXCEPT ![t] = "none"]
              /\ UNCHANGED <<ready, deque, value>>
            BY <2>4, LineFacts DEF Unwind
        <3> QED BY <3>1, StandsStill
    <2> QED BY <1>3, <2>1, <2>2, <2>3, <2>4 DEF EventLoop
<1>4. ASSUME NEW t \in Tasks, LeaveBlock(t)
      PROVE  LineKept
    <2>1. CASE Limit = 0
        <3>1. UNCHANGED <<acq, ready, deque, value>>
            BY <1>4, <2>1 DEF LeaveBlock
        <3> QED BY <3>1, StandsStill
    <2>2. CASE Limit # 0
        <3>1. acq[t] = "done"
            BY <1>4, <2>2, LimitAssumption DEF LeaveBlock, QInv, IInv, Shape
        <3>2. Release([acq EXCEPT ![t] = "none"]) /\ ready' = ready
            BY <1>4, <2>2 DEF LeaveBlock
        <3> QED BY <3>1, <3>2, ReleaseServes
    <2> QED BY <2>1, <2>2
<1>5. ASSUME NEW t \in Tasks, Cancel(t)
      PROVE  LineKept
    <2>1. CASE CancelHoldingSlot(t)
        BY <2>1, ReleaseServes DEF CancelHoldingSlot
    <2>2. CASE CancelWhileMarking(t) \/ CancelWhileWaiting(t)
        <3>1. acq[t] \in {"new", "queued", "granted"} /\ CancelAcquire(t)
            BY <2>2 DEF CancelWhileMarking, CancelWhileWaiting
        <3> QED BY <3>1, Quits
    <2> QED BY <1>5, <2>1, <2>2 DEF Cancel
<1>6. ASSUME NEW t \in Tasks, Request(t)
      PROVE  LineKept
    <2>1. CASE ResolveAdmitted(t) \/ ResolveFails(t)
        <3>1. UNCHANGED <<acq, ready, deque, value>>
            BY <2>1 DEF ResolveAdmitted, ResolveFails
        <3> QED BY <3>1, StandsStill
    <2>2. ~ ResolveCreates(t) /\ ~ RestartFinished(t)
        BY DEF Enters, ResolveCreates, RestartFinished
    <2> QED BY <1>6, <2>1, <2>2 DEF Request
<1> QED BY <1>1, <1>2, <1>3, <1>4, <1>5, <1>6 DEF Next

LEMMA EnterSlotArrives ==
    ASSUME QInv, NEW t \in Tasks, EnterSlot(t)
    PROVE  \/ Limit = 0 /\ LineKept
           \/ Limit # 0 /\ LinesExact' /\ NoStrandedPermit' /\ SL!Arrive(t)
<1>1. CASE Limit = 0
    <2>1. UNCHANGED <<acq, ready, deque, value>>
        BY <1>1 DEF EnterSlot
    <2> QED BY <1>1, <2>1, StandsStill
<1>2. CASE Limit # 0
    <2>1. acq[t] = "none" /\ acq' = [acq EXCEPT ![t] = "new"] /\ ready' = Append(ready, t) /\ UNCHANGED <<deque, value>>
        BY <1>2 DEF EnterSlot
    <2> QED BY <1>2, <2>1, Arrives
<1> QED BY <1>1, <1>2

LEMMA NextKeepsQInv == QInv /\ [Next]_vars => QInv' /\ [SL!Next]_(SL!vars)
<1> SUFFICES ASSUME QInv, [Next]_vars
             PROVE  QInv' /\ [SL!Next]_(SL!vars)
    OBVIOUS
<1>1. IInv'
    BY NextKeepsIInv DEF QInv
<1>2. CASE \A t \in Tasks : ~ Enters(t)
    BY <1>1, <1>2, StepAdvances DEF QInv, LineKept, LineAdvances, SL!Next
<1>3. ASSUME NEW t \in Tasks, Enters(t)
      PROVE  QInv' /\ [SL!Next]_(SL!vars)
    BY <1>1, <1>3, EnterSlotArrives DEF Enters, QInv, LineKept, LineAdvances, SL!Next
<1> QED BY <1>2, <1>3

LEMMA QInvAlways == Spec => []QInv
BY InitEstablishesQInv, NextKeepsQInv, PTL DEF Spec

(* A free permit and a waiter never just coexist: some acquire() is still to resume and will    *)
(* hand the permit on, also when the one that was granted it is cancelled (Semaphore.acquire).  *)
THEOREM NoPermitStranded == Spec => []NoStrandedPermit
<1>1. QInv => NoStrandedPermit
    BY DEF QInv
<1> QED BY <1>1, QInvAlways, PTL

LEMMA InitEmptyLine == Init => SL!Init
<1> SUFFICES ASSUME Init PROVE SL!Init
    OBVIOUS
<1>1. InLine = {} /\ Holding = {}
    BY DEF Init, InLine, Holding
<1> QED BY <1>1 DEF Ahead, SL!Init

(* TaskQueue is a line: at most Limit tasks have a slot set aside for them, and none is served  *)
(* before one that arrived earlier and still waits, through any wake-up, any cancellation and   *)
(* any moment a new task may come (TaskQueue.slot on an asyncio.Semaphore).                     *)
THEOREM QueueImplementsSlotLine == Spec => ImplementsSlotLine
BY InitEmptyLine, QInvAlways, NextKeepsQInv, PTL DEF Spec, ImplementsSlotLine, SL!Spec

-----------------------------------------------------------------------------
(* TaskQueue._waiting against the semaphore's line *)

(* Who waits for a permit or has one is inside slot(). *)
InsideKnown ==
    \A t \in Tasks : acq[t] \in {"new", "queued", "granted", "done"} => pc[t] \in {"marking", "waiting", "active"}

(* `_waiting` names calls inside slot() that have not reached their block, each once. *)
WaitersKnown ==
    /\ OneEach(waiting)
    /\ \A t \in Tasks : Listed(waiting, t) => pc[t] \in {"marking", "waiting"}

(* Of two calls of `_waiting` that still wait, the first is ahead in the semaphore's line too ... *)
SameOrder == \A u, t \in InLine : Comes(waiting, u, t) => u \in Ahead[t]

(* ... and none has a permit before those that stand before it, also not one to be given back.  *)
NobodyPassed == \A u \in InLine, t \in Tasks : Comes(waiting, u, t) => t \notin Holding

(* What can be served before t: the calls that have a slot, and those ahead of t. *)
InFront(t) == {u \in Tasks : acq[u] \in {"granted", "done"}} \cup Ahead[t]

RoomLeft == \A t \in InLine : Listed(waiting, t) \/ Cardinality(InFront(t)) < Limit

LInv == QInv /\ InsideKnown /\ WaitersKnown /\ SameOrder /\ NobodyPassed /\ RoomLeft

LEMMA InitEstablishesLInv == Init => LInv
<1> SUFFICES ASSUME Init PROVE LInv
    OBVIOUS
<1>1. Len(waiting) = 0 /\ InLine = {}
    BY EmptySeq DEF Init, InLine
<1>2. \A u, t : ~ Comes(waiting, u, t) /\ ~ Listed(waiting, t)
    BY <1>1 DEF Comes, Listed
<1>3. OneEach(waiting)
    BY <1>1 DEF OneEach
<1>4. InsideKnown
    BY DEF Init, InsideKnown
<1> QED BY <1>1, <1>2, <1>3, <1>4, InitEstablishesQInv DEF LInv, WaitersKnown, SameOrder, NobodyPassed, RoomLeft

(* A step is one call's: nobody else moves, but for waiters that get their permit. *)
OneActs(t) ==
    /\ \A u \in Tasks : u # t => /\ pc'[u] = pc[u]
                                 /\ acq'[u] = acq[u] \/ (acq[u] = "queued" /\ acq'[u] = "granted")
    /\ acq[t] = "returning" => acq'[t] \notin {"granted", "done"}
    /\ pc'[t] \in {"marking", "waiting", "active"} \/ acq'[t] \notin {"new", "queued", "granted", "done"}
    /\ \/ waiting' = waiting /\ (pc[t] \in {"marking", "waiting"} => pc'[t] \in {"marking", "waiting"})
       \/ waiting' = Without(waiting, t) /\ acq'[t] \notin {"new", "queued"}

LEMMA SomebodyActs ==
    ASSUME QInv, InsideKnown, [Next]_vars, \A t \in Tasks : ~ Enters(t)
    PROVE  UNCHANGED vars \/ \E t \in Tasks : OneActs(t)
<1>1. /\ acq \in [Tasks -> AcqStates] /\ pc \in [Tasks -> PCs] /\ value \in Nat
      /\ deque \in Seq(Tasks) /\ ready \in Seq(Tasks)
      /\ \A u \in Tasks : Listed(ready, u) <=> acq[u] = "new"
    BY LineFacts DEF QInv, IInv, TypeOK
<1>2. ASSUME AcquireBegins
      PROVE  OneActs(Head(ready)) /\ Head(ready) \in Tasks
    <2>1. Head(ready) \in Tasks /\ ready # <<>> /\ Head(ready) = ready[1] /\ 1 \in 1..Len(ready)
        BY <1>1, <1>2, HeadTailProperties, LenProperties, EmptySeq DEF AcquireBegins
    <2>2. acq[Head(ready)] = "new"
        BY <1>1, <2>1 DEF Listed
    <2>3. /\ UNCHANGED <<pc, waiting>>
          /\ \/ acq' = [acq EXCEPT ![Head(ready)] = "queued"]
             \/ acq' = [acq EXCEPT ![Head(ready)] = "done"]
        BY <1>2 DEF AcquireBegins
    <2>4. pc[Head(ready)] \in {"marking", "waiting", "active"}
        BY <2>1, <2>2 DEF InsideKnown
    <2> QED BY <1>1, <2>1, <2>2, <2>3, <2>4 DEF OneActs
<1>3. ASSUME NEW t \in Tasks, NEW x \in AcqStates, NEW n \in Nat, NEW v \in Nat, deque' \in Seq(Tasks),
             WakeUp(n, v, [acq EXCEPT ![t] = x])
      PROVE  \A u \in Tasks : \/ acq'[u] = [acq EXCEPT ![t] = x][u]
                              \/ [acq EXCEPT ![t] = x][u] = "queued" /\ acq'[u] = "granted"
    <2> DEFINE a == [acq EXCEPT ![t] = x]
    <2>1. a \in [Tasks -> AcqStates]
        BY <1>1
    <2>2. WakeUp(n, v, a)
        BY <1>3
    <2> HIDE DEF a
    <2>3. \A u \in Tasks : acq'[u] = a[u] \/ (a[u] = "queued" /\ acq'[u] = "granted")
        BY <1>3, <2>1, <2>2, WakeUpFacts
    <2> QED BY <2>3 DEF a
<1>4. ASSUME NEW t \in Tasks, Release([acq EXCEPT ![t] = "none"])
      PROVE  \A u \in Tasks : \/ acq'[u] = [acq EXCEPT ![t] = "none"][u]
                              \/ [acq EXCEPT ![t] = "none"][u] = "queued" /\ acq'[u] = "granted"
    <2>1. deque' \in Seq(Tasks) /\ WakeUp(1, value + 1, [acq EXCEPT ![t] = "none"])
        BY <1>1, <1>4 DEF Release
    <2>2. 1 \in Nat /\ value + 1 \in Nat /\ "none" \in AcqStates
        BY <1>1 DEF AcqStates
    <2> QED BY <1>3, <2>1, <2>2
<1>5. ASSUME NEW t \in Tasks, EventLoop(t)
      PROVE  OneActs(t)
    <2>1. CASE AcquireResumes(t)
        <3>1. /\ acq[t] = "granted" /\ UNCHANGED <<pc, waiting>>
              /\ deque' = Without(deque, t)
              /\ WakeUp(value, value, [acq EXCEPT ![t] = "done"])
            BY <2>1 DEF AcquireResumes, LeaveDeque
        <3>2. deque' \in Seq(Tasks) /\ "done" \in AcqStates
            BY <1>1, <3>1, WithoutFacts DEF AcqStates
        <3>3. \A u \in Tasks : \/ acq'[u] = [acq EXCEPT ![t] = "done"][u]
                               \/ [acq EXCEPT ![t] = "done"][u] = "queued" /\ acq'[u] = "granted"
            BY <1>1, <1>3, <3>1, <3>2
        <3>4. pc[t] \in {"marking", "waiting", "active"}
            BY <3>1 DEF InsideKnown
        <3> QED BY <1>1, <3>1, <3>3, <3>4 DEF OneActs
    <2>2. CASE AcquireCancelled(t)
        <3> DEFINE over == IF pc[t] = "waiting" THEN "cancelled" ELSE "none"
                   v == IF acq[t] = "returning" THEN value + 1 ELSE value
        <3>1. /\ UNCHANGED <<pc, waiting>>
              /\ \/ acq' = [acq EXCEPT ![t] = over]
                 \/ deque' = Without(deque, t) /\ WakeUp(v, v, [acq EXCEPT ![t] = over])
            BY <2>2 DEF AcquireCancelled, LeaveDeque
        <3>2. over \in {"none", "cancelled"} /\ over \in AcqStates /\ v \in Nat
            BY <1>1 DEF AcqStates
        <3> HIDE DEF over, v
        <3>3. \A u \in Tasks : \/ acq'[u] = [acq EXCEPT ![t] = over][u]
                               \/ [acq EXCEPT ![t] = over][u] = "queued" /\ acq'[u] = "granted"
            <4>1. CASE acq' = [acq EXCEPT ![t] = over]
                BY <4>1
            <4>2. CASE deque' = Without(deque, t) /\ WakeUp(v, v, [acq EXCEPT ![t] = over])
                BY <1>1, <1>3, <3>2, <4>2, WithoutFacts
            <4> QED BY <3>1, <4>1, <4>2
        <3> QED BY <1>1, <3>1, <3>2, <3>3 DEF OneActs
    <2>3. CASE MarkedQueued(t)
        BY <1>1, <2>3 DEF MarkedQueued, OneActs
    <2>4. CASE Activate(t)
        BY <1>1, <2>4 DEF Activate, OneActs
    <2>5. CASE Unwind(t)
        BY <1>1, <2>5 DEF Unwind, QuitLine, OneActs
    <2> QED BY <1>5, <2>1, <2>2, <2>3, <2>4, <2>5 DEF EventLoop
<1>6. ASSUME NEW t \in Tasks, LeaveBlock(t)
      PROVE  OneActs(t)
    <2>1. pc[t] = "active" /\ pc' = [pc EXCEPT ![t] = "out"] /\ waiting' = waiting
        BY <1>6 DEF LeaveBlock
    <2>2. CASE Limit = 0
        <3>1. acq' = acq /\ acq[t] = "none"
            BY <1>6, <2>2 DEF LeaveBlock, QInv, IInv, Shape
        <3> QED BY <1>1, <2>1, <3>1 DEF OneActs
    <2>3. CASE Limit # 0
        <3>1. Release([acq EXCEPT ![t] = "none"])
            BY <1>6, <2>3 DEF LeaveBlock
        <3> QED BY <1>1, <1>4, <2>1, <3>1 DEF OneActs
    <2> QED BY <2>2, <2>3
<1>7. ASSUME NEW t \in Tasks, Cancel(t)
      PROVE  OneActs(t)
    <2>1. CASE CancelHoldingSlot(t)
        <3>1. /\ Release([acq EXCEPT ![t] = "none"])
              /\ pc' = [pc EXCEPT ![t] = "out"]
              /\ waiting' = Without(waiting, t)
            BY <2>1 DEF CancelHoldingSlot, QuitLine
        <3> QED BY <1>1, <1>4, <3>1 DEF OneActs
    <2>2. CASE CancelWhileMarking(t) \/ CancelWhileWaiting(t)
        <3>1. /\ \A u \in Tasks : u # t => acq'[u] = acq[u]
              /\ acq'[t] \in {"unborn", "dropping", "returning"}
            BY <1>1, <2>2 DEF CancelWhileMarking, CancelWhileWaiting, CancelAcquire
        <3>2. \/ pc' = [pc EXCEPT ![t] = "out"] /\ waiting' = Without(waiting, t)
              \/ UNCHANGED <<pc, waiting>>
            BY <2>2 DEF CancelWhileMarking, CancelWhileWaiting, QuitLine
        <3> QED BY <1>1, <3>1, <3>2 DEF OneActs
    <2> QED BY <1>7, <2>1, <2>2 DEF Cancel
<1>8. ASSUME NEW t \in Tasks, Request(t)
      PROVE  OneActs(t)
    <2>1. ResolveAdmitted(t) \/ ResolveFails(t)
        BY <1>8 DEF Request, Enters, ResolveCreates, RestartFinished
    <2>2. /\ acq' = acq /\ waiting' = waiting /\ pc[t] \in {"out", "creating"}
          /\ \/ pc' = [pc EXCEPT ![t] = "creating"]
             \/ pc' = [pc EXCEPT ![t] = "out"]
        BY <2>1 DEF ResolveAdmitted, ResolveFails
    <2>3. acq[t] \notin {"new", "queued", "granted", "done"}
        BY <2>2 DEF InsideKnown
    <2> QED BY <1>1, <2>2, <2>3 DEF OneActs
<1> QED BY <1>2, <1>5, <1>6, <1>7, <1>8 DEF Next

(* A step that is no arrival serves and strikes out, and moves nobody past another. *)
LEMMA AdvanceFacts ==
    ASSUME LineAdvances
    PROVE  /\ InLine' \subseteq InLine
           /\ \A t \in InLine' : Ahead'[t] \subseteq Ahead[t]
           /\ \A u, t \in InLine' : u \in Ahead[t] => u \in Ahead'[t]
           /\ \A t \in Holding' : t \in Holding \/ (t \in InLine /\ Ahead[t] \cap InLine' = {})
<1>1. /\ DOMAIN Ahead = InLine /\ DOMAIN Ahead' = InLine'
      /\ \A t \in InLine : Ahead[t] \subseteq InLine
    BY DEF Ahead
<1>2. ASSUME NEW t \in Tasks, SL!GiveUp(t)
      PROVE  Holding' = Holding /\ Ahead' = [u \in InLine \ {t} |-> Ahead[u] \ {t}]
    BY <1>1, <1>2 DEF SL!GiveUp, SL!Waiting
<1>3. ASSUME NEW back, NEW first, SL!Serve(back, first)
      PROVE  /\ Holding' = (Holding \ back) \cup first
             /\ first \subseteq InLine
             /\ \A t \in first : Ahead[t] \subseteq first
             /\ Ahead' = [u \in InLine \ first |-> Ahead[u] \ first]
    BY <1>1, <1>3 DEF SL!Serve, SL!Waiting
<1>4. CASE UNCHANGED SL!vars
    BY <1>1, <1>4 DEF SL!vars
<1>5. ASSUME NEW t \in Tasks, SL!GiveUp(t)
      PROVE  /\ InLine' = InLine \ {t} /\ Holding' = Holding
             /\ \A u \in InLine' : Ahead'[u] = Ahead[u] \ {t}
    BY <1>1, <1>2, <1>5
<1>6. ASSUME NEW back, NEW first, SL!Serve(back, first)
      PROVE  /\ InLine' = InLine \ first
             /\ \A u \in InLine' : Ahead'[u] = Ahead[u] \ first
    BY <1>1, <1>3, <1>6
<1>7. CASE \E t \in Tasks : SL!GiveUp(t)
    BY <1>5, <1>7
<1>8. CASE \E back \in SUBSET Holding : \E first \in SUBSET SL!Waiting : SL!Serve(back, first)
    <2>1. PICK back, first : SL!Serve(back, first)
        BY <1>8
    <2>2. /\ Holding' = (Holding \ back) \cup first
          /\ first \subseteq InLine
          /\ \A t \in first : Ahead[t] \subseteq first
          /\ InLine' = InLine \ first
          /\ \A u \in InLine' : Ahead'[u] = Ahead[u] \ first
        BY <1>3, <1>6, <2>1
    <2>3. \A t \in Holding' : t \in Holding \/ (t \in InLine /\ Ahead[t] \cap InLine' = {})
        BY <2>2
    <2> QED BY <2>2, <2>3
<1> QED BY <1>4, <1>7, <1>8 DEF LineAdvances

(* Of two that wait, one is ahead of the other. *)
LEMMA OneIsAhead ==
    ASSUME QInv, NEW u \in InLine, NEW t \in InLine, u # t
    PROVE  u \in Ahead[t] \/ t \in Ahead[u]
<1>1. /\ \A w \in Tasks : Listed(deque, w) <=> acq[w] \in {"queued", "granted", "dropping", "returning"}
      /\ \A w \in Tasks : Listed(ready, w) <=> acq[w] = "new"
      /\ deque \in Seq(Tasks) /\ ready \in Seq(Tasks)
    BY LineFacts
<1>2. ASSUME NEW s \in Seq(Tasks), Listed(s, u), Listed(s, t)
      PROVE  Comes(s, u, t) \/ Comes(s, t, u)
    <2>1. PICK i, j \in 1..Len(s) : s[i] = u /\ s[j] = t
        BY <1>2 DEF Listed
    <2>2. Len(s) \in Nat
        BY LenProperties
    <2>3. i < j \/ j < i
        BY <2>1, <2>2
    <2> QED BY <2>1, <2>3 DEF Comes
<1>3. Before(u, t) \/ Before(t, u)
    <2>1. u \in Tasks /\ t \in Tasks /\ acq[u] \in {"new", "queued"} /\ acq[t] \in {"new", "queued"}
        BY DEF InLine
    <2> QED BY <1>1, <1>2, <2>1 DEF Before
<1> QED BY <1>3 DEF Ahead

LEMMA AdvanceKeepsLInv ==
    ASSUME LInv, QInv', [Next]_vars, \A t \in Tasks : ~ Enters(t)
    PROVE  LInv'
<1>1. LineAdvances
    BY StepAdvances DEF LInv, QInv, LineKept
<1>2. CASE UNCHANGED vars
    BY <1>2 DEF vars, LInv, QInv, InsideKnown, WaitersKnown, SameOrder, NobodyPassed, RoomLeft, InFront, InLine, Ahead, Before, Holding
<1>3. ASSUME NEW t \in Tasks, OneActs(t)
      PROVE  LInv'
    <2>1. InsideKnown'
        BY <1>3 DEF OneActs, LInv, InsideKnown
    <2>2. /\ OneEach(waiting')
          /\ \A u : Listed(waiting', u) => Listed(waiting, u)
          /\ \A u \in Tasks : u # t /\ Listed(waiting, u) => Listed(waiting', u)
          /\ Listed(waiting, t) => Listed(waiting', t) \/ acq'[t] \notin {"new", "queued"}
          /\ Listed(waiting', t) => pc'[t] \in {"marking", "waiting"}
          /\ \A u, w : Comes(waiting', u, w) => Comes(waiting, u, w)
        <3>1. OneEach(waiting) /\ waiting \in Seq(Tasks)
            BY DEF LInv, WaitersKnown, QInv, IInv, TypeOK
        <3>2. CASE waiting' = waiting /\ (pc[t] \in {"marking", "waiting"} => pc'[t] \in {"marking", "waiting"})
            BY <3>1, <3>2 DEF LInv, WaitersKnown
        <3>3. CASE waiting' = Without(waiting, t) /\ acq'[t] \notin {"new", "queued"}
            <4>1. /\ OneEach(waiting')
                  /\ \A u : Listed(waiting', u) <=> Listed(waiting, u) /\ u # t
                  /\ \A u, w : u # t /\ w # t => (Comes(waiting', u, w) <=> Comes(waiting, u, w))
                BY <3>1, <3>3, WithoutOrder
            <4>2. \A u, w : Comes(waiting', u, w) => Listed(waiting', u) /\ Listed(waiting', w)
                BY DEF Comes, Listed
            <4> QED BY <3>3, <4>1, <4>2
        <3> QED BY <1>3, <3>2, <3>3 DEF OneActs
    <2>3. WaitersKnown'
        <3>1. \A u \in Tasks : u # t => pc'[u] = pc[u]
            BY <1>3 DEF OneActs
        <3> QED BY <2>2, <3>1 DEF LInv, WaitersKnown
    <2>4. /\ InLine' \subseteq InLine
          /\ \A u \in InLine' : Ahead'[u] \subseteq Ahead[u]
          /\ \A u, w \in InLine' : u \in Ahead[w] => u \in Ahead'[w]
          /\ \A u \in Holding' : u \in Holding \/ (u \in InLine /\ Ahead[u] \cap InLine' = {})
        BY <1>1, AdvanceFacts
    <2>5. SameOrder'
        BY <2>2, <2>4 DEF LInv, SameOrder
    <2>6. NobodyPassed'
        <3> SUFFICES ASSUME NEW u \in InLine', NEW w \in Tasks, Comes(waiting', u, w), w \in Holding'
                     PROVE  FALSE
            BY DEF NobodyPassed
        <3>1. u \in InLine /\ Comes(waiting, u, w)
            BY <2>2, <2>4
        <3>2. w \in InLine /\ Ahead[w] \cap InLine' = {}
            BY <2>4, <3>1 DEF LInv, NobodyPassed
        <3> QED BY <3>1, <3>2 DEF LInv, SameOrder
    <2>7. RoomLeft'
        <3> SUFFICES ASSUME NEW u \in InLine', ~ Listed(waiting', u)
                     PROVE  Cardinality(InFront(u)') < Limit
            BY DEF RoomLeft
        <3>1. u \in InLine /\ ~ Listed(waiting, u)
            BY <2>2, <2>4 DEF InLine
        <3>2. Cardinality(InFront(u)) < Limit
            BY <3>1 DEF LInv, RoomLeft
        <3>3. \A w \in Tasks : acq'[w] \in {"granted", "done"}
                => acq[w] \in {"granted", "done"} \/ w \notin Holding
            BY <1>3 DEF OneActs, Holding
        <3>4. ASSUME NEW w \in Tasks, acq'[w] \in {"granted", "done"}
              PROVE  w \in InFront(u)
            <4>1. CASE acq[w] \in {"granted", "done"}
                BY <4>1 DEF InFront
            <4>2. CASE w \notin Holding
                <5>1. w \in Holding'
                    BY <3>4 DEF Holding
                <5>2. w \in InLine /\ u \notin Ahead[w]
                    BY <2>4, <4>2, <5>1
                <5>3. w # u
                    BY <3>4 DEF InLine
                <5> QED BY <3>1, <5>2, <5>3, OneIsAhead DEF LInv, InFront
            <4> QED BY <3>3, <3>4, <4>1, <4>2
        <3>5. InFront(u)' \subseteq InFront(u)
            BY <2>4, <3>4 DEF InFront
        <3>6. IsFiniteSet(InFront(u))
            <4>1. InFront(u) \subseteq Tasks
                BY <3>1 DEF InFront, Ahead, InLine
            <4> QED BY <4>1, TasksAssumption, FS_Subset
        <3>7. /\ Cardinality(InFront(u)') <= Cardinality(InFront(u))
              /\ Cardinality(InFront(u)) \in Nat /\ Cardinality(InFront(u)') \in Nat
            BY <3>5, <3>6, FS_Subset, FS_CardinalityType
        <3> QED BY <3>2, <3>7, LimitAssumption
    <2> QED BY <2>1, <2>3, <2>5, <2>6, <2>7 DEF LInv
<1> QED BY <1>2, <1>3, SomebodyActs DEF LInv

LEMMA EnterKeepsLInv ==
    ASSUME LInv, QInv', NEW t \in Tasks, Enters(t)
    PROVE  LInv'
<1>1. /\ acq \in [Tasks -> AcqStates] /\ pc \in [Tasks -> PCs] /\ waiting \in Seq(Tasks)
      /\ pc[t] \in {"out", "creating"} /\ acq[t] = "none"
    BY DEF LInv, QInv, IInv, TypeOK, Enters, EnterSlot
<1>2. ~ Listed(waiting, t)
    BY <1>1 DEF LInv, WaitersKnown
<1>3. CASE Limit = 0
    <2>1. acq' = acq /\ waiting' = waiting /\ pc' = [pc EXCEPT ![t] = "active"]
        BY <1>3 DEF Enters, EnterSlot
    <2>2. \A u \in Tasks : acq[u] = "none"
        BY <1>3 DEF LInv, QInv, IInv, Shape
    <2>3. InsideKnown' /\ InLine' = {}
        BY <2>1, <2>2 DEF InsideKnown, InLine
    <2>4. WaitersKnown'
        BY <1>1, <1>2, <2>1 DEF LInv, WaitersKnown
    <2> QED BY <2>3, <2>4 DEF LInv, SameOrder, NobodyPassed, RoomLeft
<1>4. CASE Limit # 0
    <2> DEFINE mustWait == inflight >= Limit
               at == IF mustWait THEN "marking" ELSE "waiting"
    <2>1. /\ pc' = [pc EXCEPT ![t] = at]
          /\ waiting' = IF mustWait THEN Append(waiting, t) ELSE waiting
          /\ acq' = [acq EXCEPT ![t] = "new"]
        BY <1>4 DEF Enters, EnterSlot
    <2>2. at \in {"marking", "waiting"}
        OBVIOUS
    <2> HIDE DEF at
    <2>3. /\ \A u \in Tasks : acq'[u] = IF u = t THEN "new" ELSE acq[u]
          /\ \A u \in Tasks : pc'[u] = IF u = t THEN at ELSE pc[u]
        BY <1>1, <2>1
    <2>4. InsideKnown'
        BY <2>2, <2>3 DEF LInv, InsideKnown
    <2>5. /\ OneEach(waiting')
          /\ \A u : Listed(waiting', u) <=> Listed(waiting, u) \/ (mustWait /\ u = t)
          /\ \A u, w : Comes(waiting', u, w) =>
                Comes(waiting, u, w) \/ (w = t /\ Listed(waiting, u))
        <3>1. OneEach(waiting)
            BY DEF LInv, WaitersKnown
        <3>2. /\ \A u : Listed(Append(waiting, t), u) <=> Listed(waiting, u) \/ u = t
              /\ \A u, w : Comes(Append(waiting, t), u, w) <=> Comes(waiting, u, w) \/ (w = t /\ Listed(waiting, u))
              /\ OneEach(Append(waiting, t))
            BY <1>1, <1>2, <3>1, AppendOrder
        <3>3. CASE mustWait
            <4>1. waiting' = Append(waiting, t)
                BY <2>1, <3>3
            <4> QED BY <3>2, <3>3, <4>1
        <3>4. CASE ~ mustWait
            <4>1. waiting' = waiting
                BY <2>1, <3>4
            <4> QED BY <3>1, <3>4, <4>1
        <3> QED BY <3>3, <3>4
    <2>6. WaitersKnown'
        BY <2>2, <2>3, <2>5 DEF LInv, WaitersKnown
    <2>7. SL!Arrive(t)
        BY <1>4, EnterSlotArrives DEF LInv, Enters
    <2>8. DOMAIN Ahead = InLine /\ DOMAIN Ahead' = InLine' /\ \A u \in InLine : Ahead[u] \subseteq InLine
        BY DEF Ahead
    <2>9. /\ Holding' = Holding /\ t \notin InLine /\ t \notin Holding
          /\ Ahead' = [u \in InLine \cup {t} |-> IF u = t THEN InLine ELSE Ahead[u]]
        BY <2>7, <2>8 DEF SL!Arrive, SL!Waiting
    <2>10. InLine' = InLine \cup {t} /\ Ahead'[t] = InLine /\ \A u \in InLine : Ahead'[u] = Ahead[u]
        BY <2>8, <2>9
    <2>11. \A u : ~ Comes(waiting, t, u) /\ ~ Comes(waiting, u, t)
        BY <1>2 DEF Comes, Listed
    <2>12. SameOrder'
        <3> SUFFICES ASSUME NEW u \in InLine', NEW w \in InLine', Comes(waiting', u, w)
                     PROVE  u \in Ahead'[w]
            BY DEF SameOrder
        <3>1. u # t
            BY <1>2, <2>5, <2>11
        <3>2. CASE w = t
            BY <3>1, <3>2, <2>10
        <3>3. CASE w # t
            BY <3>1, <3>3, <2>5, <2>10 DEF LInv, SameOrder
        <3> QED BY <3>2, <3>3
    <2>13. NobodyPassed'
        <3> SUFFICES ASSUME NEW u \in InLine', NEW w \in Tasks, Comes(waiting', u, w), w \in Holding'
                     PROVE  FALSE
            BY DEF NobodyPassed
        <3>1. u # t /\ w # t
            BY <1>2, <2>5, <2>9, <2>11
        <3> QED BY <3>1, <2>5, <2>9, <2>10 DEF LInv, NobodyPassed
    <2>14. ASSUME NEW u \in InLine
           PROVE  InFront(u)' = InFront(u)
        BY <2>3, <2>9, <2>10, <1>1 DEF InFront
    <2>15. RoomLeft'
        <3> SUFFICES ASSUME NEW u \in InLine', ~ Listed(waiting', u)
                     PROVE  Cardinality(InFront(u)') < Limit
            BY DEF RoomLeft
        <3>1. CASE u # t
            <4>1. u \in InLine /\ ~ Listed(waiting, u)
                BY <3>1, <2>5, <2>10
            <4> QED BY <4>1, <2>14 DEF LInv, RoomLeft
        <3>2. CASE u = t
            <4>1. inflight < Limit
                <5>1. ~ mustWait
                    BY <3>2, <2>5
                <5> QED BY <5>1, LimitAssumption DEF LInv, QInv, IInv, TypeOK
            <4>2. InFront(t)' = {w \in Tasks : acq'[w] \in {"granted", "done"}} \cup InLine
                BY <2>10 DEF InFront
            <4>3. InFront(t)' \subseteq Inside
                BY <4>2, <2>3 DEF Inside, LInv, InsideKnown, InLine
            <4>4. inflight = Cardinality(Inside)
                BY <1>4, LimitAssumption DEF LInv, QInv, IInv, InflightExact
            <4>5. IsFiniteSet(Inside)
                <5>1. Inside \subseteq Tasks
                    BY DEF Inside
                <5> QED BY <5>1, TasksAssumption, FS_Subset
            <4>6. Cardinality(InFront(t)') <= Cardinality(Inside)
                BY <4>3, <4>5, FS_Subset
            <4>7. Cardinality(InFront(t)') \in Nat /\ Cardinality(Inside) \in Nat
                BY <4>3, <4>5, FS_Subset, FS_CardinalityType
            <4> QED BY <3>2, <4>1, <4>4, <4>6, <4>7, LimitAssumption
        <3> QED BY <3>1, <3>2
    <2> QED BY <2>4, <2>6, <2>12, <2>13, <2>15 DEF LInv
<1> QED BY <1>3, <1>4

LEMMA LInvAlways == Spec => []LInv
<1>1. LInv /\ [Next]_vars => LInv'
    <2> SUFFICES ASSUME LInv, [Next]_vars PROVE LInv'
        OBVIOUS
    <2>1. QInv'
        BY NextKeepsQInv DEF LInv
    <2> QED BY <2>1, AdvanceKeepsLInv, EnterKeepsLInv
<1> QED BY <1>1, InitEstablishesLInv, PTL DEF Spec

(* queue_position tells the truth: no call listed behind a waiting one gets its slot before it, *)
(* although TaskQueue._waiting and the semaphore that serves are two lists (TaskQueue.position). *)
THEOREM PositionsAreInOrder == Spec => []PositionsInOrder
<1>1. LInv => PositionsInOrder
    <2> SUFFICES ASSUME LInv, NEW i \in 1..Len(waiting), NEW j \in 1..Len(waiting), i < j,
                        acq[waiting[i]] \in {"new", "queued"}
                 PROVE  acq[waiting[j]] \notin {"granted", "done"}
        BY DEF PositionsInOrder
    <2>1. waiting[i] \in InLine /\ waiting[j] \in Tasks /\ Comes(waiting, waiting[i], waiting[j])
        BY ElementOfSeq DEF LInv, QInv, IInv, TypeOK, InLine, Comes
    <2> QED BY <2>1 DEF LInv, NobodyPassed, Holding
<1> QED BY <1>1, LInvAlways, PTL

(* The number of calls inside slot() decides who is told to wait, and decides right: one that   *)
(* was not told to has a slot left by the calls that hold one (TaskQueue.slot, `_inflight`).    *)
THEOREM UnqueuedAlwaysHasRoom == Spec => []UnqueuedHasRoom
<1>1. LInv => UnqueuedHasRoom
    <2> SUFFICES ASSUME LInv, NEW t \in Tasks, Places(waiting, t) = {}, acq[t] \in {"new", "queued"}
                 PROVE  Cardinality({u \in Tasks : acq[u] \in {"granted", "done"}}) < Limit
        BY DEF UnqueuedHasRoom
    <2> DEFINE has == {u \in Tasks : acq[u] \in {"granted", "done"}}
    <2>1. t \in InLine /\ ~ Listed(waiting, t)
        BY DEF InLine, Places, Listed
    <2>2. Cardinality(InFront(t)) < Limit
        BY <2>1 DEF LInv, RoomLeft
    <2>3. has \subseteq InFront(t) /\ InFront(t) \subseteq Tasks
        BY <2>1 DEF InFront, Ahead, InLine
    <2> HIDE DEF has
    <2>4. IsFiniteSet(InFront(t))
        BY <2>3, TasksAssumption, FS_Subset
    <2>5. Cardinality(has) <= Cardinality(InFront(t)) /\ Cardinality(has) \in Nat /\ Cardinality(InFront(t)) \in Nat
        BY <2>3, <2>4, FS_Subset, FS_CardinalityType
    <2>6. Cardinality(has) < Limit
        BY <2>2, <2>5, LimitAssumption
    <2> QED BY <2>6 DEF has
<1> QED BY <1>1, LInvAlways, PTL
=============================================================================
