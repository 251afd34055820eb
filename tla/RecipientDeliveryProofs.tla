----------------------- MODULE RecipientDeliveryProofs -----------------------
(***************************************************************************)
(* Whatever the Session does and whatever fails, for any number of Alerts,  *)
(* of holds and of failures: what counts as read was shown, a slot of the    *)
(* lifecycle has one way on, nothing reaches Pi while it compacts, and no    *)
(* Alert comes before an earlier one.                                       *)
(***************************************************************************)
EXTENDS RecipientDelivery, TLAPS, FiniteSetTheorems, SequenceTheorems

-----------------------------------------------------------------------------
(* Numbers in order.                                                         *)

\* Induction over the naturals, in the form of a set: the least number outside of
\* S would have a finite set of numbers before it closed under successor.
LEMMA Induction ==
  ASSUME NEW S, 0 \in S, \A n \in Nat : n \in S => n + 1 \in S
  PROVE  Nat \subseteq S
<1> SUFFICES ASSUME NEW k \in Nat, k \notin S PROVE FALSE
  OBVIOUS
<1> DEFINE U == {n \in 0..k : \A m \in 0..n : m \in S}
           f == [n \in U |-> n + 1]
<1>1. U \subseteq 0..k /\ (\A n \in U : n + 1 \in U) /\ 0 \in U
  <2>1. 0 \in U
    OBVIOUS
  <2>2. ASSUME NEW n \in U PROVE n + 1 \in U
    <3>1. n \in 0..n /\ n \in 0..k
      OBVIOUS
    <3>2. n \in S /\ n + 1 \in S
      BY <3>1
    <3>3. n + 1 \in 0..k
      BY <3>1, <3>2
    <3>4. \A m \in 0..(n + 1) : m \in S
      BY <3>2
    <3> QED
      BY <3>3, <3>4
  <2> QED
    BY <2>1, <2>2
<1>2. f \in Injection(U, U)
  <2>1. f \in [U -> U]
    BY <1>1
  <2> QED
    BY <2>1, <1>1 DEF Injection, IsInjective
<1> HIDE DEF f
<1>3. f \in Surjection(U, U)
  <2> HIDE DEF U
  <2>1. U \in SUBSET (0..k) /\ IsFiniteSet(0..k)
    BY <1>1, FS_Interval
  <2>2. IsFiniteSet(U)
    BY <2>1, FS_Subset
  <2> QED
    BY <2>2, <1>2, FS_Injection
<1>4. PICK n \in U : f[n] = 0
  BY <1>1, <1>3 DEF Surjection
<1> QED
  BY <1>1, <1>4 DEF f

\* A set of naturals has a least element.
LEMMA Least ==
  ASSUME NEW S \in SUBSET Nat, S # {}
  PROVE  \E m \in S : \A n \in S : m <= n
<1> SUFFICES ASSUME \A m \in S : \E n \in S : n < m PROVE FALSE
  OBVIOUS
<1> DEFINE T == {n \in Nat : \A m \in 0..n : m \notin S}
<1>1. 0 \in T
  OBVIOUS
<1>2. \A n \in Nat : n \in T => n + 1 \in T
  <2> SUFFICES ASSUME NEW n \in T PROVE n + 1 \in T
    OBVIOUS
  <2>1. n + 1 \notin S
    <3> SUFFICES ASSUME n + 1 \in S PROVE FALSE
      OBVIOUS
    <3>1. PICK k \in S : k < n + 1
      OBVIOUS
    <3> QED
      BY <3>1
  <2> QED
    BY <2>1
<1> HIDE DEF T
<1>3. Nat \subseteq T
  BY <1>1, <1>2, Induction
<1>4. \A m \in S : m \in 0..m
  OBVIOUS
<1> QED
  BY <1>3, <1>4 DEF T

\* A finite set of naturals can be listed in order,
LEMMA OrderExists ==
  ASSUME NEW S \in SUBSET Nat, IsFiniteSet(S)
  PROVE  \E f \in [1..Cardinality(S) -> S] : \A i, j \in DOMAIN f : i < j => f[i] < f[j]
<1> DEFINE Ordered(T, n) == \E f \in [1..n -> T] : \A i, j \in 1..n : i < j => f[i] < f[j]
           Q == {n \in Nat : \A T \in SUBSET Nat : IsFiniteSet(T) /\ Cardinality(T) = n => Ordered(T, n)}
<1>1. 0 \in Q
  <2> SUFFICES ASSUME NEW T \in SUBSET Nat, IsFiniteSet(T), Cardinality(T) = 0 PROVE Ordered(T, 0)
    OBVIOUS
  <2>1. [i \in 1..0 |-> i] \in [1..0 -> T]
    OBVIOUS
  <2> QED
    BY <2>1
<1>2. ASSUME NEW n \in Nat, n \in Q PROVE n + 1 \in Q
  <2> SUFFICES ASSUME NEW T \in SUBSET Nat, IsFiniteSet(T), Cardinality(T) = n + 1 PROVE Ordered(T, n + 1)
    OBVIOUS
  <2>1. T # {}
    BY FS_EmptySet
  <2>2. PICK m \in T : \A k \in T : m <= k
    BY <2>1, Least
  <2> DEFINE R == T \ {m}
  <2>3. IsFiniteSet(R) /\ Cardinality(R) = n
    <3>1. IsFiniteSet(R) /\ Cardinality(R) = (n + 1) - 1
      BY <2>2, FS_RemoveElement
    <3> QED
      BY <3>1
  <2>4. PICK g \in [1..n -> R] : \A i, j \in 1..n : i < j => g[i] < g[j]
    BY <1>2, <2>3
  <2> DEFINE f == [i \in 1..(n + 1) |-> IF i = 1 THEN m ELSE g[i - 1]]
  <2>5. \A i \in 2..(n + 1) : i - 1 \in 1..n /\ f[i] = g[i - 1]
    OBVIOUS
  <2>6. \A i \in 1..(n + 1) : i = 1 \/ i \in 2..(n + 1)
    OBVIOUS
  <2>7. f[1] = m
    OBVIOUS
  <2>8. f \in [1..(n + 1) -> T]
    BY <2>4, <2>5, <2>6
  <2> HIDE DEF f
  <2>9. ASSUME NEW i \in 1..(n + 1), NEW j \in 1..(n + 1), i < j PROVE f[i] < f[j]
    <3>1. j \in 2..(n + 1) /\ f[j] = g[j - 1] /\ j - 1 \in 1..n
      BY <2>5, <2>9
    <3>2. CASE i = 1
      <4>1. f[j] \in T /\ f[j] # m /\ f[j] \in Nat /\ m \in Nat
        BY <3>1, <2>4
      <4> QED
        BY <4>1, <3>2, <2>2, <2>7
    <3>3. CASE i \in 2..(n + 1)
      <4>1. f[i] = g[i - 1] /\ i - 1 \in 1..n /\ i - 1 < j - 1
        BY <2>5, <2>9, <3>3
      <4>2. g[i - 1] < g[j - 1]
        BY <4>1, <3>1, <2>4
      <4> QED
        BY <4>1, <4>2, <3>1
    <3> QED
      BY <3>2, <3>3, <2>6
  <2> QED
    BY <2>8, <2>9
<1> HIDE DEF Q
<1>3. Nat \subseteq Q
  BY <1>1, <1>2, Induction
<1>4. Ordered(S, Cardinality(S))
  BY <1>3, FS_CardinalityType DEF Q
<1> QED
  BY <1>4

\* which is what InOrder does.
LEMMA InOrderLists ==
  ASSUME NEW S \in SUBSET Nat, IsFiniteSet(S)
  PROVE  /\ InOrder(S) \in Seq(S)
         /\ ToSet(InOrder(S)) = S
         /\ \A i, j \in 1..Len(InOrder(S)) : i < j => InOrder(S)[i] < InOrder(S)[j]
<1> DEFINE n == Cardinality(S)
           f == InOrder(S)
<1>1. n \in Nat
  BY FS_CardinalityType
<1>2. f \in [1..n -> S] /\ \A i, j \in DOMAIN f : i < j => f[i] < f[j]
  BY OrderExists DEF InOrder
<1> HIDE DEF f, n
<1>3. f \in Seq(S) /\ Len(f) = n /\ DOMAIN f = 1..n
  BY <1>1, <1>2, SeqDef
<1>4. f \in Injection(1..n, S)
  <2>1. ASSUME NEW i \in 1..n, NEW j \in 1..n, f[i] = f[j] PROVE i = j
    <3>1. i < j \/ j < i \/ i = j
      OBVIOUS
    <3>2. f[i] \in Nat /\ f[j] \in Nat
      BY <1>2
    <3> QED
      BY <3>1, <3>2, <2>1, <1>2, <1>3
  <2> QED
    BY <2>1, <1>2, <1>3 DEF Injection, IsInjective
<1>5. Cardinality(1..n) = n /\ IsFiniteSet(1..n)
  BY <1>1, FS_Interval
<1>6. f \in Surjection(1..n, S)
  BY <1>4, <1>5, FS_Injection DEF n
<1>7. ToSet(f) = S
  BY <1>2, <1>3, <1>6 DEF ToSet, Surjection
<1> QED
  BY <1>2, <1>3, <1>7 DEF f

-----------------------------------------------------------------------------
(* FlattenSeq of the community modules.  Its definition is a recursive       *)
(* function; that there is such a function is proved before it is used.      *)

IsFlattening(f, seqs) ==
  f = [i \in 1..Len(seqs) |-> IF i = 1 THEN seqs[i] ELSE f[i - 1] \o seqs[i]]

\* The recursive function of FlattenSeq is one,
LEMMA FlatteningUnique ==
  ASSUME NEW A, NEW s \in Seq(A), NEW f, IsFlattening(f, s), NEW g, IsFlattening(g, s)
  PROVE  f = g
<1>1. Len(s) \in Nat /\ DOMAIN f = 1..Len(s) /\ DOMAIN g = 1..Len(s)
  BY LenProperties DEF IsFlattening
<1> DEFINE Q == {n \in Nat : n \in 1..Len(s) => f[n] = g[n]}
<1>2. 0 \in Q
  OBVIOUS
<1>3. ASSUME NEW n \in Nat, n \in Q PROVE n + 1 \in Q
  <2> SUFFICES ASSUME n + 1 \in 1..Len(s) PROVE f[n + 1] = g[n + 1]
    OBVIOUS
  <2>1. f[n + 1] = IF n + 1 = 1 THEN s[n + 1] ELSE f[(n + 1) - 1] \o s[n + 1]
    BY DEF IsFlattening
  <2>2. g[n + 1] = IF n + 1 = 1 THEN s[n + 1] ELSE g[(n + 1) - 1] \o s[n + 1]
    BY DEF IsFlattening
  <2>3. (n + 1) - 1 = n /\ (n = 0 \/ n \in 1..Len(s))
    BY <1>1
  <2> QED
    BY <1>3, <2>1, <2>2, <2>3
<1> HIDE DEF Q
<1>4. Nat \subseteq Q
  BY <1>2, <1>3, Induction
<1>5. \A n \in 1..Len(s) : f[n] = g[n]
  BY <1>1, <1>4 DEF Q
<1>6. f = [n \in 1..Len(s) |-> f[n]] /\ g = [n \in 1..Len(s) |-> g[n]]
  BY DEF IsFlattening
<1> QED
  BY <1>5, <1>6

\* goes on with one more sequence,
LEMMA FlatteningAppend ==
  ASSUME NEW A, NEW r \in Seq(Seq(A)), NEW e \in Seq(A), NEW f, IsFlattening(f, r),
         \A i \in 1..Len(r) : f[i] \in Seq(A)
  PROVE  \E g : /\ IsFlattening(g, Append(r, e))
                /\ \A i \in 1..(Len(r) + 1) : g[i] \in Seq(A)
                /\ g[Len(r) + 1] = IF Len(r) = 0 THEN e ELSE f[Len(r)] \o e
<1> DEFINE n == Len(r)
           s == Append(r, e)
           last == IF n = 0 THEN e ELSE f[n] \o e
           g == [i \in 1..(n + 1) |-> IF i = n + 1 THEN last ELSE f[i]]
<1>1. n \in Nat /\ Len(s) = n + 1 /\ (\A i \in 1..n : s[i] = r[i]) /\ s[n + 1] = e
  BY LenProperties, AppendProperties
<1>2. last \in Seq(A)
  <2>1. CASE n = 0
    BY <2>1
  <2>2. CASE n # 0
    <3>1. n \in 1..n
      BY <1>1, <2>2
    <3>2. f[n] \in Seq(A)
      BY <3>1
    <3> QED
      BY <2>2, <3>2, ConcatProperties
  <2> QED
    BY <2>1, <2>2
<1>3. \A i \in 1..n : f[i] = IF i = 1 THEN r[i] ELSE f[i - 1] \o r[i]
  BY DEF IsFlattening
<1> HIDE DEF n, s, last
<1>4. \A i \in 1..(n + 1) : g[i] = IF i = 1 THEN s[i] ELSE g[i - 1] \o s[i]
  <2> SUFFICES ASSUME NEW i \in 1..(n + 1) PROVE g[i] = IF i = 1 THEN s[i] ELSE g[i - 1] \o s[i]
    OBVIOUS
  <2>1. CASE i \in 1..n
    <3>1. i # n + 1 /\ g[i] = f[i] /\ s[i] = r[i]
      BY <1>1, <2>1
    <3>2. i # 1 => i - 1 \in 1..n /\ i - 1 # n + 1 /\ i - 1 \in 1..(n + 1)
      BY <1>1, <2>1
    <3>3. i # 1 => g[i - 1] = f[i - 1]
      BY <3>2
    <3> QED
      BY <3>1, <3>3, <1>3, <2>1
  <2>2. CASE i = n + 1
    <3>1. n + 1 \in 1..(n + 1) /\ g[n + 1] = last /\ s[n + 1] = e
      BY <1>1
    <3>2. CASE n = 0
      BY <2>2, <3>1, <3>2 DEF last
    <3>3. CASE n # 0
      <4>1. i # 1 /\ i - 1 = n /\ n \in 1..(n + 1) /\ n # n + 1
        BY <1>1, <2>2, <3>3
      <4>2. g[n] = f[n]
        BY <4>1
      <4> QED
        BY <2>2, <3>1, <3>3, <4>1, <4>2 DEF last
    <3> QED
      BY <3>2, <3>3
  <2> QED
    BY <1>1, <2>1, <2>2
<1>5. IsFlattening(g, s)
  <2>1. g = [i \in 1..(n + 1) |-> g[i]]
    OBVIOUS
  <2> HIDE DEF g
  <2>2. g = [i \in 1..(n + 1) |-> IF i = 1 THEN s[i] ELSE g[i - 1] \o s[i]]
    BY <1>4, <2>1
  <2> QED
    BY <1>1, <2>2 DEF IsFlattening
<1>6. \A i \in 1..(n + 1) : i \in 1..n \/ i = n + 1
  BY <1>1
<1>7. \A i \in 1..n : f[i] \in Seq(A)
  BY DEF n
<1>8. \A i \in 1..(n + 1) : g[i] \in Seq(A)
  BY <1>2, <1>6, <1>7
<1>9. g[n + 1] = last
  BY <1>1
<1> HIDE DEF g
<1> QED
  BY <1>5, <1>8, <1>9 DEF n, s, last

\* and there is one for every sequence of sequences.
LEMMA FlatteningExists ==
  ASSUME NEW A, NEW s \in Seq(Seq(A))
  PROVE  \E f : IsFlattening(f, s) /\ \A i \in 1..Len(s) : f[i] \in Seq(A)
<1> DEFINE Has(t) == \E f : IsFlattening(f, t) /\ \A i \in 1..Len(t) : f[i] \in Seq(A)
           Q == {n \in Nat : \A t \in Seq(Seq(A)) : Len(t) = n => Has(t)}
<1>1. 0 \in Q
  <2> SUFFICES ASSUME NEW t \in Seq(Seq(A)), Len(t) = 0 PROVE Has(t)
    OBVIOUS
  <2>1. IsFlattening([i \in 1..0 |-> t], t)
    BY DEF IsFlattening
  <2> QED
    BY <2>1
<1>2. ASSUME NEW n \in Nat, n \in Q PROVE n + 1 \in Q
  <2> SUFFICES ASSUME NEW t \in Seq(Seq(A)), Len(t) = n + 1 PROVE Has(t)
    OBVIOUS
  <2>1. t # << >>
    OBVIOUS
  <2>2. PICK r \in Seq(Seq(A)), e \in Seq(A) : t = Append(r, e)
    BY <2>1, SequenceEmptyOrAppend
  <2>3. Len(r) = n
    BY <2>2, LenProperties, AppendProperties
  <2>4. PICK f : IsFlattening(f, r) /\ \A i \in 1..Len(r) : f[i] \in Seq(A)
    BY <1>2, <2>3
  <2>5. \E g : IsFlattening(g, t) /\ \A i \in 1..(Len(r) + 1) : g[i] \in Seq(A)
    BY <2>2, <2>4, FlatteningAppend
  <2> QED
    BY <2>3, <2>5
<1> HIDE DEF Q
<1>3. Nat \subseteq Q
  BY <1>1, <1>2, Induction
<1> QED
  BY <1>3, LenProperties DEF Q

\* FlattenSeq is its last value.
LEMMA FlattenIs ==
  ASSUME NEW A, NEW s \in Seq(Seq(A)), Len(s) # 0, NEW f, IsFlattening(f, s)
  PROVE  FlattenSeq(s) = f[Len(s)]
<1>1. PICK g : g = CHOOSE h : IsFlattening(h, s)
  OBVIOUS
<1>2. IsFlattening(g, s)
  BY <1>1
<1>3. FlattenSeq(s) = g[Len(s)]
  BY <1>1, <1>2 DEF FlattenSeq, IsFlattening
<1>4. f = g
  BY <1>2, FlatteningUnique
<1> QED
  BY <1>3, <1>4

\* What FlattenSeq does to nothing, to one more, and to two.
LEMMA FlattenEmpty == FlattenSeq(<< >>) = << >>
  BY DEF FlattenSeq

LEMMA FlattenAppend ==
  ASSUME NEW A, NEW r \in Seq(Seq(A)), NEW e \in Seq(A)
  PROVE  /\ FlattenSeq(r) \in Seq(A)
         /\ FlattenSeq(Append(r, e)) = FlattenSeq(r) \o e
<1>1. Len(r) \in Nat /\ Append(r, e) \in Seq(Seq(A)) /\ Len(Append(r, e)) = Len(r) + 1
  BY LenProperties, AppendProperties
<1>2. PICK f : IsFlattening(f, r) /\ \A i \in 1..Len(r) : f[i] \in Seq(A)
  BY FlatteningExists
<1>3. PICK g : /\ IsFlattening(g, Append(r, e))
               /\ \A i \in 1..(Len(r) + 1) : g[i] \in Seq(A)
               /\ g[Len(r) + 1] = IF Len(r) = 0 THEN e ELSE f[Len(r)] \o e
  BY <1>2, FlatteningAppend
<1>4. FlattenSeq(Append(r, e)) = g[Len(r) + 1]
  <2>1. Len(Append(r, e)) # 0
    BY <1>1
  <2> QED
    BY <1>1, <1>3, <2>1, FlattenIs
<1>5. CASE Len(r) = 0
  <2>1. r = << >> /\ FlattenSeq(r) = << >>
    BY <1>5, FlattenEmpty
  <2>2. << >> \in Seq(A) /\ << >> \o e = e
    BY ConcatEmptySeq
  <2> QED
    BY <1>3, <1>4, <1>5, <2>1, <2>2
<1>6. CASE Len(r) # 0
  <2>1. FlattenSeq(r) = f[Len(r)] /\ Len(r) \in 1..Len(r)
    BY <1>1, <1>2, <1>6, FlattenIs
  <2> QED
    BY <1>2, <1>3, <1>4, <1>6, <2>1
<1> QED
  BY <1>5, <1>6

LEMMA Regroup ==
  ASSUME NEW A, NEW x \in Seq(A), NEW y \in Seq(A), NEW z \in Seq(A)
  PROVE  (x \o y) \o z = x \o (y \o z)
  BY ConcatAssociative

LEMMA ConcatThenAppend ==
  ASSUME NEW A, NEW r \in Seq(A), NEW u \in Seq(A), NEW e \in A
  PROVE  r \o u \in Seq(A) /\ r \o Append(u, e) = Append(r \o u, e)
<1>1. Append(u, e) = u \o <<e>> /\ <<e>> \in Seq(A)
  BY AppendIsConcat
<1>2. r \o u \in Seq(A)
  BY ConcatProperties
<1>3. Append(r \o u, e) = (r \o u) \o <<e>>
  BY <1>2, AppendIsConcat
<1>4. (r \o u) \o <<e>> = r \o (u \o <<e>>)
  BY <1>1, Regroup
<1> QED
  BY <1>1, <1>2, <1>3, <1>4

LEMMA FlattenConcatStep ==
  ASSUME NEW A, NEW r \in Seq(Seq(A)), NEW u \in Seq(Seq(A)), NEW e \in Seq(A),
         FlattenSeq(r \o u) = FlattenSeq(r) \o FlattenSeq(u)
  PROVE  FlattenSeq(r \o Append(u, e)) = FlattenSeq(r) \o FlattenSeq(Append(u, e))
<1>1. r \o u \in Seq(Seq(A)) /\ r \o Append(u, e) = Append(r \o u, e)
  BY ConcatThenAppend, SMTT(60)
<1>2. FlattenSeq(Append(r \o u, e)) = FlattenSeq(r \o u) \o e
  BY <1>1, FlattenAppend
<1>3. FlattenSeq(Append(u, e)) = FlattenSeq(u) \o e
  BY FlattenAppend
<1>4. FlattenSeq(r) \in Seq(A) /\ FlattenSeq(u) \in Seq(A)
  BY FlattenAppend
<1>5. PICK x \in Seq(A), y \in Seq(A) : x = FlattenSeq(r) /\ y = FlattenSeq(u)
  BY <1>4
<1>6. (x \o y) \o e = x \o (y \o e)
  BY <1>5, Regroup, SMTT(60)
<1> QED
  BY <1>1, <1>2, <1>3, <1>5, <1>6

LEMMA FlattenConcat ==
  ASSUME NEW A, NEW r \in Seq(Seq(A)), NEW s \in Seq(Seq(A))
  PROVE  FlattenSeq(r \o s) = FlattenSeq(r) \o FlattenSeq(s)
<1> DEFINE Q == {n \in Nat : \A t \in Seq(Seq(A)) :
                   Len(t) = n => FlattenSeq(r \o t) = FlattenSeq(r) \o FlattenSeq(t)}
<1>1. 0 \in Q
  <2> SUFFICES ASSUME NEW t \in Seq(Seq(A)), Len(t) = 0
               PROVE  FlattenSeq(r \o t) = FlattenSeq(r) \o FlattenSeq(t)
    OBVIOUS
  <2>1. t = << >>
    OBVIOUS
  <2>2. r \o << >> = r
    BY ConcatEmptySeq
  <2>3. << >> \in Seq(A)
    OBVIOUS
  <2>4. FlattenSeq(r) \in Seq(A)
    BY <2>3, FlattenAppend
  <2>5. FlattenSeq(r) \o << >> = FlattenSeq(r)
    BY <2>4, ConcatEmptySeq
  <2> QED
    BY <2>1, <2>2, <2>5, FlattenEmpty
<1>2. ASSUME NEW n \in Nat, n \in Q PROVE n + 1 \in Q
  <2> SUFFICES ASSUME NEW t \in Seq(Seq(A)), Len(t) = n + 1
               PROVE  FlattenSeq(r \o t) = FlattenSeq(r) \o FlattenSeq(t)
    OBVIOUS
  <2>1. t # << >>
    OBVIOUS
  <2>2. PICK u \in Seq(Seq(A)), e \in Seq(A) : t = Append(u, e)
    BY <2>1, SequenceEmptyOrAppend
  <2>3. Len(u) = n
    BY <2>2, LenProperties, AppendProperties
  <2>4. FlattenSeq(r \o u) = FlattenSeq(r) \o FlattenSeq(u)
    BY <1>2, <2>3
  <2> QED
    BY <2>2, <2>4, FlattenConcatStep
<1> HIDE DEF Q
<1>3. Nat \subseteq Q
  BY <1>1, <1>2, Induction
<1> QED
  BY <1>3, LenProperties DEF Q

-----------------------------------------------------------------------------
(* Types.                                                                    *)

EngineType ==
  [stopped : BOOLEAN, polling : BOOLEAN, rescan : BOOLEAN,
   attempted : SUBSET Alerts, acknowledged : SUBSET Alerts, staged : SUBSET Alerts,
   acks : SUBSET Alerts, shown : SUBSET Alerts]

SlotType == [running : BOOLEAN, retry : BOOLEAN, terminal : BOOLEAN]

TaskType ==
  [kind : {"start", "scan", "commit"}, engine : Engines,
   at : {"check", "bind", "mark", "scan", "wait", "engine", "return", "read", "recheck", "settle"},
   batch : Seq(Alerts), first : BOOLEAN, live : BOOLEAN, valid : BOOLEAN, mine : BOOLEAN]

\* Where a task may be.
Placed(t) ==
  /\ t.kind = "scan" => t.engine = "alert" /\ t.at \in {"bind", "read", "recheck", "settle"}
  /\ t.kind = "commit" => t.engine = "alert" /\ t.at \in {"bind", "mark"}
  /\ t.kind = "start" /\ t.engine = "alert" => t.at \in {"check", "bind", "mark", "scan", "return"}
  /\ t.kind = "start" /\ t.engine = "task" => t.at \in {"wait", "check", "engine", "return"}

Awaited == {t \in TaskType : Placed(t)}

Typed ==
  /\ TypeOK
  /\ engine \in EngineType
  /\ slot \in [Engines -> SlotType]
  /\ tasks \subseteq Awaited

\* What stopping the engine of Alerts makes of a task, and which it leaves.
Halted(t) ==
  IF t.engine # "alert" THEN t
  ELSE IF t.at \in {"bind", "scan"} THEN [t EXCEPT !.at = "return"]
  ELSE [t EXCEPT !.live = FALSE]

Survives(t) == t.engine = "alert" => t.kind = "start" \/ t.at = "mark"

LEMMA EngineStopIs == \A T : EngineStop(T) = {Halted(t) : t \in {t \in T : Survives(t)}}
  BY DEF EngineStop, Halted, Survives

LEMMA HaltedTask ==
  ASSUME NEW t \in Awaited, Survives(t)
  PROVE  /\ Halted(t) \in Awaited
         /\ Halted(t).kind = t.kind /\ Halted(t).engine = t.engine /\ Halted(t).batch = t.batch
         /\ Halted(t).first = t.first /\ Halted(t).valid = t.valid /\ Halted(t).mine = t.mine
         /\ t.engine # "alert" => Halted(t) = t
         /\ t.engine = "alert" /\ t.at \in {"bind", "scan"} => Halted(t).at = "return"
         /\ t.engine = "alert" /\ t.at \notin {"bind", "scan"} => Halted(t).at = t.at /\ ~ Halted(t).live
<1>1. t \in TaskType /\ Placed(t)
  BY DEF Awaited
<1>2. CASE t.engine # "alert"
  BY <1>2 DEF Halted
<1>3. CASE t.engine = "alert" /\ t.at \in {"bind", "scan"}
  <2>1. Halted(t) = [t EXCEPT !.at = "return"] /\ t.kind = "start"
    BY <1>1, <1>3 DEF Halted, Survives, TaskType, Placed
  <2> QED
    BY <1>1, <1>3, <2>1 DEF TaskType, Placed, Awaited
<1>4. CASE t.engine = "alert" /\ t.at \notin {"bind", "scan"}
  <2>1. Halted(t) = [t EXCEPT !.live = FALSE]
    BY <1>4 DEF Halted
  <2> QED
    BY <1>1, <1>4, <2>1 DEF TaskType, Placed, Awaited
<1> QED
  BY <1>2, <1>3, <1>4

\* What stopping its slot makes of a task, and replacing the activation.
Invalid(t, e) == IF t.engine = e THEN [t EXCEPT !.valid = FALSE] ELSE t

Orphan(t) == [t EXCEPT !.valid = FALSE, !.mine = FALSE]

LEMMA InvalidTask ==
  ASSUME NEW t \in Awaited
  PROVE  /\ Orphan(t) \in Awaited
         /\ Orphan(t).kind = t.kind /\ Orphan(t).engine = t.engine /\ Orphan(t).batch = t.batch
         /\ Orphan(t).first = t.first /\ Orphan(t).at = t.at /\ Orphan(t).live = t.live
         /\ ~ Orphan(t).valid /\ ~ Orphan(t).mine
         /\ \A e :
              /\ Invalid(t, e) \in Awaited
              /\ Invalid(t, e).kind = t.kind /\ Invalid(t, e).engine = t.engine
              /\ Invalid(t, e).batch = t.batch /\ Invalid(t, e).first = t.first
              /\ Invalid(t, e).at = t.at /\ Invalid(t, e).live = t.live
              /\ Invalid(t, e).mine = t.mine
              /\ t.engine = e => ~ Invalid(t, e).valid
              /\ t.engine # e => Invalid(t, e) = t
<1>1. t \in TaskType /\ Placed(t)
  BY DEF Awaited
<1>2. /\ Orphan(t) \in TaskType
      /\ Orphan(t).kind = t.kind /\ Orphan(t).engine = t.engine /\ Orphan(t).batch = t.batch
      /\ Orphan(t).first = t.first /\ Orphan(t).at = t.at /\ Orphan(t).live = t.live
      /\ ~ Orphan(t).valid /\ ~ Orphan(t).mine
  BY <1>1 DEF Orphan, TaskType
<1>3. Orphan(t) \in Awaited
  BY <1>1, <1>2 DEF Awaited, Placed
<1>4. ASSUME NEW e, t.engine = e
      PROVE  /\ Invalid(t, e) \in Awaited
             /\ Invalid(t, e).kind = t.kind /\ Invalid(t, e).engine = t.engine
             /\ Invalid(t, e).batch = t.batch /\ Invalid(t, e).first = t.first
             /\ Invalid(t, e).at = t.at /\ Invalid(t, e).live = t.live
             /\ Invalid(t, e).mine = t.mine
             /\ ~ Invalid(t, e).valid
  <2>1. Invalid(t, e) = [t EXCEPT !.valid = FALSE]
    BY <1>4 DEF Invalid
  <2> QED
    BY <2>1, <1>1 DEF Awaited, TaskType, Placed
<1>5. ASSUME NEW e, t.engine # e PROVE Invalid(t, e) = t
  BY <1>5 DEF Invalid
<1> QED
  BY <1>2, <1>3, <1>4, <1>5

LEMMA SlotStopIs ==
  \A T, e : SlotStop(T, e) = {Invalid(t, e) : t \in IF e = "alert" THEN EngineStop(T) ELSE T}
  BY DEF SlotStop, Invalid

LEMMA OrphanedIs == \A T : Orphaned(T) = {Orphan(t) : t \in {s \in EngineStop(T) : s.at = "mark"}}
  BY DEF Orphaned, Orphan

\* Stopping leaves tasks of their kind.
LEMMA StopsTyped ==
  ASSUME NEW T \in SUBSET Awaited
  PROVE  /\ EngineStop(T) \subseteq Awaited
         /\ Orphaned(T) \subseteq Awaited
         /\ \A e : SlotStop(T, e) \subseteq Awaited
<1>1. EngineStop(T) \subseteq Awaited
  BY EngineStopIs, HaltedTask
<1>2. Orphaned(T) \subseteq Awaited
  BY <1>1, OrphanedIs, InvalidTask
<1>3. ASSUME NEW e PROVE SlotStop(T, e) \subseteq Awaited
  BY <1>1, SlotStopIs, InvalidTask
<1> QED
  BY <1>1, <1>2, <1>3

LEMMA NewTaskTyped ==
  ASSUME NEW kind \in {"start", "scan", "commit"}, NEW e \in Engines,
         NEW at \in {"check", "bind", "wait"},
         kind # "start" => e = "alert" /\ at = "bind",
         kind = "start" /\ e = "alert" => at # "wait",
         kind = "start" /\ e = "task" => at # "bind"
  PROVE  Task(kind, e, at, << >>) \in Awaited
  BY DEF Task, Awaited, TaskType, Placed, Engines

LEMMA AlertsFinite ==
  /\ Alerts \subseteq Nat
  /\ \A S \in SUBSET Alerts : S \in SUBSET Nat /\ IsFiniteSet(S)
<1>1. Alerts \subseteq Nat /\ IsFiniteSet(Alerts)
  BY ConstantsAssumption, FS_Interval DEF Alerts
<1> QED
  BY <1>1, FS_Subset

\* Any Alerts in order are a sequence of Alerts.
LEMMA InOrderTyped ==
  ASSUME NEW S \in SUBSET Alerts
  PROVE  InOrder(S) \in Seq(Alerts) /\ Elements(InOrder(S)) = S
<1>1. S \in SUBSET Nat /\ IsFiniteSet(S)
  BY AlertsFinite
<1>2. InOrder(S) \in Seq(S) /\ ToSet(InOrder(S)) = S
  BY <1>1, InOrderLists
<1> QED
  BY <1>2, SeqMonotonic DEF Elements

\* A task that goes on at another place, maybe with a batch.
LEMMA MovedTask ==
  ASSUME NEW t \in Awaited, NEW at, NEW batch \in Seq(Alerts),
         at \in {"check", "bind", "mark", "scan", "wait", "engine", "return", "read", "recheck", "settle"},
         t.kind = "scan" => at \in {"bind", "read", "recheck", "settle"},
         t.kind = "commit" => at \in {"bind", "mark"},
         t.kind = "start" /\ t.engine = "alert" => at \in {"check", "bind", "mark", "scan", "return"},
         t.kind = "start" /\ t.engine = "task" => at \in {"wait", "check", "engine", "return"}
  PROVE  /\ [t EXCEPT !.at = at] \in Awaited
         /\ [t EXCEPT !.at = at, !.batch = batch] \in Awaited
<1>1. t \in TaskType /\ Placed(t)
  BY DEF Awaited
<1>2. [t EXCEPT !.at = at] \in TaskType /\ [t EXCEPT !.at = at, !.batch = batch] \in TaskType
  BY <1>1 DEF TaskType
<1>3. Placed([t EXCEPT !.at = at]) /\ Placed([t EXCEPT !.at = at, !.batch = batch])
  BY <1>1 DEF Placed, TaskType
<1> QED
  BY <1>2, <1>3 DEF Awaited

LEMMA FailedTyped ==
  ASSUME Typed, NEW e \in Engines, NEW T \in SUBSET Awaited, Failed(e, T)
  PROVE  /\ tasks' \subseteq Awaited /\ engine' \in EngineType
         /\ slot' \in [Engines -> SlotType] /\ active' = active
<1>1. CASE slot[e].retry \/ slot[e].terminal
  BY <1>1 DEF Failed, Typed, lifecycleVars
<1>2. CASE ~ (slot[e].retry \/ slot[e].terminal)
  <2>1. PICK terminal \in BOOLEAN :
          /\ slot' = [slot EXCEPT ![e] = [running |-> FALSE, retry |-> ~ terminal, terminal |-> terminal]]
          /\ tasks' = SlotStop(T, e)
          /\ engine' = IF e = "alert" THEN EngineStopped(engine) ELSE engine
          /\ active' = active
    BY <1>2 DEF Failed
  <2>2. tasks' \subseteq Awaited
    BY <2>1, StopsTyped
  <2>3. engine' \in EngineType
    BY <2>1 DEF Typed, EngineType, EngineStopped
  <2>4. slot' \in [Engines -> SlotType]
    BY <2>1 DEF Typed, SlotType
  <2> QED
    BY <2>1, <2>2, <2>3, <2>4
<1> QED
  BY <1>1, <1>2

LEMMA SendTyped ==
  ASSUME Typed, NEW message \in Seq(Alerts), Send(message)
  PROVE  queue' \in Seq(Seq(Alerts)) /\ gate' \in GatesOf(Seq(Alerts), Tokens)
<1>1. gate \in GatesOf(Seq(Alerts), Tokens) /\ queue \in Seq(Seq(Alerts))
  BY DEF Typed, TypeOK
<1>2. Append(queue, message) \in Seq(Seq(Alerts)) /\ Append(gate.held, message) \in Seq(Seq(Alerts))
  BY <1>1 DEF GatesOf
<1>3. Keep(gate, message) \in GatesOf(Seq(Alerts), Tokens)
  BY <1>1, <1>2 DEF Keep, GatesOf
<1> QED
  BY <1>1, <1>2, <1>3 DEF Send

\* The operators of the gate lead from gates to gates.
LEMMA GateTyped ==
  ASSUME NEW M, NEW g \in GatesOf(M, Tokens)
  PROVE  /\ Begin(g) \in GatesOf(M, Tokens) /\ End(g) \in GatesOf(M, Tokens)
         /\ Reset(g) \in GatesOf(M, Tokens) /\ Stale(g) \in GatesOf(M, Tokens)
         /\ NewGate \in GatesOf(M, Tokens) /\ Flushed(g) \in GatesOf(M, Tokens)
         /\ \A which : Ran(g, which) \in GatesOf(M, Tokens)
         /\ \A token \in Tokens :
              BeginExternal(g, token) \in GatesOf(M, Tokens) /\ EndExternal(g, token) \in GatesOf(M, Tokens)
<1>1. \A h \in GatesOf(M, Tokens) : Stale(h) \in GatesOf(M, Tokens)
  BY DEF GatesOf, Stale
<1>2. \A h \in GatesOf(M, Tokens) : ScheduleFlush(h) \in GatesOf(M, Tokens)
  <2> SUFFICES ASSUME NEW h \in GatesOf(M, Tokens)
               PROVE  [Stale(h) EXCEPT !.flushPending = TRUE, !.flushes = @ \cup {"current"}] \in GatesOf(M, Tokens)
    BY DEF ScheduleFlush
  <2> HIDE DEF Stale
  <2> QED
    BY <1>1 DEF GatesOf
<1>3. Begin(g) \in GatesOf(M, Tokens)
  BY <1>1 DEF Begin, GatesOf
<1>4. End(g) \in GatesOf(M, Tokens)
  <2>1. [g EXCEPT !.compacting = FALSE] \in GatesOf(M, Tokens)
    BY DEF GatesOf
  <2> QED
    BY <1>2, <2>1 DEF End
<1> DEFINE flushes == IF g.flushes = {} THEN {} ELSE {"stale"}
           empty == << >>
<1>e. empty \in Seq(M) /\ flushes \in SUBSET {"current", "stale"}
  OBVIOUS
<1>s. Stale(g).flushes = flushes
  BY DEF GatesOf, Stale
<1>n. NewGate = [compacting |-> FALSE, holds |-> {}, flushPending |-> FALSE, flushes |-> {}, held |-> empty]
  BY DEF NewGate
<1>f. Flushed(g) = [g EXCEPT !.held = empty, !.flushPending = FALSE]
  BY DEF Flushed
<1> HIDE DEF empty, flushes
<1>5. NewGate \in GatesOf(M, Tokens) /\ Reset(g) \in GatesOf(M, Tokens)
  <2>1. NewGate \in GatesOf(M, Tokens)
    BY <1>e, <1>n DEF GatesOf
  <2>2. Reset(g) = [NewGate EXCEPT !.flushes = flushes]
    BY <1>s DEF Reset
  <2> QED
    BY <1>e, <2>1, <2>2 DEF GatesOf
<1>6. Flushed(g) \in GatesOf(M, Tokens) /\ \A which : Ran(g, which) \in GatesOf(M, Tokens)
  <2>1. Flushed(g) \in GatesOf(M, Tokens)
    BY <1>e, <1>f DEF GatesOf
  <2>2. ASSUME NEW which PROVE Ran(g, which) \in GatesOf(M, Tokens)
    <3>1. g.flushes \ {which} \in SUBSET {"current", "stale"}
      BY DEF GatesOf
    <3> DEFINE rest == g.flushes \ {which}
    <3>2. Ran(g, which) = [g EXCEPT !.flushes = rest]
      BY DEF Ran
    <3> HIDE DEF rest
    <3> QED
      BY <3>1, <3>2 DEF GatesOf, rest
  <2> QED
    BY <2>1, <2>2
<1>7. ASSUME NEW token \in Tokens PROVE BeginExternal(g, token) \in GatesOf(M, Tokens)
  BY <1>1 DEF BeginExternal, GatesOf
<1>8. ASSUME NEW token \in Tokens PROVE EndExternal(g, token) \in GatesOf(M, Tokens)
  <2>1. [g EXCEPT !.holds = @ \ {token}] \in GatesOf(M, Tokens)
    BY DEF GatesOf
  <2> QED
    BY <1>2, <2>1 DEF EndExternal
<1> QED
  BY <1>1, <1>3, <1>4, <1>5, <1>6, <1>7, <1>8

LEMMA PollsTyped ==
  ASSUME Typed, NEW t \in tasks, t.kind = "start", t.engine = "alert", StartPolls(t, engine)
  PROVE  /\ tasks' \subseteq Awaited /\ engine' \in EngineType
         /\ queue' \in Seq(Seq(Alerts)) /\ gate' \in GatesOf(Seq(Alerts), Tokens)
<1>1. engine' \in EngineType
  BY DEF StartPolls, Typed, EngineType, Polling
<1>2. tasks' \subseteq Awaited
  <2>1. << >> \in Seq(Alerts)
    OBVIOUS
  <2>2. [t EXCEPT !.at = "scan"] \in Awaited
    BY <2>1, MovedTask DEF Typed
  <2>3. Task("scan", "alert", "bind", << >>) \in Awaited
    BY NewTaskTyped DEF Engines
  <2> QED
    BY <2>2, <2>3 DEF StartPolls, Typed
<1>3. queue' \in Seq(Seq(Alerts)) /\ gate' \in GatesOf(Seq(Alerts), Tokens)
  <2>1. CASE engine.shown \ engine.acks # {}
    <3>1. Resume \in Seq(Alerts)
      BY DEF Resume
    <3>2. Send(Resume)
      BY <2>1 DEF StartPolls
    <3> QED
      BY <3>1, <3>2, SendTyped
  <2>2. CASE ~ (engine.shown \ engine.acks # {})
    BY <2>2 DEF StartPolls, Typed, TypeOK
  <2> QED
    BY <2>1, <2>2
<1> QED
  BY <1>1, <1>2, <1>3

LEMMA ScanOverTyped ==
  ASSUME Typed, NEW t \in tasks, NEW eng \in EngineType, ScanOver(t, eng)
  PROVE  tasks' \subseteq Awaited /\ engine' \in EngineType
<1>1. engine' \in EngineType
  BY DEF ScanOver, EngineType
<1>2. Task("scan", "alert", "bind", << >>) \in Awaited
  BY NewTaskTyped DEF Engines
<1>3. ASSUME NEW s \in tasks, s.at = "scan" PROVE [s EXCEPT !.at = "return"] \in Awaited
  <2>1. << >> \in Seq(Alerts) /\ s \in Awaited
    BY DEF Typed
  <2>2. s.kind = "start" /\ s.engine = "alert"
    BY <1>3, <2>1 DEF Awaited, Placed, TaskType, Engines
  <2> QED
    BY <2>1, <2>2, MovedTask
<1> QED
  BY <1>1, <1>2, <1>3 DEF ScanOver, Typed

LEMMA DeactivatedTyped ==
  ASSUME Typed, NEW T \in SUBSET Awaited, Deactivated(T)
  PROVE  /\ tasks' \subseteq Awaited /\ engine' \in EngineType
         /\ slot' \in [Engines -> SlotType] /\ active' = FALSE
<1>1. tasks' \subseteq Awaited
  BY StopsTyped DEF Deactivated
<1>2. engine' \in EngineType
  BY DEF Deactivated, EngineStopped, EngineType, Typed
<1>3. slot' \in [Engines -> SlotType]
  BY DEF Deactivated, NewSlot, SlotType
<1> QED
  BY <1>1, <1>2, <1>3 DEF Deactivated

LEMMA SelfStopTyped ==
  ASSUME Typed, SelfStop
  PROVE  tasks' \subseteq Awaited /\ engine' \in EngineType
<1>1. engine' \in EngineType
  BY DEF SelfStop, EngineStopped, EngineType, Typed
<1> QED
  BY <1>1, StopsTyped DEF SelfStop, Typed

LEMMA EngineBegunTyped == ASSUME Typed PROVE EngineBegun \in EngineType
<1>1. Elements(shown) \subseteq Alerts
  BY DEF Typed, TypeOK, Elements, ToSet
<1> HIDE DEF Elements
<1> QED
  BY <1>1 DEF Typed, TypeOK, EngineBegun, StoppedEngine, EngineType

LEMMA ElementsTyped ==
  ASSUME Typed
  PROVE  /\ Elements(shown) \subseteq Alerts
         /\ \A t \in tasks : Elements(t.batch) \subseteq Alerts /\ t.batch \in Seq(Alerts)
<1>1. shown \in Seq(Alerts) /\ \A t \in tasks : t.batch \in Seq(Alerts)
  BY DEF Typed, TypeOK, Awaited, TaskType
<1> QED
  BY <1>1 DEF Elements, ToSet

\* Every step leads from well-typed states to well-typed states.
LEMMA TypedInit == Init => Typed
<1> SUFFICES ASSUME Init PROVE Typed
  OBVIOUS
<1>1. engine \in EngineType
  BY DEF Init, StoppedEngine, EngineType
<1>2. slot \in [Engines -> SlotType]
  BY DEF Init, NewSlot, SlotType
<1>3. gate \in GatesOf(Seq(Alerts), Tokens)
  <2>1. << >> \in Seq(Seq(Alerts))
    OBVIOUS
  <2> DEFINE empty == << >>
  <2>2. gate = [compacting |-> FALSE, holds |-> {}, flushPending |-> FALSE, flushes |-> {}, held |-> empty]
    BY DEF Init, NewGate
  <2>3. empty \in Seq(Seq(Alerts))
    BY <2>1
  <2> HIDE DEF empty
  <2> QED
    BY <2>2, <2>3 DEF GatesOf
<1>4. << >> \in Seq(Seq(Alerts)) /\ << >> \in Seq(Alerts)
  OBVIOUS
<1>5. TypeOK
  <2>1. queue \in Seq(Seq(Alerts)) /\ shown \in Seq(Alerts)
    BY <1>4 DEF Init
  <2>2. accepted \in 0..MaxAlerts /\ read \subseteq Alerts /\ acks \subseteq Alerts
    BY ConstantsAssumption DEF Init
  <2>3. {current, session, active} \subseteq BOOLEAN /\ pi \in {"idle", "turn", "compacting", "ending"}
    BY DEF Init
  <2> QED
    BY <1>3, <2>1, <2>2, <2>3 DEF TypeOK
<1> QED
  BY <1>1, <1>2, <1>5 DEF Typed, Init

LEMMA TypedStarts ==
  ASSUME Typed, NEW t \in tasks,
         StartBind(t) \/ StartMark(t) \/ StartReturns(t) \/ StartTaskEngine(t)
         \/ TaskEngineStarted(t) \/ RetryChecked(t) \/ StartFails(t)
  PROVE  Typed'
<1> USE DEF teamVars, sessionVars, lifecycleVars
<1>0. t \in Awaited /\ << >> \in Seq(Alerts) /\ tasks \subseteq Awaited
  BY DEF Typed
<1>t. t.kind = "start" => t.engine \in Engines
  BY <1>0 DEF Awaited, TaskType
<1>1. CASE StartBind(t)
  <2>1. CASE ~ current
    <3>1. engine' = EngineStopped(engine) /\ tasks' = EngineStop(tasks)
      BY <1>1, <2>1 DEF StartBind
    <3>2. tasks' \subseteq Awaited /\ engine' \in EngineType
      BY <3>1, SelfStopTyped DEF SelfStop
    <3> QED
      BY <1>1, <2>1, <3>2 DEF StartBind, Typed, TypeOK
  <2>2. CASE current /\ engine.acks # {}
    <3>1. engine' \in EngineType /\ InOrder(engine.acks) \in Seq(Alerts)
      BY <1>1, <2>2, InOrderTyped DEF StartBind, Typed, EngineType
    <3>2. [t EXCEPT !.at = "mark", !.batch = InOrder(engine.acks)] \in Awaited
      BY <1>0, <1>1, <3>1, MovedTask DEF StartBind
    <3>3. tasks' \subseteq Awaited
      BY <1>0, <1>1, <2>2, <3>2 DEF StartBind
    <3> QED
      BY <1>1, <2>2, <3>1, <3>3 DEF StartBind, Typed, TypeOK
  <2>3. CASE current /\ engine.acks = {}
    <3>1. StartPolls(t, engine) /\ t.kind = "start" /\ t.engine = "alert"
      BY <1>1, <2>3 DEF StartBind
    <3>2. /\ tasks' \subseteq Awaited /\ engine' \in EngineType
          /\ queue' \in Seq(Seq(Alerts)) /\ gate' \in GatesOf(Seq(Alerts), Tokens)
      BY <3>1, PollsTyped
    <3> QED
      BY <1>1, <3>2 DEF StartBind, Typed, TypeOK
  <2> QED
    BY <1>1, <2>1, <2>2, <2>3 DEF StartBind
<1>2. CASE StartMark(t)
  <2>1. t.kind = "start" /\ t.engine = "alert"
    BY <1>2 DEF StartMark
  <2>2. read' \subseteq Alerts
    BY <1>2, ElementsTyped DEF StartMark, Typed, TypeOK
  <2>3. /\ tasks' \subseteq Awaited /\ engine' \in EngineType
        /\ queue' \in Seq(Seq(Alerts)) /\ gate' \in GatesOf(Seq(Alerts), Tokens)
    <3>1. CASE t.live
      BY <1>2, <2>1, <3>1, PollsTyped DEF StartMark
    <3>2. CASE ~ t.live
      <4>1. [t EXCEPT !.at = "return"] \in Awaited
        BY <1>0, <2>1, MovedTask
      <4> QED
        BY <1>2, <3>2, <4>1 DEF StartMark, StartGoes, Typed, TypeOK
    <3> QED
      BY <3>1, <3>2
  <2> QED
    BY <1>2, <2>2, <2>3 DEF StartMark, Typed, TypeOK
<1>3. CASE StartReturns(t)
  <2>1. slot' \in [Engines -> SlotType]
    BY <1>t, <1>3 DEF StartReturns, Typed, SlotType
  <2> QED
    BY <1>3, <2>1 DEF StartReturns, Typed, TypeOK
<1>4. CASE StartTaskEngine(t)
  <2>1. t.kind = "start" /\ t.engine = "task"
    BY <1>0, <1>4 DEF StartTaskEngine, Awaited, TaskType, Placed, Engines
  <2>2. [t EXCEPT !.at = "engine"] \in Awaited
    BY <1>0, <2>1, MovedTask
  <2> QED
    BY <1>4, <2>2 DEF StartTaskEngine, Typed, TypeOK
<1>5. CASE TaskEngineStarted(t)
  <2>1. t.kind = "start"
    BY <1>5 DEF TaskEngineStarted
  <2>2. [t EXCEPT !.at = "return"] \in Awaited
    BY <1>0, <2>1, MovedTask DEF Awaited
  <2> QED
    BY <1>5, <2>2 DEF TaskEngineStarted, Typed, TypeOK
<1>6. CASE RetryChecked(t)
  <2>1. tasks \ {t} \in SUBSET Awaited /\ t.kind = "start"
    BY <1>0, <1>6 DEF RetryChecked
  <2>2. CASE ~ t.mine
    BY <1>6, <2>1, <2>2 DEF RetryChecked, Typed, TypeOK
  <2>3. CASE t.mine /\ ~ current
    <3>1. Deactivated(tasks \ {t})
      BY <1>6, <2>3 DEF RetryChecked
    <3>2. /\ tasks' \subseteq Awaited /\ engine' \in EngineType
          /\ slot' \in [Engines -> SlotType] /\ active' = FALSE
      BY <2>1, <3>1, DeactivatedTyped
    <3> QED
      BY <1>6, <3>2 DEF RetryChecked, Typed, TypeOK
  <2>4. CASE t.mine /\ current /\ t.engine = "task"
    <3>1. [t EXCEPT !.at = "engine"] \in Awaited
      BY <1>0, <2>1, <2>4, MovedTask
    <3> QED
      BY <1>6, <2>1, <2>4, <3>1 DEF RetryChecked, Typed, TypeOK
  <2>5. CASE t.mine /\ current /\ t.engine # "task"
    <3>1. t.engine = "alert"
      BY <1>t, <2>1, <2>5 DEF Engines
    <3>2. [t EXCEPT !.at = "bind"] \in Awaited
      BY <1>0, <2>1, <3>1, MovedTask
    <3>3. EngineStop(tasks \ {t}) \subseteq Awaited /\ EngineBegun \in EngineType
      BY <2>1, StopsTyped, EngineBegunTyped
    <3> QED
      BY <1>6, <2>5, <3>2, <3>3 DEF RetryChecked, Typed, TypeOK
  <2> QED
    BY <2>2, <2>3, <2>4, <2>5
<1>7. CASE StartFails(t)
  <2>1. t.kind = "start" /\ tasks \ {t} \in SUBSET Awaited /\ t.engine \in Engines
    BY <1>0, <1>t, <1>7 DEF StartFails
  <2>2. CASE t.mine /\ t.valid
    <3>1. Failed(t.engine, tasks \ {t})
      BY <1>7, <2>2 DEF StartFails
    <3>2. /\ tasks' \subseteq Awaited /\ engine' \in EngineType
          /\ slot' \in [Engines -> SlotType] /\ active' = active
      BY <2>1, <3>1, FailedTyped
    <3> QED
      BY <1>7, <3>2 DEF StartFails, Typed, TypeOK
  <2>3. CASE ~ (t.mine /\ t.valid)
    BY <1>7, <2>1, <2>3 DEF StartFails, Typed, TypeOK
  <2> QED
    BY <2>2, <2>3
<1> QED
  BY <1>1, <1>2, <1>3, <1>4, <1>5, <1>6, <1>7

LEMMA TypedScans ==
  ASSUME Typed, NEW t \in tasks,
         ScanBind(t) \/ ScanRead(t) \/ ScanRecheck(t) \/ ScanSettled(t) \/ ScanFails(t)
  PROVE  Typed'
<1> USE DEF teamVars, sessionVars, lifecycleVars
<1>0. t \in Awaited /\ t.batch \in Seq(Alerts) /\ tasks \subseteq Awaited /\ engine \in EngineType
  BY DEF Typed, Awaited, TaskType
<1>s. t.kind = "scan"
  BY DEF ScanBind, ScanRead, ScanRecheck, ScanSettled, ScanFails
<1>a. Attempting(t) \in EngineType
  BY <1>0, ElementsTyped DEF Attempting, EngineType
<1>1. CASE ScanBind(t)
  <2>1. tasks' \subseteq Awaited /\ engine' \in EngineType
    <3>1. CASE current
      <4>1. [t EXCEPT !.at = "read"] \in Awaited
        BY <1>0, <1>s, MovedTask
      <4> QED
        BY <1>0, <1>1, <3>1, <4>1 DEF ScanBind
    <3>2. CASE ~ current
      BY <1>1, <3>2, SelfStopTyped DEF ScanBind
    <3> QED
      BY <3>1, <3>2
  <2> QED
    BY <1>1, <2>1 DEF ScanBind, Typed, TypeOK
<1>2. CASE ScanRead(t)
  <2>1. tasks' \subseteq Awaited /\ engine' \in EngineType
    <3>1. CASE Pending = << >>
      BY <1>0, <1>2, <3>1, ScanOverTyped DEF ScanRead
    <3>2. CASE Pending # << >>
      <4>1. (1..accepted) \ (read \cup engine.attempted) \in SUBSET Alerts
        BY ConstantsAssumption DEF Typed, TypeOK, Alerts
      <4>2. Pending \in Seq(Alerts)
        BY <4>1, InOrderTyped DEF Pending
      <4>3. [t EXCEPT !.at = "recheck", !.batch = Pending] \in Awaited
        BY <1>0, <1>s, <4>2, MovedTask
      <4> QED
        BY <1>0, <1>2, <3>2, <4>3 DEF ScanRead
    <3> QED
      BY <3>1, <3>2
  <2> QED
    BY <1>2, <2>1 DEF ScanRead, Typed, TypeOK
<1>3. CASE ScanRecheck(t)
  <2>1. CASE ~ current
    <3>1. tasks' \subseteq Awaited /\ engine' \in EngineType
      BY <1>3, <2>1, SelfStopTyped DEF ScanRecheck
    <3> QED
      BY <1>3, <2>1, <3>1 DEF ScanRecheck, Typed, TypeOK
  <2>2. CASE current /\ Elements(t.batch) \cap Interrupting # {}
    <3>1. [t EXCEPT !.at = "settle"] \in Awaited
      BY <1>0, <1>s, MovedTask
    <3>2. tasks' \subseteq Awaited /\ engine' \in EngineType
      BY <1>0, <1>3, <1>a, <2>2, <3>1 DEF ScanRecheck
    <3> QED
      BY <1>3, <2>2, <3>2 DEF ScanRecheck, Typed, TypeOK
  <2>3. CASE current /\ ~ (Elements(t.batch) \cap Interrupting # {})
    <3>1. ScanOver(t, Attempting(t)) /\ Send(t.batch) /\ pi' = pi
      BY <1>3, <2>3 DEF ScanRecheck
    <3>2. tasks' \subseteq Awaited /\ engine' \in EngineType
      BY <1>a, <3>1, ScanOverTyped
    <3>3. queue' \in Seq(Seq(Alerts)) /\ gate' \in GatesOf(Seq(Alerts), Tokens)
      BY <1>0, <3>1, SendTyped
    <3> QED
      BY <1>3, <3>1, <3>2, <3>3 DEF ScanRecheck, Typed, TypeOK
  <2> QED
    BY <2>1, <2>2, <2>3
<1>4. CASE ScanSettled(t)
  <2>1. ScanOver(t, engine) /\ Send(t.batch)
    BY <1>4 DEF ScanSettled
  <2>2. tasks' \subseteq Awaited /\ engine' \in EngineType
    BY <1>0, <2>1, ScanOverTyped
  <2>3. queue' \in Seq(Seq(Alerts)) /\ gate' \in GatesOf(Seq(Alerts), Tokens)
    BY <1>0, <2>1, SendTyped
  <2> QED
    BY <1>4, <2>2, <2>3 DEF ScanSettled, Typed, TypeOK
<1>5. CASE ScanFails(t)
  <2> DEFINE T == {s \in tasks \ {t} : s.at # "scan"}
  <2>1. T \in SUBSET Awaited /\ "alert" \in Engines /\ Failed("alert", T)
    BY <1>0, <1>5 DEF ScanFails, Engines
  <2> HIDE DEF T
  <2>2. /\ tasks' \subseteq Awaited /\ engine' \in EngineType
        /\ slot' \in [Engines -> SlotType] /\ active' = active
    BY <2>1, FailedTyped
  <2> QED
    BY <1>5, <2>2 DEF ScanFails, Typed, TypeOK
<1> QED
  BY <1>1, <1>2, <1>3, <1>4, <1>5

LEMMA TypedCommits ==
  ASSUME Typed, NEW t \in tasks, CommitBind(t) \/ CommitMark(t) \/ CommitFails(t)
  PROVE  Typed'
<1> USE DEF teamVars, sessionVars, lifecycleVars
<1>0. t \in Awaited /\ tasks \subseteq Awaited /\ engine \in EngineType
  BY DEF Typed
<1>c. t.kind = "commit"
  BY DEF CommitBind, CommitMark, CommitFails
<1>1. CASE CommitBind(t)
  <2> DEFINE ids == engine.staged \ engine.acknowledged
  <2>1. ids \in SUBSET Alerts
    BY <1>0 DEF EngineType
  <2>2. tasks' \subseteq Awaited /\ engine' \in EngineType /\ acks' \subseteq Alerts
    <3>1. CASE ~ current
      BY <1>1, <3>1, SelfStopTyped DEF CommitBind, Typed, TypeOK
    <3>2. CASE current /\ ids = {}
      BY <1>0, <1>1, <3>2 DEF CommitBind, Typed, TypeOK
    <3>3. CASE current /\ ids # {}
      <4>1. [t EXCEPT !.at = "mark", !.batch = InOrder(ids)] \in Awaited
        BY <1>0, <1>c, <2>1, InOrderTyped, MovedTask
      <4>2. tasks' = (tasks \ {t}) \cup {[t EXCEPT !.at = "mark", !.batch = InOrder(ids)]}
        BY <1>1, <3>3 DEF CommitBind
      <4>3. acks' = acks \cup ids /\ engine' = [engine EXCEPT !.acknowledged = @ \cup ids]
        BY <1>1, <3>3 DEF CommitBind
      <4> HIDE DEF ids
      <4>4. engine' \in EngineType
        BY <1>0, <2>1, <4>3 DEF EngineType
      <4> QED
        BY <1>0, <2>1, <4>1, <4>2, <4>3, <4>4 DEF Typed, TypeOK
    <3> QED
      BY <3>1, <3>2, <3>3
  <2> QED
    BY <1>1, <2>2 DEF CommitBind, Typed, TypeOK
<1>2. CASE CommitMark(t)
  <2>1. read' \subseteq Alerts
    BY <1>2, ElementsTyped DEF CommitMark, Typed, TypeOK
  <2>2. engine' \in EngineType
    <3>1. engine.staged \ Elements(t.batch) \in SUBSET Alerts
      BY <1>0 DEF EngineType
    <3> HIDE DEF Elements
    <3> QED
      BY <1>0, <1>2, <3>1 DEF CommitMark, EngineType
  <2> QED
    BY <1>2, <2>1, <2>2 DEF CommitMark, Typed, TypeOK
<1>3. CASE CommitFails(t)
  <2>1. tasks \ {t} \in SUBSET Awaited /\ "alert" \in Engines
    BY <1>0 DEF Engines
  <2>2. CASE t.valid /\ t.mine
    <3>1. Failed("alert", tasks \ {t})
      BY <1>3, <2>2 DEF CommitFails
    <3>2. /\ tasks' \subseteq Awaited /\ engine' \in EngineType
          /\ slot' \in [Engines -> SlotType] /\ active' = active
      BY <2>1, <3>1, FailedTyped
    <3> QED
      BY <1>3, <3>2 DEF CommitFails, Typed, TypeOK
  <2>3. CASE ~ (t.valid /\ t.mine)
    BY <1>3, <2>1, <2>3 DEF CommitFails, Typed, TypeOK
  <2> QED
    BY <2>2, <2>3
<1> QED
  BY <1>1, <1>2, <1>3

LEMMA TypedOthers ==
  ASSUME Typed, Poll \/ Flush \/ (\E e \in Engines : Retry(e)) \/ TaskScanFails \/ TurnStart \/ TurnEnd
  PROVE  Typed'
<1> USE DEF teamVars, sessionVars, lifecycleVars
<1>0. tasks \subseteq Awaited /\ engine \in EngineType
  BY DEF Typed
<1>1. CASE Poll
  <2>1. Task("scan", "alert", "bind", << >>) \in Awaited
    BY NewTaskTyped DEF Engines
  <2>2. engine' \in EngineType /\ tasks' \subseteq Awaited
    BY <1>0, <1>1, <2>1 DEF Poll, EngineType
  <2> QED
    BY <1>1, <2>2 DEF Poll, Typed, TypeOK
<1>2. CASE Flush
  <2>0. PICK which \in gate.flushes :
          /\ IF Flushes(gate, which)
             THEN queue' = queue \o gate.held /\ gate' = Flushed(Ran(gate, which))
             ELSE queue' = queue /\ gate' = Ran(gate, which)
          /\ UNCHANGED <<teamVars, read, sessionVars, lifecycleVars, tasks, engine, left>>
    BY <1>2 DEF Flush
  <2>1. gate \in GatesOf(Seq(Alerts), Tokens) /\ queue \in Seq(Seq(Alerts)) /\ gate.held \in Seq(Seq(Alerts))
    BY DEF Typed, TypeOK, GatesOf
  <2>2. queue \o gate.held \in Seq(Seq(Alerts))
    BY <2>1, ConcatProperties
  <2>3. Ran(gate, which) \in GatesOf(Seq(Alerts), Tokens)
        /\ Flushed(Ran(gate, which)) \in GatesOf(Seq(Alerts), Tokens)
    BY <2>1, GateTyped
  <2> QED
    BY <2>0, <2>1, <2>2, <2>3 DEF Typed, TypeOK
<1>3. ASSUME NEW e \in Engines, Retry(e) PROVE Typed'
  <2>1. Task("start", e, "check", << >>) \in Awaited
    BY NewTaskTyped
  <2>2. slot' \in [Engines -> SlotType]
    BY <1>3 DEF Retry, Typed, SlotType
  <2> QED
    BY <1>3, <2>1, <2>2 DEF Retry, Typed, TypeOK
<1>4. CASE TaskScanFails
  <2>1. tasks \in SUBSET Awaited /\ "task" \in Engines /\ Failed("task", tasks)
    BY <1>0, <1>4 DEF TaskScanFails, Engines
  <2>2. /\ tasks' \subseteq Awaited /\ engine' \in EngineType
        /\ slot' \in [Engines -> SlotType] /\ active' = active
    BY <2>1, FailedTyped
  <2> QED
    BY <1>4, <2>2 DEF TaskScanFails, Typed, TypeOK
<1>5. CASE TurnStart
  <2>1. FlattenSeq(queue) \in Seq(Alerts)
    <3>1. << >> \in Seq(Alerts) /\ queue \in Seq(Seq(Alerts))
      BY DEF Typed, TypeOK
    <3> QED
      BY <3>1, FlattenAppend
  <2>2. shown' \in Seq(Alerts) /\ queue' = << >>
    <3>1. shown \in Seq(Alerts)
      BY DEF Typed, TypeOK
    <3>2. shown \o FlattenSeq(queue) \in Seq(Alerts)
      BY <2>1, <3>1, ConcatProperties
    <3> QED
      BY <1>5, <3>2 DEF TurnStart
  <2>3. << >> \in Seq(Seq(Alerts))
    OBVIOUS
  <2>4. Elements(shown') \subseteq Alerts
    BY <2>2 DEF Elements, ToSet
  <2>5. engine' \in EngineType
    <3>1. PICK c : c = Elements(shown')
      OBVIOUS
    <3>2. ObserveContext(c) /\ c \in SUBSET Alerts
      BY <1>5, <2>4, <3>1 DEF TurnStart
    <3> QED
      BY <1>0, <3>2 DEF ObserveContext, EngineType
  <2> QED
    BY <1>5, <2>2, <2>3, <2>5 DEF TurnStart, Typed, TypeOK
<1>6. CASE TurnEnd
  <2>1. Task("commit", "alert", "bind", << >>) \in Awaited
    BY NewTaskTyped DEF Engines
  <2> QED
    BY <1>6, <2>1 DEF TurnEnd, Typed, TypeOK
<1> QED
  BY <1>1, <1>2, <1>3, <1>4, <1>5, <1>6

LEMMA TypedSession ==
  ASSUME Typed,
         \/ CompactStart \/ CompactEnd \/ CompactCleared \/ CompactUntold \/ HoldLimit \/ Tree
         \/ \E token \in Tokens : HoldBegin(token) \/ HoldEnd(token)
         \/ SessionStart \/ SessionShutdown \/ Crash \/ Accept \/ Unbind
  PROVE  Typed'
<1> USE DEF teamVars, sessionVars, lifecycleVars, piOnly
<1>g. gate \in GatesOf(Seq(Alerts), Tokens)
  BY DEF Typed, TypeOK
<1>0. /\ Begin(gate) \in GatesOf(Seq(Alerts), Tokens) /\ End(gate) \in GatesOf(Seq(Alerts), Tokens)
      /\ Reset(gate) \in GatesOf(Seq(Alerts), Tokens) /\ NewGate \in GatesOf(Seq(Alerts), Tokens)
      /\ \A token \in Tokens : /\ BeginExternal(gate, token) \in GatesOf(Seq(Alerts), Tokens)
                               /\ EndExternal(gate, token) \in GatesOf(Seq(Alerts), Tokens)
  BY <1>g, GateTyped
<1>1. CASE CompactStart
  BY <1>0, <1>1 DEF CompactStart, Typed, TypeOK
<1>2. CASE CompactEnd
  BY <1>0, <1>2 DEF CompactEnd, Typed, TypeOK
<1>3. CASE CompactCleared
  BY <1>3 DEF CompactCleared, Typed, TypeOK
<1>4. CASE CompactUntold
  BY <1>4 DEF CompactUntold, Typed, TypeOK
<1>5. CASE HoldLimit
  BY <1>0, <1>5 DEF HoldLimit, Typed, TypeOK
<1>6. CASE Tree
  BY <1>0, <1>6 DEF Tree, Typed, TypeOK
<1>7. ASSUME NEW token \in Tokens, HoldBegin(token) \/ HoldEnd(token) PROVE Typed'
  BY <1>0, <1>7 DEF HoldBegin, HoldEnd, Typed, TypeOK
<1>8. CASE SessionStart
  <2>1. [Task("start", "alert", "bind", << >>) EXCEPT !.first = TRUE] \in Awaited
    <3>1. Task("start", "alert", "bind", << >>) \in Awaited
      BY NewTaskTyped DEF Engines
    <3> HIDE DEF Task
    <3> QED
      BY <3>1 DEF Awaited, TaskType, Placed
  <2>2. Task("start", "task", "wait", << >>) \in Awaited
    BY NewTaskTyped DEF Engines
  <2>3. tasks' \subseteq Awaited
    BY <1>8, <2>1, <2>2 DEF SessionStart, Typed
  <2>4. engine' \in EngineType
    BY <1>8, EngineBegunTyped DEF SessionStart
  <2>5. slot' \in [Engines -> SlotType]
    BY <1>8 DEF SessionStart, NewSlot, SlotType
  <2> QED
    BY <1>0, <1>8, <2>3, <2>4, <2>5 DEF SessionStart, Typed, TypeOK
<1>9. CASE SessionShutdown
  <2>1. tasks \in SUBSET Awaited /\ Deactivated(tasks)
    BY <1>9 DEF SessionShutdown, Typed
  <2>2. /\ tasks' \subseteq Awaited /\ engine' \in EngineType
        /\ slot' \in [Engines -> SlotType] /\ active' = FALSE
    BY <2>1, DeactivatedTyped
  <2> QED
    BY <1>0, <1>9, <2>2 DEF SessionShutdown, Typed, TypeOK
<1>10. CASE Crash
  <2>1. engine' \in EngineType
    BY <1>10 DEF Crash, StoppedEngine, EngineType
  <2>2. slot' \in [Engines -> SlotType]
    BY <1>10 DEF Crash, NewSlot, SlotType
  <2>3. << >> \in Seq(Seq(Alerts)) /\ {} \subseteq Awaited
    OBVIOUS
  <2> QED
    BY <1>0, <1>10, <2>1, <2>2, <2>3 DEF Crash, Typed, TypeOK
<1>11. CASE Accept
  BY <1>11, ConstantsAssumption DEF Accept, Typed, TypeOK
<1>12. CASE Unbind
  BY <1>12 DEF Unbind, Typed, TypeOK
<1> QED
  BY <1>1, <1>2, <1>3, <1>4, <1>5, <1>6, <1>7, <1>8, <1>9, <1>10, <1>11, <1>12

\* The actions of a step, in the groups that the proofs treat together.
StartsGo(t) ==
  StartBind(t) \/ StartMark(t) \/ StartReturns(t) \/ StartTaskEngine(t)
  \/ TaskEngineStarted(t) \/ RetryChecked(t) \/ StartFails(t)

ScansGo(t) == ScanBind(t) \/ ScanRead(t) \/ ScanRecheck(t) \/ ScanSettled(t) \/ ScanFails(t)

CommitsGo(t) == CommitBind(t) \/ CommitMark(t) \/ CommitFails(t)

OthersGo == Poll \/ Flush \/ (\E e \in Engines : Retry(e)) \/ TaskScanFails \/ TurnStart \/ TurnEnd

SessionGoes ==
  \/ CompactStart \/ CompactEnd \/ CompactCleared \/ CompactUntold \/ HoldLimit
  \/ \E token \in Tokens : HoldBegin(token) \/ HoldEnd(token)
  \/ SessionStart \/ SessionShutdown \/ Crash \/ Accept \/ Unbind

LEMMA NextIs ==
  ASSUME Next
  PROVE  \/ \E t \in tasks : StartsGo(t) \/ ScansGo(t) \/ CommitsGo(t)
         \/ OthersGo \/ SessionGoes
BY DEF Next, TaskStep, StartsGo, ScansGo, CommitsGo, OthersGo, SessionGoes

\* The state is always well-typed (RecipientDeliveryLifecycle,
\* CompactionDeliveryGate, the engine of Alerts).
THEOREM TypeHolds == Spec => []Typed
<1>1. Init => Typed
  BY TypedInit
<1>2. Typed /\ [Next]_vars => Typed'
  <2> SUFFICES ASSUME Typed, [Next]_vars PROVE Typed'
    OBVIOUS
  <2>1. CASE Next
    <3>1. ASSUME NEW t \in tasks, StartsGo(t) PROVE Typed'
      BY <3>1, TypedStarts DEF StartsGo
    <3>2. ASSUME NEW t \in tasks, ScansGo(t) PROVE Typed'
      BY <3>2, TypedScans DEF ScansGo
    <3>3. ASSUME NEW t \in tasks, CommitsGo(t) PROVE Typed'
      BY <3>3, TypedCommits DEF CommitsGo
    <3>4. CASE OthersGo
      BY <3>4, TypedOthers DEF OthersGo
    <3>5. CASE SessionGoes
      BY <3>5, TypedSession DEF SessionGoes
    <3> QED
      BY <2>1, <3>1, <3>2, <3>3, <3>4, <3>5, NextIs
  <2>2. CASE UNCHANGED vars
    BY <2>2 DEF Typed, TypeOK, vars
  <2> QED
    BY <2>1, <2>2
<1> QED
  BY <1>1, <1>2, PTL DEF Spec

-----------------------------------------------------------------------------
(* The gate.                                                                 *)

\* The gate keeps nothing while it is open, and is closed from the start of a
\* compaction until Pi has cleared it.
GateInv ==
  /\ ~ IsClosed(gate) => gate.held = << >>
  /\ pi = "compacting" => gate.compacting
  /\ pi = "ending" => IsClosed(gate)
  /\ ~ session => pi = "idle"

LEMMA GateFacts ==
  ASSUME NEW M, NEW g \in GatesOf(M, Tokens)
  PROVE  /\ IsClosed(Begin(g)) /\ Begin(g).compacting
         /\ IsClosed(End(g)) \/ End(g) = g
         /\ g.compacting => IsClosed(End(g))
         /\ ~ IsClosed(NewGate) /\ NewGate.held = << >>
         /\ Reset(g).held = << >>
         /\ \A m : /\ IsClosed(Keep(g, m)) = IsClosed(g) /\ Keep(g, m).compacting = g.compacting
                   /\ Keep(g, m).held = Append(g.held, m)
         /\ \A which : /\ IsClosed(Ran(g, which)) = IsClosed(g) /\ Ran(g, which).compacting = g.compacting
                       /\ Ran(g, which).held = g.held
                       /\ Flushed(Ran(g, which)).compacting = g.compacting
                       /\ Flushed(Ran(g, which)).held = << >>
         /\ \A token \in Tokens :
              /\ IsClosed(BeginExternal(g, token))
              /\ BeginExternal(g, token).compacting = g.compacting
              /\ token \in g.holds => IsClosed(EndExternal(g, token))
              /\ EndExternal(g, token).compacting = g.compacting
<1>1. ASSUME NEW h \in GatesOf(M, Tokens)
      PROVE  /\ IsClosed(ScheduleFlush(h)) /\ ScheduleFlush(h).compacting = h.compacting
  BY DEF GatesOf, ScheduleFlush, Stale, IsClosed, HasHold
<1>2. IsClosed(Begin(g)) /\ Begin(g).compacting
  BY DEF GatesOf, Begin, Stale, IsClosed, HasHold
<1>3. (IsClosed(End(g)) \/ End(g) = g) /\ (g.compacting => IsClosed(End(g)))
  <2>1. [g EXCEPT !.compacting = FALSE] \in GatesOf(M, Tokens)
    BY DEF GatesOf
  <2> QED
    BY <1>1, <2>1 DEF End
<1>4. ~ IsClosed(NewGate) /\ NewGate.held = << >>
  BY DEF NewGate, IsClosed, HasHold
<1>5. Reset(g).held = << >>
  BY DEF Reset, NewGate
<1>6. ASSUME NEW m
      PROVE  /\ IsClosed(Keep(g, m)) = IsClosed(g) /\ Keep(g, m).compacting = g.compacting
             /\ Keep(g, m).held = Append(g.held, m)
  BY DEF Keep, GatesOf, IsClosed, HasHold
<1>7. ASSUME NEW which
      PROVE  /\ IsClosed(Ran(g, which)) = IsClosed(g) /\ Ran(g, which).compacting = g.compacting
             /\ Ran(g, which).held = g.held
             /\ Flushed(Ran(g, which)).compacting = g.compacting
             /\ Flushed(Ran(g, which)).held = << >>
  BY DEF Ran, Flushed, GatesOf, IsClosed, HasHold
<1>8. ASSUME NEW token \in Tokens
      PROVE  /\ IsClosed(BeginExternal(g, token))
             /\ BeginExternal(g, token).compacting = g.compacting
             /\ token \in g.holds => IsClosed(EndExternal(g, token))
             /\ EndExternal(g, token).compacting = g.compacting
  <2>1. /\ [g EXCEPT !.holds = @ \ {token}] \in GatesOf(M, Tokens)
        /\ [g EXCEPT !.holds = @ \ {token}].compacting = g.compacting
    BY DEF GatesOf
  <2>2. /\ token \in g.holds => IsClosed(EndExternal(g, token))
        /\ EndExternal(g, token).compacting = g.compacting
    BY <1>1, <2>1 DEF EndExternal
  <2>3. IsClosed(BeginExternal(g, token)) /\ BeginExternal(g, token).compacting = g.compacting
    BY DEF BeginExternal, Stale, GatesOf, IsClosed, HasHold
  <2> QED
    BY <2>2, <2>3
<1> QED
  BY <1>2, <1>3, <1>4, <1>5, <1>6, <1>7, <1>8

LEMMA SendGate ==
  ASSUME Typed, GateInv, NEW m, Send(m)
  PROVE  /\ IsClosed(gate') = IsClosed(gate) /\ gate'.compacting = gate.compacting
         /\ ~ IsClosed(gate') => gate'.held = << >>
         /\ IsClosed(gate) => queue' = queue
<1>1. gate \in GatesOf(Seq(Alerts), Tokens)
  BY DEF Typed, TypeOK
<1>2. IsClosed(Keep(gate, m)) = IsClosed(gate) /\ Keep(gate, m).compacting = gate.compacting
  BY <1>1, GateFacts
<1> QED
  BY <1>2 DEF Send, GateInv

\* A task leaves the gate alone, or sends something through it.
LEMMA TasksSend ==
  ASSUME NEW t \in tasks, StartsGo(t) \/ ScansGo(t) \/ CommitsGo(t)
  PROVE  /\ UNCHANGED <<queue, gate>> \/ \E m : Send(m)
         /\ pi' = pi \/ (pi' = "idle" /\ pi = "turn")
         /\ session' = session
<1> USE DEF teamVars, sessionVars, lifecycleVars
<1>1. CASE StartBind(t)
  BY <1>1 DEF StartBind, StartPolls
<1>2. CASE StartMark(t)
  BY <1>2 DEF StartMark, StartPolls
<1>3. CASE StartReturns(t)
  BY <1>3 DEF StartReturns
<1>4. CASE StartTaskEngine(t)
  BY <1>4 DEF StartTaskEngine
<1>5. CASE TaskEngineStarted(t)
  BY <1>5 DEF TaskEngineStarted
<1>6. CASE RetryChecked(t)
  BY <1>6 DEF RetryChecked
<1>7. CASE StartFails(t)
  BY <1>7 DEF StartFails
<1>8. CASE ScanBind(t)
  BY <1>8 DEF ScanBind
<1>9. CASE ScanRead(t)
  BY <1>9 DEF ScanRead
<1>10. CASE ScanRecheck(t)
  BY <1>10 DEF ScanRecheck
<1>11. CASE ScanSettled(t)
  BY <1>11 DEF ScanSettled
<1>12. CASE ScanFails(t)
  BY <1>12 DEF ScanFails
<1>13. CASE CommitBind(t)
  BY <1>13 DEF CommitBind
<1>14. CASE CommitMark(t)
  BY <1>14 DEF CommitMark
<1>15. CASE CommitFails(t)
  BY <1>15 DEF CommitFails
<1> QED
  BY <1>1, <1>2, <1>3, <1>4, <1>5, <1>6, <1>7, <1>8, <1>9, <1>10, <1>11, <1>12, <1>13,
     <1>14, <1>15 DEF StartsGo, ScansGo, CommitsGo

LEMMA GateStep ==
  ASSUME Typed, GateInv, [Next]_vars
  PROVE  /\ GateInv'
         /\ pi \in {"compacting", "ending"} /\ session' => Len(queue') <= Len(queue)
<1> USE DEF teamVars, sessionVars, lifecycleVars, piOnly
<1> DEFINE Kept == pi \in {"compacting", "ending"} /\ session' => Len(queue') <= Len(queue)
<1>0. /\ gate \in GatesOf(Seq(Alerts), Tokens)
      /\ queue \in Seq(Seq(Alerts)) /\ Len(queue) \in Nat /\ Len(<< >>) = 0
  BY LenProperties DEF Typed, TypeOK
<1>c. gate.compacting => IsClosed(gate)
  BY DEF IsClosed, HasHold
<1>f. /\ IsClosed(Begin(gate)) /\ Begin(gate).compacting
      /\ IsClosed(End(gate)) \/ End(gate) = gate
      /\ gate.compacting => IsClosed(End(gate))
      /\ ~ IsClosed(NewGate) /\ NewGate.held = << >>
      /\ Reset(gate).held = << >>
      /\ \A token \in Tokens :
           /\ IsClosed(BeginExternal(gate, token))
           /\ BeginExternal(gate, token).compacting = gate.compacting
           /\ token \in gate.holds => IsClosed(EndExternal(gate, token))
           /\ EndExternal(gate, token).compacting = gate.compacting
  BY <1>0, GateFacts
<1>1. ASSUME NEW t \in tasks, StartsGo(t) \/ ScansGo(t) \/ CommitsGo(t) PROVE GateInv' /\ Kept
  <2>1. /\ UNCHANGED <<queue, gate>> \/ \E m : Send(m)
        /\ pi' = pi \/ (pi' = "idle" /\ pi = "turn")
        /\ session' = session
    BY <1>1, TasksSend
  <2>2. CASE UNCHANGED <<queue, gate>>
    BY <1>0, <2>1, <2>2 DEF GateInv
  <2>3. ASSUME NEW m, Send(m) PROVE GateInv' /\ Kept
    <3>1. /\ IsClosed(gate') = IsClosed(gate) /\ gate'.compacting = gate.compacting
          /\ ~ IsClosed(gate') => gate'.held = << >>
          /\ IsClosed(gate) => queue' = queue
      BY <2>3, SendGate
    <3> QED
      BY <1>0, <1>c, <2>1, <3>1 DEF GateInv
  <2> QED
    BY <2>1, <2>2, <2>3
<1>2. CASE OthersGo
  <2>1. CASE Flush
    <3>1. PICK which \in gate.flushes :
            /\ pi # "ending"
            /\ IF Flushes(gate, which)
               THEN queue' = queue \o gate.held /\ gate' = Flushed(Ran(gate, which))
               ELSE queue' = queue /\ gate' = Ran(gate, which)
            /\ UNCHANGED <<session, pi>>
      BY <2>1 DEF Flush
    <3>2. /\ IsClosed(Ran(gate, which)) = IsClosed(gate) /\ Ran(gate, which).compacting = gate.compacting
          /\ Ran(gate, which).held = gate.held
          /\ Flushed(Ran(gate, which)).compacting = gate.compacting
          /\ Flushed(Ran(gate, which)).held = << >>
      BY <1>0, GateFacts
    <3>3. Flushes(gate, which) => ~ gate.compacting
      BY DEF Flushes, HasHold
    <3> QED
      BY <1>0, <3>1, <3>2, <3>3 DEF GateInv
  <2>2. CASE TurnStart
    BY <1>0, <2>2 DEF TurnStart, GateInv
  <2>3. CASE TurnEnd
    BY <1>0, <2>3 DEF TurnEnd, GateInv
  <2>4. CASE Poll \/ (\E e \in Engines : Retry(e)) \/ TaskScanFails
    BY <1>0, <2>4 DEF Poll, Retry, TaskScanFails, GateInv
  <2> QED
    BY <1>2, <2>1, <2>2, <2>3, <2>4 DEF OthersGo
<1>3. CASE SessionGoes
  <2>1. CASE CompactStart
    BY <1>0, <1>f, <2>1 DEF CompactStart, GateInv
  <2>2. CASE CompactEnd
    BY <1>0, <1>f, <2>2 DEF CompactEnd, GateInv
  <2>3. CASE CompactCleared \/ CompactUntold
    BY <1>0, <2>3 DEF CompactCleared, CompactUntold, GateInv
  <2>4. CASE HoldLimit
    BY <1>0, <1>f, <2>4 DEF HoldLimit, GateInv
  <2>5. ASSUME NEW token \in Tokens, HoldBegin(token) \/ HoldEnd(token) PROVE GateInv' /\ Kept
    BY <1>0, <1>f, <2>5 DEF HoldBegin, HoldEnd, GateInv
  <2>6. CASE SessionStart
    BY <1>0, <1>f, <2>6 DEF SessionStart, GateInv
  <2>7. CASE SessionShutdown
    BY <1>0, <1>f, <2>7 DEF SessionShutdown, GateInv
  <2>8. CASE Crash
    BY <1>0, <1>f, <2>8 DEF Crash, GateInv
  <2>9. CASE Accept \/ Unbind
    BY <1>0, <2>9 DEF Accept, Unbind, GateInv
  <2> QED
    BY <1>3, <2>1, <2>2, <2>3, <2>4, <2>5, <2>6, <2>7, <2>8, <2>9 DEF SessionGoes
<1>4. CASE UNCHANGED vars
  BY <1>0, <1>4 DEF vars, GateInv
<1> QED
  BY <1>1, <1>2, <1>3, <1>4, NextIs

\* The gate keeps nothing that it should send, and lets nothing through that
\* it should keep (CompactionDeliveryGate.sink, scheduleFlush).
THEOREM GateHolds == Spec => []GateInv
<1>1. Init => GateInv
  BY DEF Init, GateInv, NewGate
<1>2. Typed /\ GateInv /\ [Next]_vars => GateInv'
  BY GateStep
<1> QED
  BY <1>1, <1>2, TypeHolds, PTL DEF Spec

\* Nothing reaches Pi while it compacts, whatever holds, limits, late flushes
\* and restarts of the Session come in between (sink, scheduleFlush).
THEOREM CompactionsAreQuiet == Spec => NothingReachesACompaction
<1>1. Typed /\ GateInv /\ [Next]_vars
      => [(pi \in {"compacting", "ending"} /\ session') => Len(queue') <= Len(queue)]_vars
  BY GateStep
<1> QED
  BY <1>1, TypeHolds, GateHolds, PTL DEF Spec, NothingReachesACompaction

-----------------------------------------------------------------------------
(* What counts as read was shown.                                            *)

\* What the engine takes as shown or acknowledged is so in the conversation,
\* and nothing is marked that the conversation does not acknowledge.
ShownInv ==
  /\ ReadWasShown
  /\ engine.staged \subseteq Elements(shown) /\ engine.shown \subseteq Elements(shown)
  /\ engine.acks \subseteq acks
  /\ \A t \in tasks : t.at = "mark" => Elements(t.batch) \subseteq acks

\* Who is at the marking is there still after a stop, or is gone.
LEMMA StopsMark ==
  ASSUME NEW T \in SUBSET Awaited
  PROVE  /\ \A s \in EngineStop(T) : s.at = "mark" => \E t \in T : t.at = "mark" /\ t.batch = s.batch
         /\ \A s \in Orphaned(T) : s.at = "mark" => \E t \in T : t.at = "mark" /\ t.batch = s.batch
         /\ \A e : \A s \in SlotStop(T, e) :
              s.at = "mark" => \E t \in T : t.at = "mark" /\ t.batch = s.batch
<1>1. ASSUME NEW s \in EngineStop(T), s.at = "mark"
      PROVE  \E t \in T : t.at = "mark" /\ t.batch = s.batch
  <2>1. PICK t \in T : Survives(t) /\ s = Halted(t)
    BY EngineStopIs
  <2>2. t.at = "mark" /\ t.batch = s.batch
    BY <1>1, <2>1, HaltedTask
  <2> QED
    BY <2>2
<1>2. ASSUME NEW s \in Orphaned(T), s.at = "mark"
      PROVE  \E t \in T : t.at = "mark" /\ t.batch = s.batch
  <2>1. PICK u \in EngineStop(T) : u.at = "mark" /\ s = Orphan(u)
    BY OrphanedIs
  <2>2. s.batch = u.batch
    BY <2>1, StopsTyped, InvalidTask
  <2> QED
    BY <1>1, <2>1, <2>2
<1>3. ASSUME NEW e, NEW s \in SlotStop(T, e), s.at = "mark"
      PROVE  \E t \in T : t.at = "mark" /\ t.batch = s.batch
  <2>1. PICK u \in IF e = "alert" THEN EngineStop(T) ELSE T : s = Invalid(u, e)
    BY SlotStopIs
  <2>2. u \in Awaited
    BY <2>1, StopsTyped
  <2>3. u.at = "mark" /\ s.batch = u.batch
    BY <1>3, <2>1, <2>2, InvalidTask
  <2> QED
    BY <1>1, <2>1, <2>3
<1> QED
  BY <1>1, <1>2, <1>3

\* Marking, in a state and in the next.
Marks(T, A) == \A t \in T : t.at = "mark" => Elements(t.batch) \subseteq A

LEMMA StopsKeepMarks ==
  ASSUME NEW T \in SUBSET Awaited, NEW A, Marks(T, A)
  PROVE  /\ Marks(EngineStop(T), A) /\ Marks(Orphaned(T), A)
         /\ \A e : Marks(SlotStop(T, e), A)
BY StopsMark DEF Marks

LEMMA FailedShown ==
  ASSUME Typed, ShownInv, NEW e, NEW T, T \subseteq tasks, Failed(e, T)
  PROVE  /\ Marks(tasks', acks)
         /\ engine' = engine \/ engine' = EngineStopped(engine)
<1>1. T \in SUBSET Awaited /\ Marks(T, acks)
  BY DEF Typed, ShownInv, Marks
<1> QED
  BY <1>1, StopsKeepMarks DEF Failed, lifecycleVars

\* The engine when it begins, is stopped, or polls, given what it was.
LEMMA EngineShown ==
  ASSUME Typed, ShownInv
  PROVE  /\ EngineStopped(engine).staged = {} /\ EngineStopped(engine).shown = engine.shown
         /\ EngineStopped(engine).acks = engine.acks
         /\ EngineBegun.staged = {} /\ EngineBegun.shown = Elements(shown) /\ EngineBegun.acks = acks
         /\ Polling(engine).staged = engine.staged
         /\ Polling(engine).shown = {} /\ Polling(engine).acks = {}
         /\ StoppedEngine.staged = {} /\ StoppedEngine.shown = {} /\ StoppedEngine.acks = {}
<1> HIDE DEF Elements
<1> QED
  BY DEF Typed, EngineType, EngineStopped, EngineBegun, StoppedEngine, Polling

LEMMA ShownStarts ==
  ASSUME Typed, ShownInv, NEW t \in tasks, StartsGo(t)
  PROVE  ShownInv'
<1> USE DEF teamVars, sessionVars, lifecycleVars
<1> HIDE DEF Elements
<1>0. t \in Awaited /\ tasks \in SUBSET Awaited /\ engine \in EngineType /\ Marks(tasks, acks)
  BY DEF Typed, ShownInv, Marks
<1>e. /\ EngineStopped(engine).staged = {} /\ EngineStopped(engine).shown = engine.shown
      /\ EngineStopped(engine).acks = engine.acks
      /\ EngineBegun.staged = {} /\ EngineBegun.shown = Elements(shown) /\ EngineBegun.acks = acks
      /\ Polling(engine).staged = engine.staged
      /\ Polling(engine).shown = {} /\ Polling(engine).acks = {}
  BY EngineShown
<1>s. Marks(EngineStop(tasks), acks) /\ Marks(EngineStop(tasks \ {t}), acks) /\ Marks(Orphaned(tasks \ {t}), acks)
  <2>1. tasks \ {t} \in SUBSET Awaited /\ Marks(tasks \ {t}, acks)
    BY <1>0 DEF Marks
  <2> QED
    BY <1>0, <2>1, StopsKeepMarks
<1>n. \A at : at # "mark" => [t EXCEPT !.at = at].at # "mark"
  BY <1>0 DEF Awaited, TaskType
<1>k. \A k, e, at : at # "mark" => Task(k, e, at, << >>).at # "mark"
  BY DEF Task
<1>p. ASSUME StartPolls(t, engine) PROVE Marks(tasks', acks) /\ engine' = Polling(engine)
  BY <1>0, <1>n, <1>k, <1>p DEF StartPolls, Marks
<1>1. CASE StartBind(t)
  <2>1. CASE ~ current
    BY <1>1, <1>e, <1>s, <2>1 DEF StartBind, ShownInv, ReadWasShown, Marks
  <2>2. CASE current /\ engine.acks # {}
    <3> DEFINE u == [t EXCEPT !.at = "mark", !.batch = InOrder(engine.acks)]
    <3>1. u.batch = InOrder(engine.acks) /\ Elements(InOrder(engine.acks)) = engine.acks
      BY <1>0, InOrderTyped DEF Awaited, TaskType, EngineType
    <3>2. Elements(u.batch) \subseteq acks
      BY <3>1 DEF ShownInv
    <3>3. tasks' = (tasks \ {t}) \cup {u}
      BY <1>1, <2>2 DEF StartBind
    <3> HIDE DEF u
    <3>4. Marks(tasks', acks)
      BY <1>0, <3>2, <3>3 DEF Marks
    <3>5. engine'.staged = engine.staged /\ engine'.shown = engine.shown /\ engine'.acks = engine.acks
      BY <1>0, <1>1, <2>2 DEF StartBind, EngineType
    <3>6. UNCHANGED <<read, acks, shown>>
      BY <1>1 DEF StartBind
    <3> QED
      BY <3>4, <3>5, <3>6 DEF ShownInv, ReadWasShown, Marks
  <2>3. CASE current /\ engine.acks = {}
    <3>1. StartPolls(t, engine)
      BY <1>1, <2>3 DEF StartBind
    <3> QED
      BY <1>1, <1>e, <1>p, <3>1 DEF StartBind, ShownInv, ReadWasShown, Marks
  <2> QED
    BY <2>1, <2>2, <2>3
<1>2. CASE StartMark(t)
  <2>1. read' \subseteq acks
    BY <1>0, <1>2 DEF StartMark, ShownInv, ReadWasShown, Marks
  <2>2. Marks(tasks', acks) /\ engine' \in {engine, Polling(engine)}
    <3>1. CASE t.live
      BY <1>2, <1>p, <3>1 DEF StartMark
    <3>2. CASE ~ t.live
      BY <1>0, <1>2, <1>n, <3>2 DEF StartMark, StartGoes, Marks
    <3> QED
      BY <3>1, <3>2
  <2> QED
    BY <1>2, <1>e, <2>1, <2>2 DEF StartMark, ShownInv, ReadWasShown, Marks
<1>3. CASE StartReturns(t)
  BY <1>3 DEF StartReturns, ShownInv, ReadWasShown
<1>4. CASE StartTaskEngine(t)
  BY <1>4, <1>n DEF StartTaskEngine, ShownInv, ReadWasShown
<1>5. CASE TaskEngineStarted(t)
  BY <1>5, <1>n DEF TaskEngineStarted, ShownInv, ReadWasShown
<1>6. CASE RetryChecked(t)
  <2>1. UNCHANGED <<read, acks, shown>>
    BY <1>6 DEF RetryChecked
  <2>2. Marks(tasks', acks) /\ engine' \in {engine, EngineStopped(engine), EngineBegun}
    BY <1>0, <1>6, <1>n, <1>s DEF RetryChecked, Deactivated, Marks
  <2> QED
    BY <1>e, <2>1, <2>2 DEF ShownInv, ReadWasShown, Marks
<1>7. CASE StartFails(t)
  <2>1. UNCHANGED <<read, acks, shown>>
    BY <1>7 DEF StartFails
  <2>2. Marks(tasks', acks) /\ engine' \in {engine, EngineStopped(engine)}
    <3>1. CASE t.mine /\ t.valid
      BY <1>7, <3>1, FailedShown DEF StartFails
    <3>2. CASE ~ (t.mine /\ t.valid)
      BY <1>0, <1>7, <3>2 DEF StartFails, Marks
    <3> QED
      BY <3>1, <3>2
  <2> QED
    BY <1>e, <2>1, <2>2 DEF ShownInv, ReadWasShown, Marks
<1> QED
  BY <1>1, <1>2, <1>3, <1>4, <1>5, <1>6, <1>7 DEF StartsGo

LEMMA ShownScans ==
  ASSUME Typed, ShownInv, NEW t \in tasks, ScansGo(t)
  PROVE  ShownInv'
<1> USE DEF teamVars, sessionVars, lifecycleVars
<1> HIDE DEF Elements
<1>0. t \in Awaited /\ tasks \in SUBSET Awaited /\ engine \in EngineType /\ Marks(tasks, acks)
  BY DEF Typed, ShownInv, Marks
<1>e. /\ EngineStopped(engine).staged = {} /\ EngineStopped(engine).shown = engine.shown
      /\ EngineStopped(engine).acks = engine.acks
  BY EngineShown
<1>n. \A at, b : at # "mark" => /\ [t EXCEPT !.at = at].at # "mark"
                                /\ [t EXCEPT !.at = at, !.batch = b].at # "mark"
  BY <1>0 DEF Awaited, TaskType
<1>1. UNCHANGED <<read, acks, shown>>
  BY DEF ScansGo, ScanBind, ScanRead, ScanRecheck, ScanSettled, ScanFails
<1>2. Marks(EngineStop(tasks), acks)
  BY <1>0, StopsKeepMarks
<1>3. ASSUME Marks(tasks', acks),
             \/ engine' = EngineStopped(engine)
             \/ /\ engine'.staged = engine.staged /\ engine'.shown = engine.shown
                /\ engine'.acks = engine.acks
      PROVE  ShownInv'
  BY <1>e, <1>1, <1>3 DEF ShownInv, ReadWasShown, Marks
<1>4. /\ Attempting(t).staged = engine.staged /\ Attempting(t).shown = engine.shown
      /\ Attempting(t).acks = engine.acks /\ Attempting(t) \in EngineType
  BY <1>0, ElementsTyped DEF Attempting, EngineType
<1>5. ASSUME NEW eng \in {engine, Attempting(t)}, ScanOver(t, eng) PROVE ShownInv'
  <2>1. /\ engine'.staged = engine.staged /\ engine'.shown = engine.shown /\ engine'.acks = engine.acks
    <3>1. eng \in EngineType /\ eng.staged = engine.staged /\ eng.shown = engine.shown /\ eng.acks = engine.acks
      BY <1>0, <1>4
    <3>2. engine' \in {eng, [eng EXCEPT !.rescan = FALSE]}
      BY <1>5 DEF ScanOver
    <3> QED
      BY <3>1, <3>2 DEF EngineType
  <2>2. Marks(tasks', acks)
    <3>1. Task("scan", "alert", "bind", << >>).at # "mark"
      BY DEF Task
    <3>2. \A s \in tasks : [s EXCEPT !.at = "return"].at # "mark"
      BY <1>0 DEF Awaited, TaskType
    <3> QED
      BY <1>0, <1>5, <3>1, <3>2 DEF ScanOver, Marks
  <2> QED
    BY <1>3, <2>1, <2>2
<1>6. SelfStop => ShownInv'
  BY <1>2, <1>3 DEF SelfStop
<1>7. ASSUME NEW u, u.at # "mark", tasks' = (tasks \ {t}) \cup {u}, engine' \in {engine, Attempting(t)}
      PROVE  ShownInv'
  <2>1. Marks(tasks', acks)
    BY <1>0, <1>7 DEF Marks
  <2> QED
    BY <1>3, <1>4, <1>7, <2>1
<1>8. CASE ScanBind(t)
  BY <1>6, <1>7, <1>8, <1>n DEF ScanBind
<1>9. CASE ScanRead(t)
  BY <1>5, <1>7, <1>9, <1>n DEF ScanRead
<1>10. CASE ScanRecheck(t)
  BY <1>5, <1>6, <1>7, <1>10, <1>n DEF ScanRecheck
<1>11. CASE ScanSettled(t)
  BY <1>5, <1>11 DEF ScanSettled
<1>12. CASE ScanFails(t)
  <2> DEFINE T == {s \in tasks \ {t} : s.at # "scan"}
  <2>1. Failed("alert", T) /\ T \subseteq tasks
    BY <1>12 DEF ScanFails
  <2> HIDE DEF T
  <2>2. Marks(tasks', acks) /\ (engine' = engine \/ engine' = EngineStopped(engine))
    BY <2>1, FailedShown
  <2> QED
    BY <1>3, <2>2
<1> QED
  BY <1>8, <1>9, <1>10, <1>11, <1>12 DEF ScansGo

LEMMA ShownCommits ==
  ASSUME Typed, ShownInv, NEW t \in tasks, CommitsGo(t)
  PROVE  ShownInv'
<1> USE DEF teamVars, sessionVars, lifecycleVars
<1> HIDE DEF Elements
<1>0. t \in Awaited /\ tasks \in SUBSET Awaited /\ engine \in EngineType /\ Marks(tasks, acks)
  BY DEF Typed, ShownInv, Marks
<1>e. /\ EngineStopped(engine).staged = {} /\ EngineStopped(engine).shown = engine.shown
      /\ EngineStopped(engine).acks = engine.acks
  BY EngineShown
<1>1. CASE CommitBind(t)
  <2> DEFINE ids == engine.staged \ engine.acknowledged
             u == [t EXCEPT !.at = "mark", !.batch = InOrder(ids)]
  <2>1. CASE ~ current
    <3>1. Marks(tasks', acks)
      BY <1>0, <1>1, <2>1, StopsKeepMarks DEF CommitBind, SelfStop
    <3> QED
      BY <1>1, <1>e, <2>1, <3>1 DEF CommitBind, SelfStop, ShownInv, ReadWasShown, Marks
  <2>2. CASE current /\ ids = {}
    BY <1>1, <2>2 DEF CommitBind, ShownInv, ReadWasShown
  <2>3. CASE current /\ ids # {}
    <3>1. ids \in SUBSET Alerts
      BY <1>0 DEF EngineType
    <3>2. u.batch = InOrder(ids) /\ Elements(InOrder(ids)) = ids
      BY <1>0, <3>1, InOrderTyped DEF Awaited, TaskType
    <3>3. /\ tasks' = (tasks \ {t}) \cup {u} /\ acks' = acks \cup ids
          /\ engine' = [engine EXCEPT !.acknowledged = @ \cup ids]
          /\ UNCHANGED <<read, shown>>
      BY <1>1, <2>3 DEF CommitBind
    <3>4. ids \subseteq Elements(shown)
      BY DEF ShownInv
    <3> HIDE DEF ids, u
    <3>5. Marks(tasks', acks')
      BY <1>0, <3>2, <3>3 DEF Marks
    <3>6. engine'.staged = engine.staged /\ engine'.shown = engine.shown /\ engine'.acks = engine.acks
      BY <1>0, <3>3 DEF EngineType
    <3> QED
      BY <3>3, <3>4, <3>5, <3>6 DEF ShownInv, ReadWasShown, Marks
  <2> QED
    BY <2>1, <2>2, <2>3
<1>2. CASE CommitMark(t)
  <2>1. read' \subseteq acks /\ Marks(tasks', acks)
    BY <1>0, <1>2 DEF CommitMark, ShownInv, ReadWasShown, Marks
  <2>2. engine'.staged \subseteq engine.staged /\ engine'.shown = engine.shown /\ engine'.acks = engine.acks
    BY <1>0, <1>2 DEF CommitMark, EngineType
  <2> QED
    BY <1>2, <2>1, <2>2 DEF CommitMark, ShownInv, ReadWasShown, Marks
<1>3. CASE CommitFails(t)
  <2>1. UNCHANGED <<read, acks, shown>>
    BY <1>3 DEF CommitFails
  <2>2. Marks(tasks', acks) /\ engine' \in {engine, EngineStopped(engine)}
    <3>1. CASE t.mine /\ t.valid
      BY <1>3, <3>1, FailedShown DEF CommitFails
    <3>2. CASE ~ (t.mine /\ t.valid)
      BY <1>0, <1>3, <3>2 DEF CommitFails, Marks
    <3> QED
      BY <3>1, <3>2
  <2> QED
    BY <1>e, <2>1, <2>2 DEF ShownInv, ReadWasShown, Marks
<1> QED
  BY <1>1, <1>2, <1>3 DEF CommitsGo

\* What is shown stays shown, when more is taken up.
LEMMA ElementsConcat ==
  ASSUME NEW A, NEW x \in Seq(A), NEW y \in Seq(A)
  PROVE  Elements(x) \subseteq Elements(x \o y) /\ Elements(y) \subseteq Elements(x \o y)
<1>1. /\ Len(x) \in Nat /\ Len(y) \in Nat /\ Len(x \o y) = Len(x) + Len(y)
      /\ \A i \in 1..Len(x) : (x \o y)[i] = x[i]
      /\ \A i \in 1..Len(y) : (x \o y)[Len(x) + i] = y[i]
  BY LenProperties
<1>2. DOMAIN x = 1..Len(x) /\ DOMAIN y = 1..Len(y) /\ DOMAIN (x \o y) = 1..Len(x \o y)
  BY LenProperties, ConcatProperties
<1>3. ASSUME NEW i \in 1..Len(x) PROVE x[i] \in Elements(x \o y)
  <2>1. i \in DOMAIN (x \o y) /\ (x \o y)[i] = x[i]
    BY <1>1, <1>2
  <2> QED
    BY <2>1 DEF Elements, ToSet
<1>4. ASSUME NEW i \in 1..Len(y) PROVE y[i] \in Elements(x \o y)
  <2>1. Len(x) + i \in DOMAIN (x \o y) /\ (x \o y)[Len(x) + i] = y[i]
    BY <1>1, <1>2
  <2> QED
    BY <2>1 DEF Elements, ToSet
<1> QED
  BY <1>2, <1>3, <1>4 DEF Elements, ToSet

LEMMA ShownOthers ==
  ASSUME Typed, ShownInv, OthersGo
  PROVE  ShownInv'
<1> USE DEF teamVars, sessionVars, lifecycleVars
<1> HIDE DEF Elements
<1>0. tasks \in SUBSET Awaited /\ engine \in EngineType /\ Marks(tasks, acks)
  BY DEF Typed, ShownInv, Marks
<1>e. /\ EngineStopped(engine).staged = {} /\ EngineStopped(engine).shown = engine.shown
      /\ EngineStopped(engine).acks = engine.acks
  BY EngineShown
<1>k. \A k, e, at : at # "mark" => Task(k, e, at, << >>).at # "mark"
  BY DEF Task
<1>1. CASE Poll
  <2>1. engine'.staged = engine.staged /\ engine'.shown = engine.shown /\ engine'.acks = engine.acks
    BY <1>0, <1>1 DEF Poll, EngineType
  <2> QED
    BY <1>1, <1>k, <2>1 DEF Poll, ShownInv, ReadWasShown
<1>2. CASE Flush
  BY <1>2 DEF Flush, ShownInv, ReadWasShown
<1>3. ASSUME NEW e \in Engines, Retry(e) PROVE ShownInv'
  BY <1>3, <1>k DEF Retry, ShownInv, ReadWasShown
<1>4. CASE TaskScanFails
  <2>1. Marks(tasks', acks) /\ (engine' = engine \/ engine' = EngineStopped(engine))
    BY <1>4, FailedShown DEF TaskScanFails
  <2> QED
    BY <1>4, <1>e, <2>1 DEF TaskScanFails, ShownInv, ReadWasShown, Marks
<1>5. CASE TurnStart
  <2>1. shown \in Seq(Alerts) /\ FlattenSeq(queue) \in Seq(Alerts)
    BY FlattenAppend, EmptySeq DEF Typed, TypeOK
  <2>2. Elements(shown) \subseteq Elements(shown')
    BY <1>5, <2>1, ElementsConcat DEF TurnStart
  <2>3. /\ engine'.staged \subseteq engine.staged \cup Elements(shown')
        /\ engine'.shown = engine.shown /\ engine'.acks = engine.acks
    <3>1. PICK c : c = Elements(shown')
      OBVIOUS
    <3>2. ObserveContext(c)
      BY <1>5, <3>1 DEF TurnStart
    <3>3. /\ engine'.staged \subseteq engine.staged \cup c
          /\ engine'.shown = engine.shown /\ engine'.acks = engine.acks
      BY <1>0, <3>2 DEF ObserveContext, EngineType
    <3> QED
      BY <3>1, <3>3
  <2> QED
    BY <1>5, <2>2, <2>3 DEF TurnStart, ShownInv, ReadWasShown
<1>6. CASE TurnEnd
  BY <1>6, <1>k DEF TurnEnd, ShownInv, ReadWasShown
<1> QED
  BY <1>1, <1>2, <1>3, <1>4, <1>5, <1>6 DEF OthersGo

LEMMA ShownSession ==
  ASSUME Typed, ShownInv, SessionGoes
  PROVE  ShownInv'
<1> USE DEF teamVars, sessionVars, lifecycleVars, piOnly
<1> HIDE DEF Elements
<1>0. tasks \in SUBSET Awaited /\ engine \in EngineType /\ Marks(tasks, acks)
  BY DEF Typed, ShownInv, Marks
<1>e. /\ EngineStopped(engine).staged = {} /\ EngineStopped(engine).shown = engine.shown
      /\ EngineStopped(engine).acks = engine.acks
      /\ EngineBegun.staged = {} /\ EngineBegun.shown = Elements(shown) /\ EngineBegun.acks = acks
      /\ StoppedEngine.staged = {} /\ StoppedEngine.shown = {} /\ StoppedEngine.acks = {}
  BY EngineShown
<1>1. UNCHANGED <<read, shown, acks>>
  BY DEF SessionGoes, CompactStart, CompactEnd, CompactCleared, CompactUntold, HoldLimit, HoldBegin,
         HoldEnd, SessionStart, SessionShutdown, Crash, Accept, Unbind
<1>2. CASE SessionStart
  <2>1. /\ [Task("start", "alert", "bind", << >>) EXCEPT !.first = TRUE].at # "mark"
        /\ Task("start", "task", "wait", << >>).at # "mark"
    BY DEF Task
  <2>2. engine' = EngineBegun
    BY <1>2 DEF SessionStart
  <2>3. Marks(tasks', acks)
    BY <1>0, <1>2, <2>1 DEF SessionStart, Marks
  <2> QED
    BY <1>1, <1>e, <2>2, <2>3 DEF ShownInv, ReadWasShown, Marks
<1>3. CASE SessionShutdown
  <2>1. Marks(tasks', acks) /\ engine' = EngineStopped(engine)
    BY <1>0, <1>3, StopsKeepMarks DEF SessionShutdown, Deactivated
  <2> QED
    BY <1>1, <1>e, <2>1 DEF ShownInv, ReadWasShown, Marks
<1>4. CASE Crash
  BY <1>1, <1>4, <1>e DEF Crash, ShownInv, ReadWasShown
<1>5. CASE UNCHANGED <<tasks, engine>>
  BY <1>1, <1>5 DEF ShownInv, ReadWasShown
<1>6. SessionStart \/ SessionShutdown \/ Crash \/ UNCHANGED <<tasks, engine>>
  BY DEF SessionGoes, CompactStart, CompactEnd, CompactCleared, CompactUntold, HoldLimit, HoldBegin,
         HoldEnd, Accept, Unbind
<1> QED
  BY <1>2, <1>3, <1>4, <1>5, <1>6

LEMMA ShownStep == Typed /\ ShownInv /\ [Next]_vars => ShownInv'
<1> SUFFICES ASSUME Typed, ShownInv, [Next]_vars PROVE ShownInv'
  OBVIOUS
<1>1. CASE UNCHANGED vars
  BY <1>1 DEF vars, ShownInv, ReadWasShown
<1>2. CASE Next
  BY <1>2, NextIs, ShownStarts, ShownScans, ShownCommits, ShownOthers, ShownSession
<1> QED
  BY <1>1, <1>2

\* The invariant of what is shown holds (direct-delivery.ts).
THEOREM ShownHolds == Spec => []ShownInv
<1>1. Init => ShownInv
  BY DEF Init, ShownInv, ReadWasShown, StoppedEngine
<1> QED
  BY <1>1, ShownStep, TypeHolds, PTL DEF Spec

\* What counts as read is acknowledged in the conversation, and what is
\* acknowledged there was shown in it: no crash and no failure between the
\* acknowledgement and the mark loses an Alert
\* (commitPresentedAfterSuccessfulTurn, start).
THEOREM ReadAlertsWereShown == Spec => []ReadWasShown
<1>1. ShownInv => ReadWasShown
  BY DEF ShownInv
<1> QED
  BY <1>1, ShownHolds, PTL

-----------------------------------------------------------------------------
(* The slots.                                                                *)

\* The valid starts of an engine among some tasks.
StartsIn(T, e) == {t \in T : t.kind = "start" /\ t.engine = e /\ t.valid}

\* A slot and its starts: nothing is under way if something is decided, and
\* otherwise one start is.
OneWayOf(S, s) ==
  /\ IF s.running \/ s.retry \/ s.terminal THEN S = {} ELSE \E t \in S : S = {t}
  /\ ~ (s.running /\ s.retry) /\ ~ (s.running /\ s.terminal) /\ ~ (s.retry /\ s.terminal)

\* Who is stale can only come back or mark; who is not goes on for an engine
\* in the state that it left it.
TaskInv(t) ==
  /\ t.valid => t.mine /\ active
  /\ t.at \notin {"mark", "return"} => t.valid
  /\ t.kind = "commit" /\ t.valid => slot["alert"].running
  /\ t.kind = "scan" => engine.polling
  /\ t.kind = "start" /\ t.engine = "alert" =>
       /\ t.at \in {"check", "bind"} => t.live
       /\ t.at = "bind" => ~ engine.stopped
       /\ t.at = "mark" /\ t.live => t.valid /\ ~ engine.stopped
       /\ t.at = "mark" /\ t.valid /\ ~ t.live => ~ current
       /\ t.at \in {"scan", "return"} /\ t.valid /\ current => engine.polling

SlotsInv ==
  /\ active => session /\ \A e \in Engines : OneWayOf(StartsIn(tasks, e), slot[e])
  /\ ~ active => slot = [e \in Engines |-> NewSlot] /\ engine.stopped
  /\ engine.polling =>
       /\ ~ engine.stopped
       /\ slot["alert"].running \/ \E t \in StartsIn(tasks, "alert") : t.at \in {"scan", "return"}
  /\ slot["alert"].running /\ current => engine.polling
  /\ \A t \in tasks : TaskInv(t)
  /\ \A t, u \in Scans : t = u

\* Stopping the engine of Alerts, one task at a time.
LEMMA HaltedFrom ==
  ASSUME NEW T \in SUBSET Awaited, NEW s \in EngineStop(T)
  PROVE  \E t \in T :
           /\ s = Halted(t) /\ s \in Awaited /\ s.kind = t.kind /\ s.engine = t.engine
           /\ s.valid = t.valid /\ s.mine = t.mine
           /\ s.kind # "scan"
           /\ s.kind = "commit" => s.at = "mark"
           /\ s.engine # "alert" => s = t
           /\ s.kind = "start" /\ s.engine = "alert" =>
                IF t.at \in {"bind", "scan"} THEN s.at = "return" ELSE s.at = t.at /\ ~ s.live
<1>1. PICK t \in T : Survives(t) /\ s = Halted(t)
  BY EngineStopIs
<1>2. t \in Awaited /\ Placed(t)
  BY DEF Awaited
<1>3. /\ s \in Awaited
      /\ s.kind = t.kind /\ s.engine = t.engine /\ s.batch = t.batch
      /\ s.first = t.first /\ s.valid = t.valid /\ s.mine = t.mine
      /\ t.engine # "alert" => s = t
      /\ t.engine = "alert" /\ t.at \in {"bind", "scan"} => s.at = "return"
      /\ t.engine = "alert" /\ t.at \notin {"bind", "scan"} => s.at = t.at /\ ~ s.live
  BY <1>1, <1>2, HaltedTask
<1>4. s.kind # "scan" /\ (s.kind = "commit" => s.at = "mark")
  BY <1>1, <1>2, <1>3 DEF Survives, Placed
<1> QED
  BY <1>1, <1>3, <1>4

LEMMA HaltedStarts ==
  ASSUME NEW T \in SUBSET Awaited, NEW e
  PROVE  StartsIn(EngineStop(T), e) = {Halted(t) : t \in StartsIn(T, e)}
<1>1. ASSUME NEW s \in StartsIn(EngineStop(T), e) PROVE \E t \in StartsIn(T, e) : s = Halted(t)
  BY HaltedFrom DEF StartsIn
<1>2. ASSUME NEW t \in StartsIn(T, e) PROVE Halted(t) \in StartsIn(EngineStop(T), e)
  <2>1. t \in Awaited /\ Survives(t) /\ t \in T /\ t.kind = "start" /\ t.engine = e /\ t.valid
    BY DEF StartsIn, Survives
  <2>2. Halted(t) \in EngineStop(T)
    BY <2>1, EngineStopIs
  <2>3. Halted(t).kind = t.kind /\ Halted(t).engine = t.engine /\ Halted(t).valid = t.valid
    BY <2>1, HaltedTask
  <2> QED
    BY <2>1, <2>2, <2>3 DEF StartsIn
<1> QED
  BY <1>1, <1>2

\* Stopping the engine leaves the way that there is.
LEMMA OneWayHalted ==
  ASSUME NEW T \in SUBSET Awaited, NEW e, NEW s, OneWayOf(StartsIn(T, e), s)
  PROVE  OneWayOf(StartsIn(EngineStop(T), e), s)
<1>1. StartsIn(EngineStop(T), e) = {Halted(t) : t \in StartsIn(T, e)}
  BY HaltedStarts
<1>2. PICK S : S = StartsIn(T, e)
  OBVIOUS
<1>3. CASE S = {}
  BY <1>1, <1>2, <1>3 DEF OneWayOf
<1>4. ASSUME NEW t \in S, S = {t} PROVE OneWayOf(StartsIn(EngineStop(T), e), s)
  <2>1. StartsIn(EngineStop(T), e) = {Halted(t)}
    BY <1>1, <1>2, <1>4
  <2> QED
    BY <1>2, <1>4, <2>1 DEF OneWayOf
<1> QED
  BY <1>2, <1>3, <1>4 DEF OneWayOf

\* And so does a task that goes on, ...
LEMMA OneWayMoved ==
  ASSUME NEW T, NEW t \in T, NEW u, NEW e, NEW s, OneWayOf(StartsIn(T, e), s),
         u.kind = t.kind, u.engine = t.engine, u.valid = t.valid
  PROVE  /\ OneWayOf(StartsIn((T \ {t}) \cup {u}, e), s)
         /\ t \in StartsIn(T, e) => StartsIn((T \ {t}) \cup {u}, e) = {u}
<1>1. CASE t \in StartsIn(T, e)
  <2>1. StartsIn(T, e) = {t}
    BY <1>1 DEF OneWayOf
  <2>2. StartsIn((T \ {t}) \cup {u}, e) = {u}
    BY <1>1, <2>1 DEF StartsIn
  <2> QED
    BY <2>1, <2>2 DEF OneWayOf
<1>2. CASE t \notin StartsIn(T, e)
  <2>1. StartsIn((T \ {t}) \cup {u}, e) = StartsIn(T, e)
    BY <1>2 DEF StartsIn
  <2> QED
    BY <1>2, <2>1
<1> QED
  BY <1>1, <1>2

\* ... or one that is over or begins, if it is no valid start.
LEMMA StartsSame ==
  ASSUME NEW T, NEW e, NEW D, NEW N, \A t \in D \cup N : t \notin StartsIn({t}, e)
  PROVE  StartsIn((T \ D) \cup N, e) = StartsIn(T, e)
BY DEF StartsIn

\* The engine stops itself: not while a retry is checked.
LEMMA SlotsSelfStop ==
  ASSUME Typed, SlotsInv, ~ current, current' = current, active, SelfStop,
         UNCHANGED <<session, active, slot>>,
         \A s \in tasks : s.kind = "start" /\ s.engine = "alert" => s.at # "check"
  PROVE  SlotsInv'
<1>1. tasks \in SUBSET Awaited /\ tasks' = EngineStop(tasks) /\ engine' = EngineStopped(engine)
  BY DEF Typed, SelfStop
<1>2. engine'.stopped /\ ~ engine'.polling
  BY <1>1 DEF EngineStopped, Typed, EngineType
<1>3. \A e \in Engines : OneWayOf(StartsIn(tasks', e), slot'[e])
  BY <1>1, OneWayHalted DEF SlotsInv
<1>4. ASSUME NEW s \in tasks' PROVE TaskInv(s)' /\ s.kind # "scan"
  <2>1. PICK t \in tasks :
           /\ s = Halted(t) /\ s \in Awaited /\ s.kind = t.kind /\ s.engine = t.engine
           /\ s.valid = t.valid /\ s.mine = t.mine
           /\ s.kind # "scan"
           /\ s.kind = "commit" => s.at = "mark"
           /\ s.engine # "alert" => s = t
           /\ s.kind = "start" /\ s.engine = "alert" =>
                IF t.at \in {"bind", "scan"} THEN s.at = "return" ELSE s.at = t.at /\ ~ s.live
    BY <1>1, <1>4, HaltedFrom
  <2>2. TaskInv(t)
    BY DEF SlotsInv
  <2>3. s.kind \in {"start", "commit"} /\ s.engine \in Engines
        /\ (s.kind = "commit" => s.engine = "alert")
    BY <2>1 DEF Awaited, TaskType, Placed
  <2>4. CASE s.engine # "alert"
    BY <2>1, <2>2, <2>3, <2>4 DEF TaskInv
  <2>5. CASE s.engine = "alert" /\ s.kind = "commit"
    BY <2>1, <2>2, <2>5 DEF TaskInv
  <2>6. CASE s.engine = "alert" /\ s.kind = "start"
    <3>1. t.at \in {"bind", "mark", "scan", "return"}
      BY <2>1, <2>6 DEF Typed, Awaited, Placed
    <3> QED
      BY <2>1, <2>2, <2>6, <3>1 DEF TaskInv
  <2> QED
    BY <2>3, <2>4, <2>5, <2>6, <2>1
<1>5. session'
  BY DEF SlotsInv
<1> QED
  BY <1>2, <1>3, <1>4, <1>5 DEF SlotsInv, Scans

\* Stopping a slot, one task at a time.
LEMMA InvalidFrom ==
  ASSUME NEW T \in SUBSET Awaited, \A t \in T : t.kind = "start" /\ t.engine = "alert" => t.at # "check"
  PROVE  /\ \A s \in SlotStop(T, "alert") :
              /\ s \in Awaited
              /\ s.engine = "alert" => /\ ~ s.valid /\ s.kind # "scan" /\ s.at \in {"mark", "return"}
                                       /\ s.kind = "start" /\ s.at = "mark" => ~ s.live
              /\ s.engine # "alert" => s \in T
         /\ \A t \in T : t.engine # "alert" => t \in SlotStop(T, "alert")
<1>1. SlotStop(T, "alert") = {Invalid(u, "alert") : u \in EngineStop(T)}
  BY SlotStopIs
<1>2. ASSUME NEW s \in SlotStop(T, "alert")
      PROVE  /\ s \in Awaited
             /\ s.engine = "alert" => /\ ~ s.valid /\ s.kind # "scan" /\ s.at \in {"mark", "return"}
                                      /\ s.kind = "start" /\ s.at = "mark" => ~ s.live
             /\ s.engine # "alert" => s \in T
  <2>1. PICK u \in EngineStop(T) : s = Invalid(u, "alert")
    BY <1>1
  <2>2. PICK t \in T :
           /\ u = Halted(t) /\ u \in Awaited /\ u.kind = t.kind /\ u.engine = t.engine
           /\ u.valid = t.valid /\ u.mine = t.mine
           /\ u.kind # "scan"
           /\ u.kind = "commit" => u.at = "mark"
           /\ u.engine # "alert" => u = t
           /\ u.kind = "start" /\ u.engine = "alert" =>
                IF t.at \in {"bind", "scan"} THEN u.at = "return" ELSE u.at = t.at /\ ~ u.live
    BY HaltedFrom
  <2>3. /\ s \in Awaited /\ s.kind = u.kind /\ s.engine = u.engine /\ s.at = u.at /\ s.live = u.live
        /\ u.engine = "alert" => ~ s.valid
        /\ u.engine # "alert" => s = u
    BY <2>1, <2>2, InvalidTask
  <2>4. CASE s.engine = "alert" /\ s.kind = "start"
    <3>1. t.at \in {"bind", "mark", "scan", "return"}
      BY <2>2, <2>3, <2>4, ZenonT(60) DEF Awaited, Placed
    <3> QED
      BY <2>2, <2>3, <2>4, <3>1
  <2>5. s.kind \in {"start", "commit"}
    BY <2>2, <2>3 DEF Awaited, TaskType
  <2> QED
    BY <2>2, <2>3, <2>4, <2>5
<1>3. ASSUME NEW t \in T, t.engine # "alert" PROVE t \in SlotStop(T, "alert")
  <2>1. t \in EngineStop(T)
    BY <1>3, EngineStopIs DEF Survives, Halted
  <2>2. Invalid(t, "alert") = t
    BY <1>3 DEF Invalid
  <2> QED
    BY <1>1, <2>1, <2>2
<1> QED
  BY <1>2, <1>3

\* What Failed does where nothing was decided yet.
LEMMA FailedIs ==
  ASSUME Typed, NEW e \in Engines, NEW T, Failed(e, T), ~ slot[e].retry, ~ slot[e].terminal
  PROVE  /\ tasks' = SlotStop(T, e) /\ active' = active
         /\ engine' = IF e = "alert" THEN EngineStopped(engine) ELSE engine
         /\ slot' \in [Engines -> SlotType]
         /\ \A d \in Engines : d # e => slot'[d] = slot[d]
         /\ ~ slot'[e].running /\ slot'[e].retry = ~ slot'[e].terminal
<1>1. PICK terminal \in BOOLEAN :
        /\ slot' = [slot EXCEPT ![e] = [running |-> FALSE, retry |-> ~ terminal, terminal |-> terminal]]
        /\ tasks' = SlotStop(T, e)
        /\ engine' = IF e = "alert" THEN EngineStopped(engine) ELSE engine
        /\ active' = active
  BY DEF Failed
<1>2. slot \in [Engines -> SlotType]
  BY DEF Typed
<1>3. slot'[e] = [running |-> FALSE, retry |-> ~ terminal, terminal |-> terminal]
  BY <1>1, <1>2
<1>4. ~ slot'[e].running /\ slot'[e].retry = ~ slot'[e].terminal
  BY <1>3
<1>5. slot' \in [Engines -> SlotType]
  BY <1>1, <1>2 DEF SlotType
<1>6. \A d \in Engines : d # e => slot'[d] = slot[d]
  BY <1>1, <1>2
<1> QED
  BY <1>1, <1>4, <1>5, <1>6

LEMMA SlotsFailedAlert ==
  ASSUME Typed, SlotsInv, active, NEW T \in SUBSET tasks, Failed("alert", T),
         ~ slot["alert"].retry, ~ slot["alert"].terminal, UNCHANGED <<session, current>>,
         \A t \in T : t.kind = "start" /\ t.engine = "alert" => t.at # "check",
         \A t \in tasks : t.engine # "alert" => t \in T
  PROVE  SlotsInv'
<1> DEFINE T2 == SlotStop(T, "alert")
<1>1. T \in SUBSET Awaited
  BY DEF Typed
<1>2. /\ tasks' = T2 /\ active' = active /\ engine' = EngineStopped(engine)
      /\ \A d \in Engines : d # "alert" => slot'[d] = slot[d]
      /\ ~ slot'["alert"].running /\ slot'["alert"].retry = ~ slot'["alert"].terminal
      /\ slot' \in [Engines -> SlotType]
  BY FailedIs DEF Engines
<1>3. engine'.stopped /\ ~ engine'.polling
  BY <1>2 DEF EngineStopped, Typed, EngineType
<1>4. /\ \A s \in T2 :
           /\ s \in Awaited
           /\ s.engine = "alert" => /\ ~ s.valid /\ s.kind # "scan" /\ s.at \in {"mark", "return"}
                                    /\ s.kind = "start" /\ s.at = "mark" => ~ s.live
           /\ s.engine # "alert" => s \in T
      /\ \A t \in T : t.engine # "alert" => t \in T2
  BY <1>1, InvalidFrom
<1> HIDE DEF T2
<1>5. StartsIn(T2, "alert") = {} /\ StartsIn(T2, "task") = StartsIn(tasks, "task")
  BY <1>4 DEF StartsIn
<1>6. OneWayOf(StartsIn(T2, "alert"), slot'["alert"])
  <2>1. slot'["alert"].retry \in BOOLEAN /\ slot'["alert"].terminal \in BOOLEAN
    BY <1>2 DEF Engines, SlotType
  <2> QED
    BY <1>2, <1>5, <2>1 DEF OneWayOf
<1>7. OneWayOf(StartsIn(T2, "task"), slot'["task"])
  BY <1>2, <1>5 DEF Engines, SlotsInv
<1>8. ASSUME NEW s \in T2 PROVE TaskInv(s)' /\ s.kind # "scan"
  <2>1. CASE s.engine = "alert"
    BY <1>4, <2>1 DEF TaskInv
  <2>2. CASE s.engine # "alert"
    <3>1. s \in tasks /\ TaskInv(s)
      BY <1>4, <2>2 DEF SlotsInv
    <3>2. s.kind = "start"
      BY <1>4, <2>2 DEF Awaited, Placed, TaskType
    <3> QED
      BY <1>2, <2>2, <3>1, <3>2 DEF TaskInv
  <2> QED
    BY <2>1, <2>2
<1>9. session' /\ active'
  BY <1>2 DEF SlotsInv
<1>10. \A e \in Engines : OneWayOf(StartsIn(T2, e), slot'[e])
  BY <1>6, <1>7 DEF Engines
<1> QED
  BY <1>2, <1>3, <1>8, <1>9, <1>10 DEF SlotsInv, Scans

LEMMA SlotsFailedTask ==
  ASSUME Typed, SlotsInv, active, NEW T \in SUBSET tasks, Failed("task", T),
         ~ slot["task"].retry, ~ slot["task"].terminal, UNCHANGED <<session, current>>,
         \A t \in T : t.engine = "task" => t.at \in {"mark", "return"},
         \A t \in tasks : t.engine # "task" => t \in T
  PROVE  SlotsInv'
<1> DEFINE T2 == SlotStop(T, "task")
<1>1. T \in SUBSET Awaited
  BY DEF Typed
<1>2. /\ tasks' = T2 /\ active' = active /\ engine' = engine
      /\ \A d \in Engines : d # "task" => slot'[d] = slot[d]
      /\ ~ slot'["task"].running /\ slot'["task"].retry = ~ slot'["task"].terminal
      /\ slot' \in [Engines -> SlotType]
  BY FailedIs DEF Engines
<1>3. T2 = {Invalid(t, "task") : t \in T}
  BY SlotStopIs
<1>4. ASSUME NEW s \in T2
      PROVE  /\ s \in Awaited
             /\ s.engine = "task" => ~ s.valid /\ s.at \in {"mark", "return"}
             /\ s.engine # "task" => s \in T
  <2>1. PICK t \in T : s = Invalid(t, "task")
    BY <1>3
  <2>2. /\ s \in Awaited /\ s.engine = t.engine /\ s.at = t.at
        /\ t.engine = "task" => ~ s.valid
        /\ t.engine # "task" => s = t
    BY <1>1, <2>1, InvalidTask
  <2> QED
    BY <2>2
<1>5. ASSUME NEW t \in T, t.engine # "task" PROVE t \in T2
  BY <1>3, <1>5 DEF Invalid
<1> HIDE DEF T2
<1>6. StartsIn(T2, "task") = {} /\ StartsIn(T2, "alert") = StartsIn(tasks, "alert")
  BY <1>4, <1>5 DEF StartsIn
<1>7. OneWayOf(StartsIn(T2, "task"), slot'["task"])
  <2>1. slot'["task"].retry \in BOOLEAN /\ slot'["task"].terminal \in BOOLEAN
    BY <1>2 DEF Engines, SlotType
  <2> QED
    BY <1>2, <1>6, <2>1 DEF OneWayOf
<1>8. OneWayOf(StartsIn(T2, "alert"), slot'["alert"]) /\ slot'["alert"] = slot["alert"]
  BY <1>2, <1>6 DEF Engines, SlotsInv
<1>9. ASSUME NEW s \in T2 PROVE TaskInv(s)' /\ (s.kind = "scan" => s \in tasks)
  <2>1. CASE s.engine = "task"
    <3>1. s.kind = "start"
      BY <1>4, <2>1 DEF Awaited, Placed, TaskType
    <3> QED
      BY <1>4, <2>1, <3>1 DEF TaskInv
  <2>2. CASE s.engine # "task"
    <3>1. s \in tasks /\ TaskInv(s)
      BY <1>4, <2>2 DEF SlotsInv
    <3> QED
      BY <1>2, <1>8, <2>2, <3>1 DEF TaskInv
  <2> QED
    BY <2>1, <2>2
<1>10. session' /\ active'
  BY <1>2 DEF SlotsInv
<1>11. \A e \in Engines : OneWayOf(StartsIn(T2, e), slot'[e])
  BY <1>7, <1>8 DEF Engines
<1>12. \A t, u \in {s \in tasks' : s.kind = "scan"} : t = u
  BY <1>2, <1>9 DEF SlotsInv, Scans
<1>13. \A s \in tasks' : TaskInv(s)'
  BY <1>2, <1>9
<1>14. engine'.polling =>
         /\ ~ engine'.stopped
         /\ slot'["alert"].running \/ \E t \in StartsIn(tasks', "alert") : t.at \in {"scan", "return"}
  BY <1>2, <1>6, <1>8 DEF SlotsInv
<1> QED
  BY <1>2, <1>8, <1>10, <1>11, <1>12, <1>13, <1>14 DEF SlotsInv, Scans

\* What SlotsInv says at once of the tasks, the slots and the engine.
LEMMA SlotsFacts ==
  ASSUME Typed, SlotsInv
  PROVE  /\ \A t \in tasks : t.valid => active /\ session /\ t.mine
         /\ \A e \in Engines : \A t \in StartsIn(tasks, e) :
              /\ StartsIn(tasks, e) = {t} /\ active
              /\ ~ slot[e].running /\ ~ slot[e].retry /\ ~ slot[e].terminal
         /\ \A e \in Engines : slot[e].running \/ slot[e].retry \/ slot[e].terminal =>
              active /\ session /\ StartsIn(tasks, e) = {}
         /\ slot["alert"].running \/ engine.polling =>
              /\ active /\ session /\ ~ slot["alert"].retry /\ ~ slot["alert"].terminal
              /\ \A s \in tasks : s.kind = "start" /\ s.engine = "alert" =>
                   /\ s.at \notin {"check", "bind"}
                   /\ s.at = "mark" => ~ s.valid
<1>1. \A t \in tasks : t.valid => active /\ session /\ t.mine
  BY DEF SlotsInv, TaskInv
<1>2. ASSUME NEW e \in Engines, NEW t \in StartsIn(tasks, e)
      PROVE  /\ StartsIn(tasks, e) = {t} /\ active
             /\ ~ slot[e].running /\ ~ slot[e].retry /\ ~ slot[e].terminal
  <2>1. active
    BY <1>1 DEF StartsIn
  <2>2. OneWayOf(StartsIn(tasks, e), slot[e])
    BY <2>1 DEF SlotsInv
  <2> QED
    BY <2>1, <2>2 DEF OneWayOf
<1>3. ASSUME NEW e \in Engines, slot[e].running \/ slot[e].retry \/ slot[e].terminal
      PROVE  active /\ session /\ StartsIn(tasks, e) = {}
  <2>1. active
    BY <1>3 DEF SlotsInv, NewSlot
  <2>2. OneWayOf(StartsIn(tasks, e), slot[e]) /\ session
    BY <2>1 DEF SlotsInv
  <2> QED
    BY <1>3, <2>1, <2>2 DEF OneWayOf
<1>4. ASSUME slot["alert"].running \/ engine.polling
      PROVE  /\ active /\ session /\ ~ slot["alert"].retry /\ ~ slot["alert"].terminal
             /\ \A s \in tasks : s.kind = "start" /\ s.engine = "alert" =>
                  /\ s.at \notin {"check", "bind"}
                  /\ s.at = "mark" => ~ s.valid
  <2>0. "alert" \in Engines
    BY DEF Engines
  <2>1. active /\ session /\ OneWayOf(StartsIn(tasks, "alert"), slot["alert"])
    BY <1>3, <1>4, <2>0 DEF SlotsInv
  <2>2. slot["alert"].running \/ \E t \in StartsIn(tasks, "alert") : t.at \in {"scan", "return"}
    BY <1>4 DEF SlotsInv
  <2>3. ~ slot["alert"].retry /\ ~ slot["alert"].terminal
    BY <1>2, <2>0, <2>1, <2>2 DEF OneWayOf
  <2>4. ASSUME NEW s \in StartsIn(tasks, "alert") PROVE s.at \in {"scan", "return"}
    BY <1>2, <2>0, <2>2, <2>4
  <2>5. \A s \in tasks : s.at \in {"check", "bind"} => s.valid
    BY DEF SlotsInv, TaskInv
  <2> QED
    BY <2>1, <2>3, <2>4, <2>5 DEF StartsIn
<1> QED
  BY <1>1, <1>2, <1>3, <1>4

\* A task goes on.
LEMMA SlotsMove ==
  ASSUME Typed, SlotsInv, NEW t \in tasks, NEW u,
         u.kind = t.kind, u.engine = t.engine, u.valid = t.valid,
         tasks' = (tasks \ {t}) \cup {u}, UNCHANGED <<session, active, slot, current>>,
         engine'.polling = engine.polling, engine'.stopped = engine.stopped, TaskInv(u)',
         t \in StartsIn(tasks, "alert") => (t.at \in {"scan", "return"} => u.at \in {"scan", "return"})
  PROVE  SlotsInv'
<1>1. active => \A e \in Engines : OneWayOf(StartsIn(tasks', e), slot[e])
  BY OneWayMoved DEF SlotsInv
<1>2. \A s \in tasks' : TaskInv(s)'
  <2>1. \A s \in tasks : TaskInv(s)'
    BY DEF SlotsInv, TaskInv
  <2> QED
    BY <2>1
<1>3. \A a, b \in {s \in tasks' : s.kind = "scan"} : a = b
  BY DEF SlotsInv, Scans
<1>4. engine.polling => slot["alert"].running \/ \E s \in StartsIn(tasks', "alert") : s.at \in {"scan", "return"}
  <2> SUFFICES ASSUME NEW s \in StartsIn(tasks, "alert"), s.at \in {"scan", "return"}
               PROVE  \E r \in StartsIn(tasks', "alert") : r.at \in {"scan", "return"}
    BY DEF SlotsInv
  <2>1. CASE s = t
    BY <2>1 DEF StartsIn
  <2>2. CASE s # t
    BY <2>2 DEF StartsIn
  <2> QED
    BY <2>1, <2>2
<1> QED
  BY <1>1, <1>2, <1>3, <1>4 DEF SlotsInv, Scans

\* Tasks begin or are over which are no valid starts, and maybe another
\* Membership begins.
LEMMA SlotsApart ==
  ASSUME Typed, SlotsInv, NEW D, NEW N, \A t \in D \cup N : t.kind = "start" => ~ t.valid,
         tasks' = (tasks \ D) \cup N, UNCHANGED <<session, active, slot>>, current' => current,
         engine'.polling = engine.polling, engine'.stopped = engine.stopped,
         \A t \in N : TaskInv(t)',
         \A a, b \in {s \in tasks' : s.kind = "scan"} : a = b
  PROVE  SlotsInv'
<1>1. \A e : StartsIn(tasks', e) = StartsIn(tasks, e)
  BY DEF StartsIn
<1>2. \A s \in tasks' : TaskInv(s)'
  <2>1. \A s \in tasks : TaskInv(s)'
    BY DEF SlotsInv, TaskInv
  <2> QED
    BY <2>1
<1> QED
  BY <1>1, <1>2 DEF SlotsInv, Scans

\* The engine of Alerts begins to poll.
LEMMA SlotsPolls ==
  ASSUME Typed, SlotsInv, NEW t \in StartsIn(tasks, "alert"), t.at \in {"bind", "mark"}, ~ engine.stopped,
         StartPolls(t, engine), UNCHANGED <<session, active, slot, current>>
  PROVE  SlotsInv'
<1> DEFINE u == [t EXCEPT !.at = "scan"]
           n == Task("scan", "alert", "bind", << >>)
<1>0. t \in tasks /\ t \in TaskType /\ t.valid /\ t.kind = "start" /\ t.engine = "alert" /\ "alert" \in Engines
  BY DEF StartsIn, Typed, Awaited, Engines
<1>1. engine' = Polling(engine) /\ tasks' = (tasks \ {t}) \cup {u, n}
  BY DEF StartPolls
<1>2. engine'.polling /\ ~ engine'.stopped
  BY <1>1 DEF Polling, Typed, EngineType
<1>3. u.kind = "start" /\ u.engine = "alert" /\ u.valid /\ u.at = "scan" /\ u.mine = t.mine
  BY <1>0 DEF TaskType
<1>4. n.kind = "scan" /\ n.valid /\ n.mine /\ n.at = "bind"
  BY DEF Task
<1>5. active /\ session /\ t.mine /\ StartsIn(tasks, "alert") = {t} /\ ~ engine.polling
  BY <1>0, SlotsFacts
<1> HIDE DEF u, n
<1>6. StartsIn(tasks', "alert") = {u}
  BY <1>1, <1>3, <1>4, <1>5 DEF StartsIn
<1>7. StartsIn(tasks', "task") = StartsIn(tasks, "task")
  BY <1>0, <1>1, <1>3, <1>4 DEF StartsIn
<1>8. \A e \in Engines : OneWayOf(StartsIn(tasks', e), slot[e])
  <2>1. OneWayOf(StartsIn(tasks, "alert"), slot["alert"]) /\ OneWayOf(StartsIn(tasks, "task"), slot["task"])
    BY <1>5 DEF SlotsInv, Engines
  <2> QED
    BY <1>5, <1>6, <1>7, <2>1 DEF Engines, OneWayOf
<1>9. ASSUME NEW s \in tasks' PROVE TaskInv(s)'
  <2>1. CASE s \in tasks
    <3>1. TaskInv(s)
      BY <2>1 DEF SlotsInv
    <3> QED
      BY <1>2, <3>1 DEF TaskInv
  <2>2. CASE s = u
    BY <1>2, <1>3, <1>5, <2>2 DEF TaskInv
  <2>3. CASE s = n
    BY <1>2, <1>4, <1>5, <2>3 DEF TaskInv
  <2> QED
    BY <1>1, <2>1, <2>2, <2>3
<1>10. Scans = {}
  BY <1>5 DEF SlotsInv, TaskInv, Scans
<1>11. \A a, b \in {s \in tasks' : s.kind = "scan"} : a = b
  BY <1>1, <1>3, <1>10 DEF Scans
<1> QED
  BY <1>2, <1>3, <1>5, <1>6, <1>8, <1>9, <1>11 DEF SlotsInv, Scans

LEMMA SlotsOver ==
  ASSUME Typed, SlotsInv, NEW t \in tasks, t.kind = "start" => ~ t.valid,
         tasks' = tasks \ {t}, UNCHANGED <<session, active, slot, current>>,
         engine'.polling = engine.polling, engine'.stopped = engine.stopped
  PROVE  SlotsInv'
<1> DEFINE D == {t}
           N == {}
<1>1. tasks' = (tasks \ D) \cup N /\ D \cup N = {t}
  OBVIOUS
<1>2. \A a, b \in {s \in tasks' : s.kind = "scan"} : a = b
  BY DEF SlotsInv, Scans
<1>3. (\A s \in D \cup N : s.kind = "start" => ~ s.valid) /\ \A s \in N : TaskInv(s)'
  OBVIOUS
<1> HIDE DEF D, N
<1> QED
  BY <1>1, <1>2, <1>3, SlotsApart

\* The activation is over.
LEMMA SlotsDeactivated ==
  ASSUME Typed, SlotsInv, NEW T \in SUBSET tasks, Deactivated(T)
  PROVE  SlotsInv'
<1>1. T \in SUBSET Awaited
  BY DEF Typed
<1>2. /\ ~ active' /\ slot' = [e \in Engines |-> NewSlot] /\ tasks' = Orphaned(T)
      /\ engine' = EngineStopped(engine)
  BY DEF Deactivated
<1>3. engine'.stopped /\ ~ engine'.polling
  BY <1>2 DEF EngineStopped, Typed, EngineType
<1>4. ~ slot'["alert"].running
  BY <1>2 DEF NewSlot, Engines
<1>5. ASSUME NEW s \in tasks' PROVE TaskInv(s)' /\ s.kind # "scan"
  <2>1. PICK u \in EngineStop(T) : u.at = "mark" /\ s = Orphan(u)
    BY <1>2, OrphanedIs
  <2>2. PICK t \in T :
           /\ u = Halted(t) /\ u \in Awaited /\ u.kind = t.kind /\ u.engine = t.engine
           /\ u.valid = t.valid /\ u.mine = t.mine
           /\ u.kind # "scan"
           /\ u.kind = "commit" => u.at = "mark"
           /\ u.engine # "alert" => u = t
           /\ u.kind = "start" /\ u.engine = "alert" =>
                IF t.at \in {"bind", "scan"} THEN u.at = "return" ELSE u.at = t.at /\ ~ u.live
    BY <1>1, HaltedFrom
  <2>3. s.kind = u.kind /\ s.engine = u.engine /\ s.at = u.at /\ s.live = u.live /\ ~ s.valid
    BY <2>1, <2>2, InvalidTask
  <2> QED
    BY <2>1, <2>2, <2>3 DEF TaskInv
<1> QED
  BY <1>2, <1>3, <1>4, <1>5 DEF SlotsInv, Scans

LEMMA SlotsStarts ==
  ASSUME Typed, SlotsInv, NEW t \in tasks, StartsGo(t)
  PROVE  SlotsInv'
<1> USE DEF teamVars, sessionVars, lifecycleVars
<1>0. /\ t \in TaskType /\ Placed(t) /\ TaskInv(t) /\ engine \in EngineType
      /\ t.engine \in Engines /\ "alert" \in Engines /\ "task" \in Engines
  BY DEF SlotsInv, Typed, Awaited, TaskType, Engines
<1>f. /\ t.valid => active /\ session /\ t.mine
      /\ \A e \in Engines : \A s \in StartsIn(tasks, e) :
           /\ StartsIn(tasks, e) = {s} /\ active
           /\ ~ slot[e].running /\ ~ slot[e].retry /\ ~ slot[e].terminal
  BY SlotsFacts
<1>u. \A s \in tasks : s.at \notin {"mark", "return"} => s.valid
  BY DEF SlotsInv, TaskInv
<1>1. CASE StartBind(t)
  <2>0. /\ t.kind = "start" /\ t.engine = "alert" /\ t.at = "bind" /\ t.valid /\ t.live
        /\ t \in StartsIn(tasks, "alert") /\ ~ engine.stopped
        /\ UNCHANGED <<session, active, slot, current>>
    BY <1>0, <1>1 DEF StartBind, StartsIn, TaskInv
  <2>1. CASE ~ current
    <3>1. \A s \in tasks : s.kind = "start" /\ s.engine = "alert" => s.at # "check"
      BY <1>0, <1>f, <1>u, <2>0 DEF StartsIn
    <3> QED
      BY <1>1, <1>f, <2>0, <2>1, <3>1, SlotsSelfStop DEF StartBind, SelfStop
  <2>2. CASE current /\ engine.acks # {}
    <3>0. PICK u : u = [t EXCEPT !.at = "mark", !.batch = InOrder(engine.acks)]
      OBVIOUS
    <3>1. /\ u.kind = t.kind /\ u.engine = t.engine /\ u.valid = t.valid /\ u.mine = t.mine
          /\ u.at = "mark" /\ u.live = t.live
      BY <1>0, <3>0 DEF TaskType
    <3>2. tasks' = (tasks \ {t}) \cup {u}
      BY <1>1, <2>2, <3>0 DEF StartBind
    <3>3. engine'.polling = engine.polling /\ engine'.stopped = engine.stopped
      BY <1>0, <1>1, <2>2 DEF StartBind, EngineType
    <3>4. TaskInv(u)'
      BY <1>f, <2>0, <3>1, <3>3 DEF TaskInv
    <3> QED
      BY <2>0, <3>1, <3>2, <3>3, <3>4, SlotsMove
  <2>3. CASE current /\ engine.acks = {}
    BY <1>1, <2>0, <2>3, SlotsPolls DEF StartBind
  <2> QED
    BY <2>1, <2>2, <2>3
<1>2. CASE StartMark(t)
  <2>0. /\ t.kind = "start" /\ t.engine = "alert" /\ t.at = "mark"
        /\ UNCHANGED <<session, active, slot, current>>
    BY <1>2 DEF StartMark
  <2>1. CASE t.live
    <3>1. t \in StartsIn(tasks, "alert") /\ ~ engine.stopped
      BY <1>0, <2>0, <2>1 DEF TaskInv, StartsIn
    <3> QED
      BY <1>2, <2>0, <2>1, <3>1, SlotsPolls DEF StartMark
  <2>2. CASE ~ t.live
    <3> DEFINE u == [t EXCEPT !.at = "return"]
    <3>1. /\ u.kind = t.kind /\ u.engine = t.engine /\ u.valid = t.valid /\ u.mine = t.mine
          /\ u.at = "return"
      BY <1>0 DEF TaskType
    <3>2. tasks' = (tasks \ {t}) \cup {u} /\ engine' = engine
      BY <1>2, <2>2 DEF StartMark, StartGoes
    <3> HIDE DEF u
    <3>3. TaskInv(u)'
      BY <1>0, <1>f, <2>0, <2>2, <3>1, <3>2 DEF TaskInv
    <3> QED
      BY <2>0, <3>1, <3>2, <3>3, SlotsMove
  <2> QED
    BY <2>1, <2>2
<1>3. CASE StartReturns(t)
  <2>0. /\ t.kind = "start" /\ t.at = "return" /\ tasks' = tasks \ {t}
        /\ UNCHANGED <<session, active, engine, current>>
    BY <1>3 DEF StartReturns
  <2>1. CASE t.mine /\ t.valid
    <3>1. /\ slot' = [slot EXCEPT ![t.engine].running = TRUE] /\ active /\ session
          /\ slot \in [Engines -> SlotType]
      BY <1>3, <1>f, <2>1 DEF StartReturns, Typed
    <3>2. /\ slot'[t.engine].running /\ slot'[t.engine].retry = slot[t.engine].retry
          /\ slot'[t.engine].terminal = slot[t.engine].terminal
          /\ \A e \in Engines : e # t.engine => slot'[e] = slot[e]
      BY <1>0, <3>1 DEF SlotType
    <3>3. t \in StartsIn(tasks, t.engine)
      BY <2>0, <2>1 DEF StartsIn
    <3>4. /\ StartsIn(tasks, t.engine) = {t}
          /\ ~ slot[t.engine].running /\ ~ slot[t.engine].retry /\ ~ slot[t.engine].terminal
      BY <1>0, <1>f, <3>3
    <3>5. StartsIn(tasks', t.engine) = {} /\ \A e : e # t.engine => StartsIn(tasks', e) = StartsIn(tasks, e)
      BY <2>0, <3>4 DEF StartsIn
    <3>6. \A e \in Engines : OneWayOf(StartsIn(tasks', e), slot'[e])
      <4>1. \A e \in Engines : OneWayOf(StartsIn(tasks, e), slot[e])
        BY <3>1 DEF SlotsInv
      <4>2. OneWayOf(StartsIn(tasks', t.engine), slot'[t.engine])
        BY <3>2, <3>4, <3>5 DEF OneWayOf
      <4> QED
        BY <3>2, <3>5, <4>1, <4>2
    <3>7. slot["alert"].running => slot'["alert"].running
      BY <1>0, <3>2
    <3>8. \A s \in tasks' : TaskInv(s)'
      <4>1. \A s \in tasks' : TaskInv(s)
        BY <2>0 DEF SlotsInv
      <4> QED
        BY <2>0, <3>7, <4>1 DEF TaskInv
    <3>9. /\ slot'["alert"].running /\ current => engine.polling
          /\ engine.polling =>
               slot'["alert"].running \/ \E s \in StartsIn(tasks', "alert") : s.at \in {"scan", "return"}
      <4>1. CASE t.engine = "alert"
        <5>1. current => engine.polling
          BY <1>0, <2>0, <2>1, <4>1 DEF TaskInv
        <5> QED
          BY <3>2, <4>1, <5>1
      <4>2. CASE t.engine # "alert"
        <5>1. slot'["alert"] = slot["alert"] /\ StartsIn(tasks', "alert") = StartsIn(tasks, "alert")
          BY <1>0, <3>2, <3>5, <4>2
        <5> QED
          BY <5>1 DEF SlotsInv
      <4> QED
        BY <4>1, <4>2
    <3>10. \A a, b \in {s \in tasks' : s.kind = "scan"} : a = b
      BY <2>0 DEF SlotsInv, Scans
    <3> QED
      BY <2>0, <3>1, <3>6, <3>8, <3>9, <3>10 DEF SlotsInv, Scans
  <2>2. CASE ~ (t.mine /\ t.valid)
    <3>1. slot' = slot /\ ~ t.valid
      BY <1>3, <1>f, <2>2 DEF StartReturns
    <3> QED
      BY <2>0, <3>1, SlotsOver
  <2> QED
    BY <2>1, <2>2
<1>4. CASE StartTaskEngine(t)
  <2> DEFINE u == [t EXCEPT !.at = "engine"]
  <2>0. t.kind = "start" /\ t.at = "wait" /\ t.engine = "task" /\ t.valid /\ t.mine
    BY <1>0, <1>4 DEF StartTaskEngine, TaskInv, Placed, Engines
  <2>1. /\ u.kind = t.kind /\ u.engine = t.engine /\ u.valid = t.valid /\ u.mine = t.mine
        /\ u.at = "engine"
    BY <1>0 DEF TaskType
  <2>2. tasks' = (tasks \ {t}) \cup {u} /\ engine' = engine /\ UNCHANGED <<session, active, slot, current>>
    BY <1>4, <2>0 DEF StartTaskEngine
  <2> HIDE DEF u
  <2>3. TaskInv(u)' /\ t \notin StartsIn(tasks, "alert")
    BY <1>f, <2>0, <2>1, <2>2 DEF TaskInv, StartsIn
  <2> QED
    BY <2>1, <2>2, <2>3, SlotsMove
<1>5. CASE TaskEngineStarted(t)
  <2> DEFINE u == [t EXCEPT !.at = "return"]
  <2>0. t.kind = "start" /\ t.at = "engine" /\ t.engine = "task" /\ t.valid
    BY <1>0, <1>5 DEF TaskEngineStarted, TaskInv, Placed, Engines
  <2>1. /\ u.kind = t.kind /\ u.engine = t.engine /\ u.valid = t.valid /\ u.mine = t.mine
        /\ u.at = "return"
    BY <1>0 DEF TaskType
  <2>2. tasks' = (tasks \ {t}) \cup {u} /\ engine' = engine /\ UNCHANGED <<session, active, slot, current>>
    BY <1>5, <2>0 DEF TaskEngineStarted
  <2> HIDE DEF u
  <2>3. TaskInv(u)' /\ t \notin StartsIn(tasks, "alert")
    BY <1>f, <2>0, <2>1, <2>2 DEF TaskInv, StartsIn
  <2> QED
    BY <2>1, <2>2, <2>3, SlotsMove
<1>6. CASE RetryChecked(t)
  <2>0. /\ t.kind = "start" /\ t.at = "check" /\ t.valid /\ t.mine /\ active /\ session
        /\ UNCHANGED <<session, current>>
    BY <1>0, <1>6, <1>f DEF RetryChecked, TaskInv
  <2>1. CASE ~ current
    BY <1>6, <2>0, <2>1, SlotsDeactivated DEF RetryChecked
  <2>2. CASE current /\ t.engine = "task"
    <3> DEFINE u == [t EXCEPT !.at = "engine"]
    <3>1. /\ u.kind = t.kind /\ u.engine = t.engine /\ u.valid = t.valid /\ u.mine = t.mine
          /\ u.at = "engine"
      BY <1>0 DEF TaskType
    <3>2. tasks' = (tasks \ {t}) \cup {u} /\ engine' = engine /\ UNCHANGED <<active, slot>>
      BY <1>6, <2>0, <2>2 DEF RetryChecked
    <3> HIDE DEF u
    <3>3. TaskInv(u)' /\ t \notin StartsIn(tasks, "alert")
      BY <2>0, <2>2, <3>1, <3>2 DEF TaskInv, StartsIn
    <3> QED
      BY <2>0, <3>1, <3>2, <3>3, SlotsMove
  <2>3. CASE current /\ t.engine # "task"
    <3> DEFINE u == [t EXCEPT !.at = "bind"]
               T == tasks \ {t}
    <3>1. t.engine = "alert" /\ t \in StartsIn(tasks, "alert")
      BY <1>0, <2>0, <2>3 DEF Engines, StartsIn
    <3>2. /\ u.kind = "start" /\ u.engine = "alert" /\ u.valid /\ u.mine = t.mine
          /\ u.at = "bind" /\ u.live = t.live
      BY <1>0, <2>0, <3>1 DEF TaskType
    <3>3. /\ tasks' = EngineStop(T) \cup {u} /\ engine' = EngineBegun
          /\ UNCHANGED <<active, slot>>
      BY <1>6, <2>0, <2>3 DEF RetryChecked
    <3>4. ~ engine'.polling /\ ~ engine'.stopped
      BY <3>3 DEF EngineBegun, StoppedEngine
    <3>5. T \in SUBSET Awaited
      BY DEF Typed
    <3>6. /\ StartsIn(tasks, "alert") = {t}
          /\ ~ slot["alert"].running /\ ~ slot["alert"].retry /\ ~ slot["alert"].terminal
      BY <1>0, <1>f, <3>1
    <3>7. t.live
      BY <1>0, <2>0, <3>1 DEF TaskInv
    <3> HIDE DEF u
    <3>8. ASSUME NEW s \in EngineStop(T) PROVE TaskInv(s)' /\ s.kind # "scan" /\ (s.kind = "start" /\ s.engine = "alert" => ~ s.valid)
      <4>1. PICK r \in T :
           /\ s = Halted(r) /\ s \in Awaited /\ s.kind = r.kind /\ s.engine = r.engine
           /\ s.valid = r.valid /\ s.mine = r.mine
           /\ s.kind # "scan"
           /\ s.kind = "commit" => s.at = "mark"
           /\ s.engine # "alert" => s = r
           /\ s.kind = "start" /\ s.engine = "alert" =>
                IF r.at \in {"bind", "scan"} THEN s.at = "return" ELSE s.at = r.at /\ ~ s.live
        BY <3>5, HaltedFrom
      <4>2. TaskInv(r)
        BY DEF SlotsInv
      <4>3. s.kind = "start" /\ s.engine = "alert" => ~ r.valid
        BY <3>6, <4>1 DEF StartsIn
      <4>4. CASE s.engine # "alert"
        BY <3>3, <3>4, <4>1, <4>2, <4>4 DEF TaskInv, Awaited, TaskType, Placed
      <4>5. CASE s.engine = "alert" /\ s.kind = "start"
        BY <4>1, <4>2, <4>3, <4>5 DEF TaskInv
      <4>6. CASE s.engine = "alert" /\ s.kind = "commit"
        BY <3>3, <3>6, <4>1, <4>2, <4>6 DEF TaskInv
      <4>7. s.kind \in {"start", "commit"}
        BY <4>1 DEF Awaited, TaskType
      <4> QED
        BY <4>1, <4>3, <4>4, <4>5, <4>6, <4>7
    <3>9. TaskInv(u)'
      BY <2>0, <3>2, <3>3, <3>4, <3>7 DEF TaskInv
    <3>10. StartsIn(tasks', "alert") = {u}
      BY <3>2, <3>3, <3>8 DEF StartsIn
    <3>11. OneWayOf(StartsIn(tasks', "task"), slot["task"])
      <4>1. OneWayOf(StartsIn(T, "task"), slot["task"])
        <5>1. StartsIn(T, "task") = StartsIn(tasks, "task")
          BY <3>1 DEF StartsIn
        <5> QED
          BY <1>0, <2>0, <5>1 DEF SlotsInv
      <4>2. OneWayOf(StartsIn(EngineStop(T), "task"), slot["task"])
        BY <3>5, <4>1, OneWayHalted
      <4>3. StartsIn(tasks', "task") = StartsIn(EngineStop(T), "task")
        BY <3>2, <3>3 DEF StartsIn
      <4> QED
        BY <4>2, <4>3
    <3>12. \A e \in Engines : OneWayOf(StartsIn(tasks', e), slot[e])
      BY <3>6, <3>10, <3>11 DEF Engines, OneWayOf
    <3>13. \A s \in tasks' : TaskInv(s)' /\ s.kind # "scan"
      BY <3>2, <3>3, <3>8, <3>9
    <3> QED
      BY <2>0, <3>3, <3>4, <3>6, <3>12, <3>13 DEF SlotsInv, Scans
  <2> QED
    BY <2>1, <2>2, <2>3
<1>7. CASE StartFails(t)
  <2>0. /\ t.kind = "start" /\ t.at \in {"check", "bind", "mark", "engine"}
        /\ UNCHANGED <<session, current>> /\ tasks \ {t} \in SUBSET tasks
    BY <1>7 DEF StartFails
  <2>1. CASE t.mine /\ t.valid
    <3>0. Failed(t.engine, tasks \ {t})
      BY <1>7, <2>1 DEF StartFails
    <3>1. t \in StartsIn(tasks, t.engine)
      BY <2>0, <2>1 DEF StartsIn
    <3>2. /\ StartsIn(tasks, t.engine) = {t} /\ active
          /\ ~ slot[t.engine].retry /\ ~ slot[t.engine].terminal
      BY <1>0, <1>f, <3>1
    <3>3. \A s \in tasks \ {t} : s.kind = "start" /\ s.engine = t.engine => ~ s.valid
      BY <3>2 DEF StartsIn
    <3>4. \A s \in tasks \ {t} : s.kind = "start" /\ s.engine = t.engine => s.at \in {"mark", "return"}
      BY <1>u, <3>3
    <3>5. CASE t.engine = "alert"
      BY <2>0, <3>0, <3>2, <3>4, <3>5, SlotsFailedAlert
    <3>6. CASE t.engine = "task"
      <4>1. \A s \in tasks : s.engine = "task" => s.kind = "start"
        BY DEF Typed, Awaited, Placed, TaskType
      <4> QED
        BY <2>0, <3>0, <3>2, <3>4, <3>6, <4>1, SlotsFailedTask
    <3> QED
      BY <1>0, <3>5, <3>6 DEF Engines
  <2>2. CASE ~ (t.mine /\ t.valid)
    <3>1. tasks' = tasks \ {t} /\ UNCHANGED <<active, slot, engine>> /\ ~ t.valid
      BY <1>7, <1>f, <2>2 DEF StartFails
    <3> QED
      BY <2>0, <3>1, SlotsOver
  <2> QED
    BY <2>1, <2>2
<1> QED
  BY <1>1, <1>2, <1>3, <1>4, <1>5, <1>6, <1>7 DEF StartsGo

\* A pass of the scan is over.
LEMMA SlotsScanOver ==
  ASSUME Typed, SlotsInv, NEW t \in Scans, NEW eng \in EngineType,
         eng.polling = engine.polling, eng.stopped = engine.stopped, ScanOver(t, eng),
         UNCHANGED <<session, active, slot, current>>
  PROVE  SlotsInv'
<1>0. /\ t \in tasks /\ t.kind = "scan" /\ engine.polling /\ active
      /\ \A s \in tasks : s.kind = "scan" => s = t
  <2>1. t \in tasks /\ t.kind = "scan" /\ TaskInv(t)
    BY DEF Scans, SlotsInv
  <2> QED
    BY <2>1, SlotsFacts DEF TaskInv, SlotsInv, Scans
<1>1. CASE eng.rescan
  <2> DEFINE n == Task("scan", "alert", "bind", << >>)
             D == {t}
             N == {n}
  <2>1. n.kind = "scan" /\ n.valid /\ n.mine /\ n.at = "bind"
    BY DEF Task
  <2>2. tasks' = (tasks \ D) \cup N /\ engine' = [eng EXCEPT !.rescan = FALSE]
    BY <1>1 DEF ScanOver
  <2>3. engine'.polling = engine.polling /\ engine'.stopped = engine.stopped
    BY <2>2 DEF EngineType
  <2> HIDE DEF n
  <2>4. TaskInv(n)'
    BY <1>0, <2>1, <2>3 DEF TaskInv
  <2>5. \A a, b \in {s \in tasks' : s.kind = "scan"} : a = b
    BY <1>0, <2>2
  <2>6. (\A s \in D \cup N : s.kind = "start" => ~ s.valid) /\ \A s \in N : TaskInv(s)'
    BY <1>0, <2>1, <2>4
  <2> HIDE DEF D, N
  <2> QED
    BY <2>2, <2>3, <2>5, <2>6, SlotsApart
<1>2. CASE ~ eng.rescan
  <2> DEFINE Go(s) == IF s.at = "scan" THEN [s EXCEPT !.at = "return"] ELSE s
             T == tasks \ {t}
  <2>1. tasks' = {Go(s) : s \in T} /\ engine' = eng
    BY <1>2 DEF ScanOver
  <2>2. ASSUME NEW s \in T
        PROVE  /\ Go(s).kind = s.kind /\ Go(s).engine = s.engine /\ Go(s).valid = s.valid
               /\ Go(s).mine = s.mine /\ Go(s).live = s.live /\ Go(s).kind # "scan"
               /\ s.at # "scan" => Go(s).at = s.at
               /\ s.at = "scan" => Go(s).at = "return" /\ s.kind = "start" /\ s.engine = "alert"
    <3>1. s \in TaskType /\ Placed(s) /\ s.kind # "scan"
      BY <1>0 DEF Typed, Awaited
    <3>2. s.at = "scan" => s.kind = "start" /\ s.engine = "alert"
      BY <3>1 DEF TaskType, Placed, Engines
    <3> QED
      BY <3>1, <3>2 DEF TaskType
  <2> HIDE DEF Go
  <2>3. ASSUME NEW s \in T PROVE TaskInv(Go(s))'
    <3>1. TaskInv(s)
      BY DEF SlotsInv
    <3>2. PICK r : r = Go(s)
      OBVIOUS
    <3>3. TaskInv(r)'
      BY <2>1, <2>2, <3>1, <3>2 DEF TaskInv
    <3> QED
      BY <3>2, <3>3
  <2>4. ASSUME NEW e \in Engines
        PROVE  StartsIn(tasks', e) = {Go(s) : s \in StartsIn(tasks, e)}
    <3>1. \A s \in StartsIn(tasks, e) : s \in T
      BY <1>0 DEF StartsIn
    <3> QED
      BY <2>1, <2>2, <3>1 DEF StartsIn
  <2>5. ASSUME NEW e \in Engines PROVE OneWayOf(StartsIn(tasks', e), slot[e])
    <3>1. OneWayOf(StartsIn(tasks, e), slot[e])
      BY <1>0 DEF SlotsInv
    <3> QED
      BY <2>4, <3>1 DEF OneWayOf
  <2>6. slot["alert"].running \/ \E s \in StartsIn(tasks', "alert") : s.at \in {"scan", "return"}
    <3> SUFFICES ASSUME NEW s \in StartsIn(tasks, "alert"), s.at \in {"scan", "return"}
                 PROVE  \E r \in StartsIn(tasks', "alert") : r.at \in {"scan", "return"}
      BY <1>0 DEF SlotsInv
    <3>1. Go(s) \in StartsIn(tasks', "alert") /\ s \in T
      BY <1>0, <2>4 DEF Engines, StartsIn
    <3> QED
      BY <2>2, <3>1
  <2>7. \A s \in tasks' : TaskInv(s)' /\ s.kind # "scan"
    BY <2>1, <2>2, <2>3
  <2> QED
    BY <1>0, <2>1, <2>5, <2>6, <2>7 DEF SlotsInv, Scans
<1> QED
  BY <1>1, <1>2

LEMMA SlotsScans ==
  ASSUME Typed, SlotsInv, NEW t \in tasks, ScansGo(t)
  PROVE  SlotsInv'
<1> USE DEF teamVars, sessionVars, lifecycleVars
<1>0. /\ t \in TaskType /\ TaskInv(t) /\ engine \in EngineType /\ t.kind = "scan" /\ t \in Scans
      /\ engine.polling /\ t \notin StartsIn(tasks, "alert")
  BY DEF SlotsInv, Typed, Awaited, ScansGo, ScanBind, ScanRead, ScanRecheck, ScanSettled, ScanFails,
         TaskInv, Scans, StartsIn
<1>f. /\ active /\ session /\ ~ slot["alert"].retry /\ ~ slot["alert"].terminal
      /\ \A s \in tasks : s.kind = "start" /\ s.engine = "alert" =>
           /\ s.at \notin {"check", "bind"}
           /\ s.at = "mark" => ~ s.valid
  BY <1>0, SlotsFacts
<1>a. Attempting(t) \in EngineType /\ Attempting(t).polling = engine.polling
      /\ Attempting(t).stopped = engine.stopped
  BY <1>0, ElementsTyped DEF Attempting, EngineType
<1>1. ASSUME NEW at \in {"read", "recheck", "settle"}, NEW b,
             tasks' = (tasks \ {t}) \cup {[t EXCEPT !.at = at]}
             \/ tasks' = (tasks \ {t}) \cup {[t EXCEPT !.at = at, !.batch = b]},
             engine' = engine \/ engine' = Attempting(t),
             UNCHANGED <<session, active, slot, current>>, t.valid, t.mine
      PROVE  SlotsInv'
  <2>1. PICK u : /\ u \in {[t EXCEPT !.at = at], [t EXCEPT !.at = at, !.batch = b]}
                 /\ tasks' = (tasks \ {t}) \cup {u}
    BY <1>1
  <2>2. u.kind = "scan" /\ u.engine = t.engine /\ u.valid = t.valid /\ u.mine = t.mine /\ u.at = at
    BY <1>0, <2>1 DEF TaskType
  <2>3. engine'.polling = engine.polling /\ engine'.stopped = engine.stopped
    BY <1>1, <1>a
  <2>4. TaskInv(u)'
    BY <1>0, <1>1, <1>f, <2>2, <2>3 DEF TaskInv
  <2> QED
    BY <1>0, <1>1, <2>1, <2>2, <2>3, <2>4, SlotsMove
<1>v. t.at \in {"bind", "read", "recheck", "settle"} => t.valid /\ t.mine
  BY <1>0 DEF TaskInv
<1>s. ASSUME SelfStop, ~ current, UNCHANGED <<session, active, slot, current>> PROVE SlotsInv'
  BY <1>f, <1>s, SlotsSelfStop
<1>o. ASSUME NEW eng \in {engine, Attempting(t)}, ScanOver(t, eng), UNCHANGED <<session, active, slot, current>>
      PROVE  SlotsInv'
  BY <1>0, <1>a, <1>o, SlotsScanOver
<1>2. CASE ScanBind(t)
  <2>1. CASE current
    BY <1>1, <1>2, <1>v, <2>1 DEF ScanBind
  <2>2. CASE ~ current
    BY <1>2, <1>s, <2>2 DEF ScanBind
  <2> QED
    BY <2>1, <2>2
<1>3. CASE ScanRead(t)
  <2>1. CASE Pending = << >>
    BY <1>3, <1>o, <2>1 DEF ScanRead
  <2>2. CASE Pending # << >>
    <3>1. PICK b : b = Pending
      OBVIOUS
    <3>2. /\ tasks' = (tasks \ {t}) \cup {[t EXCEPT !.at = "recheck", !.batch = b]}
          /\ engine' = engine /\ UNCHANGED <<session, active, slot, current>> /\ t.at = "read"
      BY <1>3, <2>2, <3>1 DEF ScanRead
    <3> QED
      BY <1>1, <1>v, <3>2
  <2> QED
    BY <2>1, <2>2
<1>4. CASE ScanRecheck(t)
  <2>0. UNCHANGED <<session, active, slot, current>> /\ t.at = "recheck"
    BY <1>4 DEF ScanRecheck
  <2>1. CASE ~ current
    BY <1>4, <1>s, <2>0, <2>1 DEF ScanRecheck
  <2>2. CASE current /\ Elements(t.batch) \cap Interrupting # {}
    <3>1. engine' = Attempting(t) /\ tasks' = (tasks \ {t}) \cup {[t EXCEPT !.at = "settle"]}
      BY <1>4, <2>2 DEF ScanRecheck
    <3> QED
      BY <1>1, <1>v, <2>0, <3>1
  <2>3. CASE current /\ ~ (Elements(t.batch) \cap Interrupting # {})
    <3>1. ScanOver(t, Attempting(t))
      BY <1>4, <2>3 DEF ScanRecheck
    <3> QED
      BY <1>o, <2>0, <3>1
  <2> QED
    BY <2>1, <2>2, <2>3
<1>5. CASE ScanSettled(t)
  BY <1>5, <1>o DEF ScanSettled
<1>6. CASE ScanFails(t)
  <2> DEFINE T == {s \in tasks \ {t} : s.at # "scan"}
  <2>1. Failed("alert", T) /\ UNCHANGED <<session, current>> /\ T \in SUBSET tasks
    BY <1>6 DEF ScanFails
  <2>2. \A s \in tasks : s.engine # "alert" => s \in T
    BY <1>0 DEF Typed, Awaited, Placed, TaskType, Engines
  <2>3. \A s \in T : s.kind = "start" /\ s.engine = "alert" => s.at # "check"
    BY <1>f
  <2> HIDE DEF T
  <2> QED
    BY <1>f, <2>1, <2>2, <2>3, SlotsFailedAlert
<1> QED
  BY <1>2, <1>3, <1>4, <1>5, <1>6 DEF ScansGo

LEMMA SlotsCommits ==
  ASSUME Typed, SlotsInv, NEW t \in tasks, CommitsGo(t)
  PROVE  SlotsInv'
<1> USE DEF teamVars, sessionVars, lifecycleVars
<1>0. /\ t \in TaskType /\ Placed(t) /\ TaskInv(t) /\ engine \in EngineType /\ t.kind = "commit"
      /\ t \notin StartsIn(tasks, "alert")
  BY DEF SlotsInv, Typed, Awaited, CommitsGo, CommitBind, CommitMark, CommitFails, StartsIn
<1>f. t.valid =>
      /\ active /\ session /\ t.mine /\ slot["alert"].running
      /\ ~ slot["alert"].retry /\ ~ slot["alert"].terminal
      /\ \A s \in tasks : s.kind = "start" /\ s.engine = "alert" => s.at \notin {"check", "bind"}
  BY <1>0, SlotsFacts DEF TaskInv
<1>1. CASE CommitBind(t)
  <2>0. t.at = "bind" /\ t.valid /\ UNCHANGED <<session, active, slot, current>>
    BY <1>0, <1>1 DEF CommitBind, TaskInv
  <2>1. CASE ~ current
    BY <1>1, <1>f, <2>0, <2>1, SlotsSelfStop DEF CommitBind
  <2>2. CASE current /\ tasks' = tasks \ {t} /\ engine' = engine
    BY <1>0, <2>0, <2>2, SlotsOver
  <2>3. CASE current /\ ~ (tasks' = tasks \ {t} /\ engine' = engine)
    <3>1. PICK b : /\ tasks' = (tasks \ {t}) \cup {[t EXCEPT !.at = "mark", !.batch = b]}
                   /\ \E ids : engine' = [engine EXCEPT !.acknowledged = @ \cup ids]
      BY <1>1, <2>3 DEF CommitBind
    <3>2. PICK u : u = [t EXCEPT !.at = "mark", !.batch = b]
      OBVIOUS
    <3>3. u.kind = "commit" /\ u.engine = t.engine /\ u.valid = t.valid /\ u.mine = t.mine /\ u.at = "mark"
      BY <1>0, <3>2 DEF TaskType
    <3>4. engine'.polling = engine.polling /\ engine'.stopped = engine.stopped
      BY <1>0, <3>1 DEF EngineType
    <3>5. TaskInv(u)'
      BY <1>f, <2>0, <3>3, <3>4 DEF TaskInv
    <3> QED
      BY <1>0, <2>0, <3>1, <3>2, <3>3, <3>4, <3>5, SlotsMove
  <2> QED
    BY <2>1, <2>2, <2>3
<1>2. CASE CommitMark(t)
  <2>1. tasks' = tasks \ {t} /\ UNCHANGED <<session, active, slot, current>>
    BY <1>2 DEF CommitMark
  <2>2. engine'.polling = engine.polling /\ engine'.stopped = engine.stopped
    BY <1>0, <1>2 DEF CommitMark, EngineType
  <2> QED
    BY <1>0, <2>1, <2>2, SlotsOver
<1>3. CASE CommitFails(t)
  <2>1. CASE t.valid /\ t.mine
    <3>1. Failed("alert", tasks \ {t}) /\ UNCHANGED <<session, current>> /\ tasks \ {t} \in SUBSET tasks
      BY <1>3, <2>1 DEF CommitFails
    <3>2. \A s \in tasks : s.engine # "alert" => s \in tasks \ {t}
      BY <1>0 DEF Placed
    <3> QED
      BY <1>f, <2>1, <3>1, <3>2, SlotsFailedAlert
  <2>2. CASE ~ (t.valid /\ t.mine)
    BY <1>0, <1>3, <2>2, SlotsOver DEF CommitFails
  <2> QED
    BY <2>1, <2>2
<1> QED
  BY <1>1, <1>2, <1>3 DEF CommitsGo

LEMMA SlotsFrame ==
  ASSUME Typed, SlotsInv, UNCHANGED <<session, active, slot, tasks>>, current' => current,
         engine'.polling = engine.polling, engine'.stopped = engine.stopped
  PROVE  SlotsInv'
<1>1. \A s \in tasks : TaskInv(s)'
  BY DEF SlotsInv, TaskInv
<1> QED
  BY <1>1 DEF SlotsInv, Scans

\* One task more, that starts nothing.
LEMMA SlotsBegun ==
  ASSUME Typed, SlotsInv, NEW n, n.kind # "start", tasks' = tasks \cup {n}, TaskInv(n)',
         UNCHANGED <<session, active, slot, current>>, n.kind = "scan" => Scans = {},
         engine'.polling = engine.polling, engine'.stopped = engine.stopped
  PROVE  SlotsInv'
<1> DEFINE D == {}
           N == {n}
<1>1. tasks' = (tasks \ D) \cup N
  OBVIOUS
<1>2. \A a, b \in {s \in tasks' : s.kind = "scan"} : a = b
  BY DEF SlotsInv, Scans
<1>3. (\A s \in D \cup N : s.kind = "start" => ~ s.valid) /\ \A s \in N : TaskInv(s)'
  OBVIOUS
<1> HIDE DEF D, N
<1> QED
  BY <1>1, <1>2, <1>3, SlotsApart

LEMMA SlotsRetry ==
  ASSUME Typed, SlotsInv, NEW e \in Engines, Retry(e)
  PROVE  SlotsInv'
<1> USE DEF teamVars, sessionVars, lifecycleVars
<1> DEFINE n == Task("start", e, "check", << >>)
<1>1. /\ slot[e].retry /\ slot' = [slot EXCEPT ![e].retry = FALSE] /\ tasks' = tasks \cup {n}
      /\ UNCHANGED <<session, active, engine, current>>
  BY DEF Retry
<1>2. /\ slot'[e].running = slot[e].running /\ ~ slot'[e].retry /\ slot'[e].terminal = slot[e].terminal
      /\ \A d \in Engines : d # e => slot'[d] = slot[d]
  BY <1>1 DEF Typed, SlotType
<1>3. n.kind = "start" /\ n.engine = e /\ n.at = "check" /\ n.valid /\ n.mine /\ n.live
  BY DEF Task
<1>4. active /\ session /\ StartsIn(tasks, e) = {}
  BY <1>1, SlotsFacts
<1> HIDE DEF n
<1>5. StartsIn(tasks', e) = {n} /\ \A d : d # e => StartsIn(tasks', d) = StartsIn(tasks, d)
  BY <1>1, <1>3, <1>4 DEF StartsIn
<1>6. \A d \in Engines : OneWayOf(StartsIn(tasks, d), slot[d])
  BY <1>4 DEF SlotsInv
<1>7. ASSUME NEW d \in Engines PROVE OneWayOf(StartsIn(tasks', d), slot'[d])
  <2>1. CASE d = e
    <3>1. ~ slot[e].running /\ ~ slot[e].terminal
      BY <1>1, <1>6 DEF OneWayOf
    <3> QED
      BY <1>2, <1>5, <2>1, <3>1 DEF OneWayOf
  <2>2. CASE d # e
    BY <1>2, <1>5, <1>6, <2>2
  <2> QED
    BY <2>1, <2>2
<1>8. slot'["alert"].running = slot["alert"].running
  BY <1>2 DEF Engines
<1>9. ASSUME NEW s \in tasks' PROVE TaskInv(s)'
  <2>1. CASE s \in tasks
    <3>1. TaskInv(s)
      BY <2>1 DEF SlotsInv
    <3> QED
      BY <1>1, <1>8, <3>1 DEF TaskInv
  <2>2. CASE s = n
    BY <1>1, <1>3, <1>4, <2>2 DEF TaskInv
  <2> QED
    BY <1>1, <2>1, <2>2
<1>10. engine.polling =>
         /\ ~ engine.stopped
         /\ slot["alert"].running \/ \E t \in StartsIn(tasks', "alert") : t.at \in {"scan", "return"}
  BY <1>1 DEF SlotsInv, StartsIn
<1>11. \A a, b \in {s \in tasks' : s.kind = "scan"} : a = b
  BY <1>1, <1>3 DEF SlotsInv, Scans
<1>12. slot["alert"].running /\ current => engine.polling
  BY DEF SlotsInv
<1> QED
  BY <1>1, <1>4, <1>7, <1>8, <1>9, <1>10, <1>11, <1>12 DEF SlotsInv, Scans

LEMMA SlotsOthers ==
  ASSUME Typed, SlotsInv, OthersGo
  PROVE  SlotsInv'
<1> USE DEF teamVars, sessionVars, lifecycleVars
<1>0. engine \in EngineType
  BY DEF Typed
<1>1. CASE Poll
  <2> DEFINE n == Task("scan", "alert", "bind", << >>)
  <2>0. engine.polling /\ active /\ UNCHANGED <<session, active, slot, current>>
    BY <1>1, SlotsFacts DEF Poll
  <2>1. engine'.polling = engine.polling /\ engine'.stopped = engine.stopped
    BY <1>0, <1>1 DEF Poll, EngineType
  <2>2. CASE Scans # {}
    BY <1>1, <2>0, <2>1, <2>2, SlotsFrame DEF Poll
  <2>3. CASE Scans = {}
    <3>1. n.kind = "scan" /\ n.valid /\ n.mine /\ n.at = "bind"
      BY DEF Task
    <3>2. tasks' = tasks \cup {n}
      BY <1>1, <2>3 DEF Poll
    <3> HIDE DEF n
    <3>3. TaskInv(n)'
      BY <2>0, <2>1, <3>1 DEF TaskInv
    <3> QED
      BY <2>0, <2>1, <2>3, <3>1, <3>2, <3>3, SlotsBegun
  <2> QED
    BY <2>2, <2>3
<1>2. CASE Flush
  BY <1>2, SlotsFrame DEF Flush
<1>3. ASSUME NEW e \in Engines, Retry(e) PROVE SlotsInv'
  BY <1>3, SlotsRetry
<1>4. CASE TaskScanFails
  <2>0. "task" \in Engines
    BY DEF Engines
  <2>1. slot["task"].running /\ Failed("task", tasks) /\ UNCHANGED <<session, current>>
    BY <1>4 DEF TaskScanFails
  <2>2. active /\ StartsIn(tasks, "task") = {}
    BY <2>0, <2>1, SlotsFacts
  <2>3. ~ slot["task"].retry /\ ~ slot["task"].terminal
    <3>1. OneWayOf(StartsIn(tasks, "task"), slot["task"])
      BY <2>0, <2>2 DEF SlotsInv
    <3> QED
      BY <2>1, <3>1 DEF OneWayOf
  <2>4. \A t \in tasks : t.engine = "task" => t.at \in {"mark", "return"}
    <3>1. \A t \in tasks : t.engine = "task" => t.kind = "start"
      BY DEF Typed, Awaited, Placed, TaskType
    <3> QED
      BY <2>2, <3>1 DEF StartsIn, SlotsInv, TaskInv
  <2> QED
    BY <2>1, <2>2, <2>3, <2>4, SlotsFailedTask
<1>5. CASE TurnStart
  <2>1. engine'.polling = engine.polling /\ engine'.stopped = engine.stopped
    BY <1>0, <1>5 DEF TurnStart, ObserveContext, EngineType
  <2> QED
    BY <1>5, <2>1, SlotsFrame DEF TurnStart
<1>6. CASE TurnEnd
  <2> DEFINE n == Task("commit", "alert", "bind", << >>)
  <2>1. CASE tasks' = tasks
    BY <1>6, <2>1, SlotsFrame DEF TurnEnd
  <2>2. CASE tasks' # tasks
    <3>1. n.kind = "commit" /\ n.valid /\ n.mine /\ n.at = "bind"
      BY DEF Task
    <3>2. /\ tasks' = tasks \cup {n} /\ slot["alert"].running
          /\ UNCHANGED <<session, active, slot, current, engine>>
      BY <1>6, <2>2 DEF TurnEnd
    <3>3. active
      BY <3>2, SlotsFacts
    <3> HIDE DEF n
    <3>4. TaskInv(n)'
      BY <3>1, <3>2, <3>3 DEF TaskInv
    <3> QED
      BY <3>1, <3>2, <3>4, SlotsBegun
  <2> QED
    BY <2>1, <2>2
<1> QED
  BY <1>1, <1>2, <1>3, <1>4, <1>5, <1>6 DEF OthersGo

LEMMA SlotsSession ==
  ASSUME Typed, SlotsInv, SessionGoes
  PROVE  SlotsInv'
<1> USE DEF teamVars, sessionVars, lifecycleVars, piOnly
<1>1. CASE SessionStart
  <2> DEFINE a == [Task("start", "alert", "bind", << >>) EXCEPT !.first = TRUE]
             b == Task("start", "task", "wait", << >>)
  <2>1. /\ a.kind = "start" /\ a.engine = "alert" /\ a.at = "bind" /\ a.valid /\ a.mine /\ a.live
        /\ b.kind = "start" /\ b.engine = "task" /\ b.at = "wait" /\ b.valid /\ b.mine
    BY DEF Task
  <2>2. /\ ~ session /\ session' /\ active' /\ tasks' = tasks \cup {a, b} /\ engine' = EngineBegun
        /\ slot' = [e \in Engines |-> NewSlot]
    BY <1>1 DEF SessionStart
  <2>3. ~ active /\ \A t \in tasks : ~ t.valid
    BY <2>2 DEF SlotsInv, TaskInv
  <2>4. ~ engine'.polling /\ ~ engine'.stopped
    BY <2>2 DEF EngineBegun, StoppedEngine
  <2> HIDE DEF a, b
  <2>5. StartsIn(tasks', "alert") = {a} /\ StartsIn(tasks', "task") = {b}
    BY <2>1, <2>2, <2>3 DEF StartsIn
  <2>6. \A e \in Engines : OneWayOf(StartsIn(tasks', e), slot'[e]) /\ ~ slot'[e].running
    BY <2>2, <2>5 DEF Engines, OneWayOf, NewSlot
  <2>7. ASSUME NEW s \in tasks' PROVE TaskInv(s)' /\ s.kind # "scan"
    <3>1. CASE s \in tasks
      <4>1. TaskInv(s) /\ ~ s.valid
        BY <2>3, <3>1 DEF SlotsInv
      <4>2. s.at \in {"mark", "return"} /\ s.kind # "scan"
        BY <3>1, <4>1 DEF TaskInv, Typed, Awaited, Placed
      <4> QED
        BY <4>1, <4>2 DEF TaskInv
    <3>2. CASE s \in {a, b}
      BY <2>1, <2>2, <2>4, <3>2 DEF TaskInv
    <3> QED
      BY <2>2, <3>1, <3>2
  <2>8. ~ slot'["alert"].running
    BY <2>6 DEF Engines
  <2> QED
    BY <2>2, <2>4, <2>6, <2>7, <2>8 DEF SlotsInv, Scans
<1>2. CASE SessionShutdown
  BY <1>2, SlotsDeactivated DEF SessionShutdown
<1>3. CASE Crash
  <2>1. engine'.stopped /\ ~ engine'.polling /\ tasks' = {} /\ ~ active' /\ slot' = [e \in Engines |-> NewSlot]
    BY <1>3 DEF Crash, StoppedEngine
  <2>2. ~ slot'["alert"].running
    BY <2>1 DEF Engines, NewSlot
  <2> QED
    BY <2>1, <2>2 DEF SlotsInv, Scans
<1>4. CASE UNCHANGED <<session, active, slot, tasks, engine>> /\ (current' => current)
  BY <1>4, SlotsFrame
<1>5. \/ SessionStart \/ SessionShutdown \/ Crash
      \/ UNCHANGED <<session, active, slot, tasks, engine>> /\ (current' => current)
  BY DEF SessionGoes, CompactStart, CompactEnd, CompactCleared, CompactUntold, HoldLimit, HoldBegin,
         HoldEnd, Accept, Unbind
<1> QED
  BY <1>1, <1>2, <1>3, <1>4, <1>5

LEMMA SlotsStep == Typed /\ SlotsInv /\ [Next]_vars => SlotsInv'
<1> SUFFICES ASSUME Typed, SlotsInv, [Next]_vars PROVE SlotsInv'
  OBVIOUS
<1>1. CASE UNCHANGED vars
  BY <1>1, SlotsFrame DEF vars
<1>2. CASE Next
  BY <1>2, NextIs, SlotsStarts, SlotsScans, SlotsCommits, SlotsOthers, SlotsSession
<1> QED
  BY <1>1, <1>2

\* The invariant of the slots holds (recipient-delivery-lifecycle.ts).
THEOREM SlotsHold == Spec => []SlotsInv
<1>1. Init => SlotsInv
  <2> SUFFICES ASSUME Init PROVE SlotsInv
    OBVIOUS
  <2>1. ~ slot["alert"].running
    BY DEF Init, Engines, NewSlot
  <2> QED
    BY <2>1 DEF Init, SlotsInv, Scans, StoppedEngine
<1> QED
  BY <1>1, SlotsStep, TypeHolds, PTL DEF Spec

\* Whatever fails, is retried, replaced or comes too late, a slot of the active
\* lifecycle has one way on: one start under way, or an engine that runs, or
\* one retry, or an error that ends it; and an engine that counts as running
\* polls (start, fail, stop).
THEOREM OneWayOn == Spec => []SlotsHaveOneWayOn
<1>1. Typed /\ SlotsInv => SlotsHaveOneWayOn
  <2> SUFFICES ASSUME Typed, SlotsInv, active, NEW e \in Engines
               PROVE  /\ Cardinality(Starts(e))
                         + Cardinality({f \in {"running", "retry", "terminal"} : slot[e][f]}) = 1
                      /\ slot["alert"].running /\ current => engine.polling
    BY DEF SlotsHaveOneWayOn
  <2>1. OneWayOf(Starts(e), slot[e])
    BY DEF SlotsInv, StartsIn, Starts
  <2> DEFINE F == {f \in {"running", "retry", "terminal"} : slot[e][f]}
  <2>2. Cardinality({}) = 0 /\ \A x : Cardinality({x}) = 1
    BY FS_EmptySet, FS_Singleton
  <2>3. CASE slot[e].running \/ slot[e].retry \/ slot[e].terminal
    <3>1. Starts(e) = {}
      BY <2>1, <2>3 DEF OneWayOf
    <3>2. F = {"running"} \/ F = {"retry"} \/ F = {"terminal"}
      BY <2>1, <2>3 DEF OneWayOf
    <3> HIDE DEF F
    <3>3. Cardinality(Starts(e)) = 0 /\ Cardinality(F) = 1
      BY <2>2, <3>1, <3>2
    <3> QED
      BY <3>3 DEF F, SlotsInv
  <2>4. CASE ~ (slot[e].running \/ slot[e].retry \/ slot[e].terminal)
    <3>1. PICK t \in Starts(e) : Starts(e) = {t}
      BY <2>1, <2>4 DEF OneWayOf
    <3>2. F = {}
      BY <2>4
    <3> HIDE DEF F
    <3>3. Cardinality(Starts(e)) = 1 /\ Cardinality(F) = 0
      BY <2>2, <3>1, <3>2
    <3> QED
      BY <3>3 DEF F, SlotsInv
  <2> QED
    BY <2>3, <2>4
<1> QED
  BY <1>1, TypeHolds, SlotsHold, PTL

-----------------------------------------------------------------------------
(* No Alert is passed over.                                                  *)

\* No Alert of a sequence comes before an earlier one.
Covered(seq) ==
  \A k \in 1..Len(seq) : \A a \in 1..(seq[k] - 1) : \E l \in 1..(k - 1) : seq[l] = a

\* Whether a scan has read a batch and not sent it, and has counted it as
\* attempted already.
Carries(t) == t.kind = "scan" /\ t.at \in {"recheck", "settle"}

Settles(t) == t.kind = "scan" /\ t.at = "settle"

\* What Pi has or will have of the gate leaves no Alert out, nor would it with
\* the batch of a scan behind it; and what the engine has attempted is there,
\* or waits for a run to settle.
OrderInv ==
  /\ Covered(Given)
  /\ \A t \in tasks : Carries(t) => Covered(Given \o t.batch)
  /\ ~ engine.stopped =>
       \A a \in engine.attempted :
         a \in Elements(Given) \/ \E t \in tasks : Settles(t) /\ a \in Elements(t.batch)

LEMMA CoveredPrefix ==
  ASSUME NEW x \in Seq(Alerts), NEW y \in Seq(Alerts), Covered(x \o y)
  PROVE  Covered(x)
<1>1. /\ Len(x) \in Nat /\ Len(y) \in Nat /\ Len(x \o y) = Len(x) + Len(y)
      /\ \A i \in 1..Len(x) : (x \o y)[i] = x[i]
  BY LenProperties
<1>2. ASSUME NEW k \in 1..Len(x), NEW a \in 1..(x[k] - 1) PROVE \E l \in 1..(k - 1) : x[l] = a
  <2>1. k \in 1..Len(x \o y) /\ (x \o y)[k] = x[k]
    BY <1>1
  <2>2. PICK l \in 1..(k - 1) : (x \o y)[l] = a
    BY <2>1 DEF Covered
  <2>3. l \in 1..Len(x)
    BY <1>1
  <2> QED
    BY <1>1, <2>2, <2>3
<1> QED
  BY <1>2 DEF Covered

\* Alerts in order, behind all that are earlier than one of them.
LEMMA CoveredBatch ==
  ASSUME NEW x \in Seq(Alerts), NEW S \in SUBSET Alerts, Covered(x),
         \A p \in S : \A a \in 1..(p - 1) : a \in S \/ a \in Elements(x)
  PROVE  Covered(x \o InOrder(S))
<1>0. PICK b : b = InOrder(S)
  OBVIOUS
<1>1. b \in Seq(Alerts) /\ Elements(b) = S
  BY <1>0, InOrderTyped
<1>2. \A i, j \in 1..Len(b) : i < j => b[i] < b[j]
  BY <1>0, InOrderLists, AlertsFinite
<1>3. /\ Len(x) \in Nat /\ Len(b) \in Nat /\ Len(x \o b) = Len(x) + Len(b)
      /\ \A i \in 1..Len(x) : (x \o b)[i] = x[i]
      /\ \A i \in 1..Len(b) : (x \o b)[Len(x) + i] = b[i]
  BY <1>1, LenProperties
<1>4. /\ \A a \in Elements(x) : \E l \in 1..Len(x) : x[l] = a
      /\ \A a \in S : \E l \in 1..Len(b) : b[l] = a
      /\ \A j \in 1..Len(b) : b[j] \in S
  BY <1>1 DEF Elements, ToSet
<1>5. ASSUME NEW k \in 1..Len(x), NEW a \in 1..(x[k] - 1) PROVE \E l \in 1..(k - 1) : (x \o b)[l] = a
  <2>1. PICK l \in 1..(k - 1) : x[l] = a
    BY DEF Covered
  <2>2. l \in 1..Len(x)
    BY <1>3
  <2> QED
    BY <1>3, <2>1, <2>2
<1>6. ASSUME NEW j \in 1..Len(b), NEW a \in 1..(b[j] - 1)
      PROVE  \E l \in 1..(Len(x) + j - 1) : (x \o b)[l] = a
  <2>1. a \in S \/ a \in Elements(x)
    BY <1>4
  <2>2. CASE a \in Elements(x)
    <3>1. PICK l \in 1..Len(x) : x[l] = a
      BY <1>4, <2>2
    <3>2. l \in 1..(Len(x) + j - 1)
      BY <1>3
    <3> QED
      BY <1>3, <3>1, <3>2
  <2>3. CASE a \in S
    <3>1. PICK i \in 1..Len(b) : b[i] = a
      BY <1>4, <2>3
    <3>2. b[i] \in Nat /\ b[j] \in Nat
      BY <1>4, AlertsFinite
    <3>3. b[i] < b[j]
      BY <3>1, <3>2
    <3>4. i < j
      <4>1. ~ (j < i) /\ i # j
        BY <1>2, <3>2, <3>3
      <4> QED
        BY <1>3, <4>1
    <3>5. Len(x) + i \in 1..(Len(x) + j - 1)
      BY <1>3, <3>4
    <3> QED
      BY <1>3, <3>1, <3>5
  <2> QED
    BY <2>1, <2>2, <2>3
<1>7. ASSUME NEW k \in 1..Len(x \o b), NEW a \in 1..((x \o b)[k] - 1)
      PROVE  \E l \in 1..(k - 1) : (x \o b)[l] = a
  <2>1. CASE k \in 1..Len(x)
    BY <1>3, <1>5, <2>1
  <2>2. CASE k \notin 1..Len(x)
    <3>1. PICK j \in 1..Len(b) : k = Len(x) + j
      <4>1. k - Len(x) \in 1..Len(b) /\ k = Len(x) + (k - Len(x))
        BY <1>3, <2>2
      <4> QED
        BY <4>1
    <3>2. (x \o b)[k] = b[j]
      BY <1>3, <3>1
    <3>3. a \in 1..(b[j] - 1)
      BY <3>2
    <3>4. PICK l \in 1..(Len(x) + j - 1) : (x \o b)[l] = a
      BY <1>6, <3>3
    <3> QED
      BY <3>1, <3>4
  <2> QED
    BY <2>1, <2>2
<1> QED
  BY <1>0, <1>7 DEF Covered

\* What Given is made of, by what is sent, flushed and taken up.
LEMMA GivenParts ==
  ASSUME Typed
  PROVE  /\ shown \in Seq(Alerts) /\ queue \in Seq(Seq(Alerts)) /\ gate.held \in Seq(Seq(Alerts))
         /\ FlattenSeq(queue) \in Seq(Alerts) /\ FlattenSeq(gate.held) \in Seq(Alerts)
         /\ shown \o FlattenSeq(queue) \in Seq(Alerts)
         /\ Given = (shown \o FlattenSeq(queue)) \o FlattenSeq(gate.held)
         /\ Given \in Seq(Alerts)
         /\ Elements(shown) \subseteq Elements(Given)
<1>1. shown \in Seq(Alerts) /\ queue \in Seq(Seq(Alerts)) /\ gate.held \in Seq(Seq(Alerts))
  BY DEF Typed, TypeOK, GatesOf
<1>2. << >> \in Seq(Alerts)
  OBVIOUS
<1>3. FlattenSeq(queue) \in Seq(Alerts) /\ FlattenSeq(gate.held) \in Seq(Alerts)
  BY <1>1, <1>2, FlattenAppend
<1>4. shown \o FlattenSeq(queue) \in Seq(Alerts)
  BY <1>1, <1>3, ConcatProperties
<1>5. Given = (shown \o FlattenSeq(queue)) \o FlattenSeq(gate.held)
  BY DEF Given
<1>6. Given \in Seq(Alerts)
  BY <1>3, <1>4, <1>5, ConcatProperties
<1>7. Elements(shown) \subseteq Elements(Given)
  BY <1>1, <1>3, <1>4, <1>5, ElementsConcat
<1> QED
  BY <1>1, <1>3, <1>4, <1>5, <1>6, <1>7

LEMMA GivenSend ==
  ASSUME Typed, GateInv, NEW m \in Seq(Alerts), Send(m), shown' = shown
  PROVE  Given' = Given \o m
<1>0. /\ shown \in Seq(Alerts) /\ queue \in Seq(Seq(Alerts)) /\ gate.held \in Seq(Seq(Alerts))
      /\ FlattenSeq(queue) \in Seq(Alerts) /\ FlattenSeq(gate.held) \in Seq(Alerts)
      /\ shown \o FlattenSeq(queue) \in Seq(Alerts)
  BY GivenParts
<1>1. PICK x \in Seq(Alerts), f \in Seq(Alerts), y \in Seq(Alerts), h \in Seq(Alerts) :
         /\ x = shown /\ f = FlattenSeq(queue) /\ y = shown \o FlattenSeq(queue)
         /\ h = FlattenSeq(gate.held)
  BY <1>0
<1>2. Given = y \o h /\ y = x \o f
  BY <1>1 DEF Given
<1>3. Given' = (shown' \o FlattenSeq(queue')) \o FlattenSeq(gate'.held)
  BY DEF Given
<1>4. CASE IsClosed(gate)
  <2>1. gate' = Keep(gate, m) /\ queue' = queue
    BY <1>4 DEF Send
  <2>2. gate'.held = Append(gate.held, m)
    BY <2>1 DEF Keep, Typed, TypeOK, GatesOf
  <2>3. FlattenSeq(gate'.held) = h \o m
    BY <1>0, <1>1, <2>2, FlattenAppend
  <2>4. Given' = y \o (h \o m)
    BY <1>1, <1>3, <2>1, <2>3
  <2>5. (y \o h) \o m = y \o (h \o m)
    BY Regroup, SMTT(60)
  <2> QED
    BY <1>2, <2>4, <2>5
<1>5. CASE ~ IsClosed(gate)
  <2>1. gate' = gate /\ queue' = Append(queue, m) /\ gate.held = << >>
    BY <1>5 DEF Send, GateInv
  <2>2. h = << >>
    BY <1>1, <2>1, FlattenEmpty
  <2>3. FlattenSeq(queue') = f \o m
    BY <1>0, <1>1, <2>1, FlattenAppend
  <2>4. Given' = (x \o (f \o m)) \o << >>
    BY <1>1, <1>3, <2>1, <2>2, <2>3
  <2>5. x \o (f \o m) \in Seq(Alerts)
    BY ConcatProperties
  <2>6. (x \o (f \o m)) \o << >> = x \o (f \o m) /\ y \o << >> = y
    BY <2>5, ConcatEmptySeq
  <2>7. (x \o f) \o m = x \o (f \o m)
    BY Regroup, SMTT(60)
  <2>8. Given' = x \o (f \o m)
    BY <2>4, <2>6
  <2>9. Given = x \o f
    BY <1>2, <2>2, <2>6
  <2> QED
    BY <2>7, <2>8, <2>9
<1> QED
  BY <1>4, <1>5

LEMMA GivenFlush ==
  ASSUME Typed, Flush
  PROVE  Given' = Given
<1>0. /\ shown \in Seq(Alerts) /\ queue \in Seq(Seq(Alerts)) /\ gate.held \in Seq(Seq(Alerts))
      /\ FlattenSeq(queue) \in Seq(Alerts) /\ FlattenSeq(gate.held) \in Seq(Alerts)
      /\ shown \o FlattenSeq(queue) \in Seq(Alerts)
  BY GivenParts
<1>1. PICK x \in Seq(Alerts), f \in Seq(Alerts), h \in Seq(Alerts) :
         x = shown /\ f = FlattenSeq(queue) /\ h = FlattenSeq(gate.held)
  BY <1>0
<1>2. Given = (x \o f) \o h /\ Given' = (x \o FlattenSeq(queue')) \o FlattenSeq(gate'.held)
  BY <1>1 DEF Given, Flush, sessionVars
<1>3. PICK which \in gate.flushes :
        IF Flushes(gate, which)
        THEN queue' = queue \o gate.held /\ gate' = Flushed(Ran(gate, which))
        ELSE queue' = queue /\ gate' = Ran(gate, which)
  BY DEF Flush
<1>4. gate \in GatesOf(Seq(Alerts), Tokens)
  BY DEF Typed, TypeOK
<1>5. Ran(gate, which).held = gate.held /\ Flushed(Ran(gate, which)).held = << >>
  BY <1>4, GateFacts
<1>6. CASE Flushes(gate, which)
  <2>1. FlattenSeq(queue') = f \o h /\ FlattenSeq(gate'.held) = << >>
    BY <1>0, <1>1, <1>3, <1>5, <1>6, FlattenConcat, FlattenEmpty
  <2>2. x \o (f \o h) \in Seq(Alerts)
    BY ConcatProperties
  <2>3. (x \o (f \o h)) \o << >> = x \o (f \o h)
    BY <2>2, ConcatEmptySeq
  <2>4. (x \o f) \o h = x \o (f \o h)
    BY Regroup, SMTT(60)
  <2> QED
    BY <1>2, <2>1, <2>3, <2>4
<1>7. CASE ~ Flushes(gate, which)
  BY <1>1, <1>2, <1>3, <1>5, <1>7
<1> QED
  BY <1>6, <1>7

LEMMA GivenTurn ==
  ASSUME Typed, TurnStart
  PROVE  Given' = Given /\ Elements(shown') \subseteq Elements(Given)
<1>0. /\ shown \in Seq(Alerts) /\ FlattenSeq(queue) \in Seq(Alerts) /\ FlattenSeq(gate.held) \in Seq(Alerts)
      /\ shown \o FlattenSeq(queue) \in Seq(Alerts)
  BY GivenParts
<1>1. PICK y \in Seq(Alerts), h \in Seq(Alerts) :
         y = shown \o FlattenSeq(queue) /\ h = FlattenSeq(gate.held)
  BY <1>0
<1>2. Given = y \o h /\ Given' = (shown' \o FlattenSeq(queue')) \o FlattenSeq(gate'.held)
  BY <1>1 DEF Given
<1>3. shown' = y /\ queue' = << >> /\ gate' = gate
  BY <1>1 DEF TurnStart
<1>4. y \o << >> = y
  BY ConcatEmptySeq
<1>5. Elements(y) \subseteq Elements(y \o h)
  BY ElementsConcat
<1> QED
  BY <1>1, <1>2, <1>3, <1>4, <1>5, FlattenEmpty

\* What is left when the gate is reset, and when the process ends.
LEMMA GivenCut ==
  ASSUME Typed, Covered(Given), shown' = shown, gate'.held = << >>, queue' = queue \/ queue' = << >>
  PROVE  Covered(Given')
<1>0. /\ shown \in Seq(Alerts) /\ FlattenSeq(queue) \in Seq(Alerts) /\ FlattenSeq(gate.held) \in Seq(Alerts)
      /\ shown \o FlattenSeq(queue) \in Seq(Alerts)
      /\ Given = (shown \o FlattenSeq(queue)) \o FlattenSeq(gate.held)
  BY GivenParts
<1>1. PICK x \in Seq(Alerts), f \in Seq(Alerts), y \in Seq(Alerts), h \in Seq(Alerts) :
         x = shown /\ f = FlattenSeq(queue) /\ y = shown \o FlattenSeq(queue) /\ h = FlattenSeq(gate.held)
  BY <1>0
<1>2. Covered(y) /\ y = x \o f
  BY <1>0, <1>1, CoveredPrefix
<1>3. Covered(x)
  BY <1>2, CoveredPrefix
<1>4. y \o << >> = y /\ x \o << >> = x
  BY ConcatEmptySeq
<1>5. Given' = (x \o FlattenSeq(queue')) \o << >>
  BY <1>1, FlattenEmpty DEF Given
<1>6. Given' = y \/ Given' = x
  BY <1>1, <1>2, <1>4, <1>5, FlattenEmpty
<1> QED
  BY <1>2, <1>3, <1>6

\* Taking or ending a hold keeps what is held.
LEMMA GateHeld ==
  ASSUME NEW M, NEW g \in GatesOf(M, Tokens)
  PROVE  /\ Begin(g).held = g.held /\ End(g).held = g.held
         /\ \A token \in Tokens :
              BeginExternal(g, token).held = g.held /\ EndExternal(g, token).held = g.held
<1>1. ASSUME NEW h \in GatesOf(M, Tokens) PROVE ScheduleFlush(h).held = h.held
  BY DEF GatesOf, ScheduleFlush, Stale
<1>2. Begin(g).held = g.held
  BY DEF GatesOf, Begin, Stale
<1>3. End(g).held = g.held
  <2>1. [g EXCEPT !.compacting = FALSE] \in GatesOf(M, Tokens) /\ [g EXCEPT !.compacting = FALSE].held = g.held
    BY DEF GatesOf
  <2> QED
    BY <1>1, <2>1 DEF End
<1>4. ASSUME NEW token \in Tokens
      PROVE  BeginExternal(g, token).held = g.held /\ EndExternal(g, token).held = g.held
  <2>1. [g EXCEPT !.holds = @ \ {token}] \in GatesOf(M, Tokens) /\ [g EXCEPT !.holds = @ \ {token}].held = g.held
    BY DEF GatesOf
  <2>2. EndExternal(g, token).held = g.held
    BY <1>1, <2>1 DEF EndExternal
  <2>3. BeginExternal(g, token).held = g.held
    BY DEF BeginExternal, Stale, GatesOf
  <2> QED
    BY <2>2, <2>3
<1> QED
  BY <1>2, <1>3, <1>4

\* No scan is left when its engine is stopped; the engine of Tasks has none.
LEMMA StopsScans ==
  ASSUME NEW T \in SUBSET Awaited
  PROVE  /\ \A s \in EngineStop(T) \cup Orphaned(T) \cup SlotStop(T, "alert") : s.kind # "scan"
         /\ \A s \in SlotStop(T, "task") : s.kind = "scan" => s \in T
         /\ \A t \in T : t.kind = "scan" => t \in SlotStop(T, "task")
<1>1. \A s \in EngineStop(T) : s.kind # "scan"
  BY HaltedFrom
<1>2. \A s \in Orphaned(T) : s.kind # "scan"
  BY <1>1, OrphanedIs, StopsTyped, InvalidTask
<1>3. \A s \in SlotStop(T, "alert") : s.kind # "scan"
  <2> SUFFICES ASSUME NEW s \in SlotStop(T, "alert") PROVE s.kind # "scan"
    OBVIOUS
  <2>1. PICK u \in EngineStop(T) : s = Invalid(u, "alert")
    BY SlotStopIs
  <2>2. s.kind = u.kind
    BY <2>1, StopsTyped, InvalidTask
  <2> QED
    BY <1>1, <2>2
<1>4. \A t \in T : t.kind = "scan" => Invalid(t, "task") = t
  BY DEF Awaited, Placed, Invalid
<1>5. ASSUME NEW s \in SlotStop(T, "task"), s.kind = "scan" PROVE s \in T
  <2>1. PICK u \in T : s = Invalid(u, "task")
    BY SlotStopIs
  <2>2. s.kind = u.kind
    BY <2>1, InvalidTask
  <2> QED
    BY <1>4, <1>5, <2>1, <2>2
<1>6. \A t \in T : t.kind = "scan" => t \in SlotStop(T, "task")
  BY <1>4, SlotStopIs
<1> QED
  BY <1>1, <1>2, <1>3, <1>5, <1>6

\* Nothing is sent, and no scan goes on.
LEMMA OrderKept ==
  ASSUME Typed, OrderInv, Given' = Given,
         \A t \in tasks' : Carries(t) => t \in tasks,
         \A t \in tasks : Settles(t) => t \in tasks' \/ engine'.stopped,
         ~ engine'.stopped =>
           \/ engine'.attempted = {}
           \/ ~ engine.stopped /\ engine'.attempted \subseteq engine.attempted \cup Elements(Given)
  PROVE  OrderInv'
<1>1. PICK g : g = Given
  OBVIOUS
<1>2. Given' = g
  BY <1>1
<1>3. Covered(g) /\ \A t \in tasks' : Carries(t) => Covered(g \o t.batch)
  BY <1>1 DEF OrderInv
<1>4. ~ engine'.stopped =>
        \A a \in engine'.attempted :
          a \in Elements(g) \/ \E t \in tasks' : Settles(t) /\ a \in Elements(t.batch)
  BY <1>1 DEF OrderInv
<1> QED
  BY <1>2, <1>3, <1>4 DEF OrderInv

\* Everything stops or begins anew.
LEMMA OrderAnew ==
  ASSUME Covered(Given'), \A t \in tasks' : t.kind # "scan", engine'.stopped \/ engine'.attempted = {}
  PROVE  OrderInv'
BY DEF OrderInv, Carries

LEMMA GivenSame == ASSUME UNCHANGED <<shown, queue, gate>> PROVE Given' = Given
  BY DEF Given

LEMMA OrderFailed ==
  ASSUME Typed, OrderInv, NEW e \in Engines, NEW T \in SUBSET tasks, Failed(e, T),
         UNCHANGED <<shown, queue, gate>>,
         \A t \in tasks : t.kind = "scan" => t \in T \/ (e = "alert" /\ ~ slot[e].retry /\ ~ slot[e].terminal)
  PROVE  OrderInv'
<1>1. T \in SUBSET Awaited /\ Given' = Given
  BY GivenSame DEF Typed
<1>2. CASE slot[e].retry \/ slot[e].terminal
  <2>1. tasks' = T /\ engine' = engine
    BY <1>2 DEF Failed
  <2> QED
    BY <1>1, <1>2, <2>1, OrderKept DEF Settles
<1>3. CASE ~ slot[e].retry /\ ~ slot[e].terminal
  <2>1. tasks' = SlotStop(T, e) /\ engine' = IF e = "alert" THEN EngineStopped(engine) ELSE engine
    BY <1>3, FailedIs
  <2>2. CASE e = "alert"
    <3>1. engine'.stopped
      BY <2>1, <2>2 DEF EngineStopped, Typed, EngineType
    <3>2. \A s \in tasks' : s.kind # "scan"
      BY <1>1, <2>1, <2>2, StopsScans
    <3> QED
      BY <1>1, <3>1, <3>2, OrderKept DEF Carries
  <2>3. CASE e = "task"
    <3>1. engine' = engine /\ tasks' = SlotStop(T, "task")
      BY <2>1, <2>3
    <3>2. /\ \A s \in tasks' : s.kind = "scan" => s \in tasks
          /\ \A s \in tasks : s.kind = "scan" => s \in tasks'
      BY <1>1, <2>3, <3>1, StopsScans
    <3> QED
      BY <1>1, <3>1, <3>2, OrderKept DEF Carries, Settles
  <2> QED
    BY <2>2, <2>3 DEF Engines
<1> QED
  BY <1>2, <1>3

\* The engine stops itself, or is replaced.
LEMMA OrderSelfStop ==
  ASSUME Typed, OrderInv, SelfStop, UNCHANGED <<shown, queue, gate>>
  PROVE  OrderInv'
<1>1. engine'.stopped /\ tasks' = EngineStop(tasks) /\ tasks \in SUBSET Awaited
  BY DEF SelfStop, EngineStopped, Typed, EngineType
<1>2. \A s \in tasks' : s.kind # "scan"
  BY <1>1, StopsScans
<1> QED
  BY <1>1, <1>2, GivenSame, OrderKept DEF Carries

LEMMA OrderDeactivated ==
  ASSUME Typed, NEW T \in SUBSET tasks, Deactivated(T), Covered(Given')
  PROVE  OrderInv'
<1>1. engine'.stopped /\ tasks' = Orphaned(T) /\ T \in SUBSET Awaited
  BY DEF Deactivated, EngineStopped, Typed, EngineType
<1>2. \A s \in tasks' : s.kind # "scan"
  BY <1>1, StopsScans
<1> QED
  BY <1>1, <1>2, OrderAnew

\* What the engine takes as shown or acknowledged is given.
LEMMA ShownIsGiven ==
  ASSUME Typed, ShownInv
  PROVE  /\ read \subseteq Elements(Given) /\ engine.acks \subseteq Elements(Given)
         /\ engine.shown \subseteq Elements(Given) /\ Elements(shown) \subseteq Elements(Given)
<1>1. Elements(shown) \subseteq Elements(Given)
  BY GivenParts
<1>2. /\ acks \subseteq Elements(shown) /\ read \subseteq acks
      /\ engine.shown \subseteq Elements(shown) /\ engine.acks \subseteq acks
  BY DEF ShownInv, ReadWasShown
<1> QED
  BY <1>1, <1>2

LEMMA OrderPolls ==
  ASSUME Typed, GateInv, ShownInv, OrderInv, NEW t \in tasks, t.kind = "start", ~ engine.stopped,
         StartPolls(t, engine), shown' = shown
  PROVE  OrderInv'
<1>1. Given' = Given
  <2>1. CASE engine.shown \ engine.acks # {}
    <3>1. Resume \in Seq(Alerts) /\ Resume = << >>
      BY DEF Resume
    <3>2. Send(Resume)
      BY <2>1 DEF StartPolls
    <3>3. Given' = Given \o Resume /\ Given \in Seq(Alerts)
      BY <3>1, <3>2, GivenSend, GivenParts
    <3> QED
      BY <3>1, <3>3, ConcatEmptySeq
  <2>2. CASE ~ (engine.shown \ engine.acks # {})
    <3>1. UNCHANGED <<shown, queue, gate>>
      BY <2>2 DEF StartPolls
    <3> QED
      BY <3>1, GivenSame
  <2> QED
    BY <2>1, <2>2
<1>2. engine'.attempted = engine.attempted \cup engine.shown \cup engine.acks
  BY DEF StartPolls, Polling, Typed, EngineType
<1>3. engine'.attempted \subseteq engine.attempted \cup Elements(Given)
  BY <1>2, ShownIsGiven
<1>4. ASSUME NEW s \in tasks' PROVE Carries(s) => s \in tasks
  <2>1. s \in tasks \/ s = [t EXCEPT !.at = "scan"] \/ s = Task("scan", "alert", "bind", << >>)
    BY DEF StartPolls
  <2>2. [t EXCEPT !.at = "scan"].kind = "start" /\ Task("scan", "alert", "bind", << >>).at = "bind"
    BY DEF Typed, Awaited, TaskType, Task
  <2> QED
    BY <2>1, <2>2 DEF Carries
<1>5. \A s \in tasks : Settles(s) => s \in tasks'
  BY DEF StartPolls, Settles
<1> QED
  BY <1>1, <1>3, <1>4, <1>5, OrderKept

LEMMA OrderStarts ==
  ASSUME Typed, GateInv, ShownInv, SlotsInv, OrderInv, NEW t \in tasks, StartsGo(t)
  PROVE  OrderInv'
<1> USE DEF teamVars, sessionVars, lifecycleVars
<1>0. /\ t \in TaskType /\ TaskInv(t) /\ engine \in EngineType /\ t.kind = "start"
      /\ \A at, b : /\ [t EXCEPT !.at = at].kind = "start"
                    /\ [t EXCEPT !.at = at, !.batch = b].kind = "start"
      /\ UNCHANGED shown
  BY DEF SlotsInv, Typed, Awaited, TaskType, StartsGo, StartBind, StartMark, StartReturns,
         StartTaskEngine, TaskEngineStarted, RetryChecked, StartFails
<1>m. ASSUME NEW u, tasks' = tasks \ {t} \/ (tasks' = (tasks \ {t}) \cup {u} /\ u.kind = "start"),
             engine'.stopped = engine.stopped,
             engine'.attempted \subseteq engine.attempted \cup Elements(Given),
             UNCHANGED <<queue, gate>>
      PROVE  OrderInv'
  <2>1. /\ \A s \in tasks' : Carries(s) => s \in tasks
        /\ \A s \in tasks : Settles(s) => s \in tasks'
    BY <1>0, <1>m DEF Carries, Settles
  <2> QED
    BY <1>0, <1>m, <2>1, GivenSame, OrderKept
<1>1. CASE StartBind(t)
  <2>1. CASE ~ current
    BY <1>0, <1>1, <2>1, OrderSelfStop DEF StartBind, SelfStop
  <2>2. CASE current /\ engine.acks # {}
    <3>1. PICK u : u = [t EXCEPT !.at = "mark", !.batch = InOrder(engine.acks)]
      OBVIOUS
    <3>2. /\ tasks' = (tasks \ {t}) \cup {u} /\ u.kind = "start" /\ UNCHANGED <<queue, gate>>
          /\ engine' = [engine EXCEPT !.acknowledged = engine.acks, !.attempted = @ \cup engine.acks]
      BY <1>0, <1>1, <2>2, <3>1 DEF StartBind
    <3>3. engine'.stopped = engine.stopped /\ engine'.attempted = engine.attempted \cup engine.acks
      BY <1>0, <3>2 DEF EngineType
    <3> QED
      BY <1>m, <3>2, <3>3, ShownIsGiven
  <2>3. CASE current /\ engine.acks = {}
    <3>1. ~ engine.stopped /\ StartPolls(t, engine)
      BY <1>0, <1>1, <2>3 DEF StartBind, TaskInv
    <3> QED
      BY <1>0, <3>1, OrderPolls
  <2> QED
    BY <2>1, <2>2, <2>3
<1>2. CASE StartMark(t)
  <2>1. CASE t.live
    <3>1. ~ engine.stopped /\ StartPolls(t, engine)
      BY <1>0, <1>2, <2>1 DEF StartMark, TaskInv
    <3> QED
      BY <1>0, <3>1, OrderPolls
  <2>2. CASE ~ t.live
    BY <1>0, <1>2, <1>m, <2>2 DEF StartMark, StartGoes
  <2> QED
    BY <2>1, <2>2
<1>3. CASE StartReturns(t)
  BY <1>3, <1>m DEF StartReturns
<1>4. CASE StartTaskEngine(t)
  BY <1>0, <1>4, <1>m DEF StartTaskEngine
<1>5. CASE TaskEngineStarted(t)
  BY <1>0, <1>5, <1>m DEF TaskEngineStarted
<1>6. CASE RetryChecked(t)
  <2>0. tasks \ {t} \in SUBSET tasks /\ tasks \ {t} \in SUBSET Awaited /\ UNCHANGED <<shown, queue, gate>>
    BY <1>0, <1>6 DEF RetryChecked, Typed
  <2>1. CASE ~ t.mine
    BY <1>6, <1>m, <2>1 DEF RetryChecked
  <2>2. CASE t.mine /\ ~ current
    <3>1. Deactivated(tasks \ {t})
      BY <1>6, <2>2 DEF RetryChecked
    <3>2. Covered(Given')
      BY <2>0, GivenSame DEF OrderInv
    <3> QED
      BY <2>0, <3>1, <3>2, OrderDeactivated
  <2>3. CASE t.mine /\ current /\ t.engine = "task"
    BY <1>0, <1>6, <1>m, <2>3 DEF RetryChecked
  <2>4. CASE t.mine /\ current /\ t.engine # "task"
    <3>1. tasks' = EngineStop(tasks \ {t}) \cup {[t EXCEPT !.at = "bind"]} /\ engine' = EngineBegun
      BY <1>6, <2>4 DEF RetryChecked
    <3>2. \A s \in tasks' : s.kind # "scan"
      BY <1>0, <2>0, <3>1, StopsScans
    <3>3. engine'.attempted = {}
      BY <3>1 DEF EngineBegun, StoppedEngine
    <3>4. Covered(Given')
      BY <2>0, GivenSame DEF OrderInv
    <3> QED
      BY <3>2, <3>3, <3>4, OrderAnew
  <2> QED
    BY <2>1, <2>2, <2>3, <2>4
<1>7. CASE StartFails(t)
  <2>1. CASE t.mine /\ t.valid
    <3>1. Failed(t.engine, tasks \ {t}) /\ UNCHANGED <<queue, gate>> /\ tasks \ {t} \in SUBSET tasks
      BY <1>7, <2>1 DEF StartFails
    <3>2. (\A s \in tasks : s.kind = "scan" => s \in tasks \ {t}) /\ t.engine \in Engines
      BY <1>0 DEF TaskType
    <3> QED
      BY <1>0, <3>1, <3>2, OrderFailed
  <2>2. CASE ~ (t.mine /\ t.valid)
    BY <1>7, <1>m, <2>2 DEF StartFails
  <2> QED
    BY <2>1, <2>2
<1> QED
  BY <1>1, <1>2, <1>3, <1>4, <1>5, <1>6, <1>7 DEF StartsGo

\* The pass of the only scan is over: its batch was sent, or is empty.
LEMMA OrderScanOver ==
  ASSUME Typed, SlotsInv, OrderInv, NEW t \in Scans, NEW eng \in EngineType, ScanOver(t, eng),
         Covered(Given'),
         \A a \in eng.attempted : a \in Elements(Given')
  PROVE  OrderInv'
<1>1. \A s \in tasks : s.kind = "scan" => s = t
  BY DEF SlotsInv, Scans
<1>2. engine'.attempted = eng.attempted
  BY DEF ScanOver, EngineType
<1>3. ASSUME NEW s \in tasks' PROVE ~ Carries(s)
  <2>1. CASE eng.rescan
    <3>1. s \in tasks \ {t} \/ s = Task("scan", "alert", "bind", << >>)
      BY <2>1 DEF ScanOver
    <3>2. Task("scan", "alert", "bind", << >>).at = "bind"
      BY DEF Task
    <3> QED
      BY <1>1, <3>1, <3>2 DEF Carries
  <2>2. CASE ~ eng.rescan
    <3>1. PICK r \in tasks \ {t} : s = IF r.at = "scan" THEN [r EXCEPT !.at = "return"] ELSE r
      BY <2>2 DEF ScanOver
    <3>2. s.kind = r.kind
      BY <3>1 DEF Typed, Awaited, TaskType
    <3> QED
      BY <1>1, <3>1, <3>2 DEF Carries
  <2> QED
    BY <2>1, <2>2
<1> QED
  BY <1>2, <1>3 DEF OrderInv

LEMMA OrderScans ==
  ASSUME Typed, GateInv, ShownInv, SlotsInv, OrderInv, NEW t \in tasks, ScansGo(t)
  PROVE  OrderInv'
<1> USE DEF teamVars, sessionVars, lifecycleVars
<1>0. /\ t \in TaskType /\ TaskInv(t) /\ engine \in EngineType /\ t.kind = "scan" /\ t \in Scans
      /\ t.batch \in Seq(Alerts) /\ ~ engine.stopped /\ UNCHANGED shown
      /\ \A s \in tasks : s.kind = "scan" => s = t
  BY DEF SlotsInv, Typed, Awaited, TaskType, ScansGo, ScanBind, ScanRead, ScanRecheck, ScanSettled,
         ScanFails, TaskInv, Scans
<1>g. Given \in Seq(Alerts)
  BY GivenParts
<1>s. t.at # "settle" => \A a \in engine.attempted : a \in Elements(Given)
  BY <1>0 DEF OrderInv, Settles
<1>a. Attempting(t) \in EngineType /\ Attempting(t).attempted = engine.attempted \cup Elements(t.batch)
  BY <1>0, ElementsTyped DEF Attempting, EngineType
<1>b. ASSUME Send(t.batch), Carries(t)
      PROVE  /\ Given' = Given \o t.batch /\ Covered(Given')
             /\ Elements(Given) \subseteq Elements(Given') /\ Elements(t.batch) \subseteq Elements(Given')
  <2>1. PICK g \in Seq(Alerts), b \in Seq(Alerts) : g = Given /\ b = t.batch
    BY <1>0, <1>g
  <2>2. Given' = g \o b
    BY <1>0, <1>b, <2>1, GivenSend
  <2>3. Covered(g \o b)
    BY <1>b, <2>1 DEF OrderInv
  <2>4. Elements(g) \subseteq Elements(g \o b) /\ Elements(b) \subseteq Elements(g \o b)
    BY ElementsConcat
  <2> QED
    BY <2>1, <2>2, <2>3, <2>4
<1>1. CASE ScanBind(t)
  <2>1. CASE current
    <3>1. /\ tasks' = (tasks \ {t}) \cup {[t EXCEPT !.at = "read"]} /\ engine' = engine
          /\ UNCHANGED <<queue, gate>> /\ t.at = "bind"
      BY <1>1, <2>1 DEF ScanBind
    <3>2. [t EXCEPT !.at = "read"].at = "read"
      BY <1>0 DEF TaskType
    <3>3. (\A s \in tasks' : Carries(s) => s \in tasks) /\ (\A s \in tasks : Settles(s) => s \in tasks')
      BY <3>1, <3>2 DEF Carries, Settles
    <3> QED
      BY <1>0, <3>1, <3>3, GivenSame, OrderKept
  <2>2. CASE ~ current
    BY <1>0, <1>1, <2>2, OrderSelfStop DEF ScanBind
  <2> QED
    BY <2>1, <2>2
<1>2. CASE ScanRead(t)
  <2>0. t.at = "read" /\ UNCHANGED <<queue, gate>> /\ Given' = Given
    BY <1>0, <1>2, GivenSame DEF ScanRead
  <2>1. CASE Pending = << >>
    <3>1. ScanOver(t, engine)
      BY <1>2, <2>1 DEF ScanRead
    <3>2. PICK g : g = Given
      OBVIOUS
    <3>3. Given' = g /\ Covered(g) /\ \A a \in engine.attempted : a \in Elements(g)
      BY <1>s, <2>0, <3>2 DEF OrderInv
    <3>4. Covered(Given') /\ \A a \in engine.attempted : a \in Elements(Given')
      BY <3>3
    <3> QED
      BY <1>0, <3>1, <3>4, OrderScanOver
  <2>2. CASE Pending # << >>
    <3> DEFINE S == (1..accepted) \ (read \cup engine.attempted)
    <3>1. S \in SUBSET Alerts /\ accepted \in Nat
      BY ConstantsAssumption DEF Typed, TypeOK, Alerts
    <3>2. \A p \in S : \A a \in 1..(p - 1) : a \in S \/ a \in Elements(Given)
      <4> SUFFICES ASSUME NEW p \in S, NEW a \in 1..(p - 1), a \notin S PROVE a \in Elements(Given)
        OBVIOUS
      <4>1. a \in 1..accepted
        BY <3>1
      <4>2. a \in read \cup engine.attempted
        BY <4>1
      <4> QED
        BY <1>s, <2>0, <4>2, ShownIsGiven
    <3>3. PICK b \in Seq(Alerts) : b = Pending
      <4>1. Pending \in Seq(Alerts)
        BY <3>1, InOrderTyped DEF Pending
      <4> QED
        BY <4>1
    <3>4. b = InOrder(S)
      BY <3>3 DEF Pending
    <3>5. PICK g \in Seq(Alerts) : g = Given
      BY <1>g
    <3> HIDE DEF S
    <3>6. Covered(g \o b)
      <4>1. Covered(g)
        BY <3>5 DEF OrderInv
      <4> QED
        BY <3>1, <3>2, <3>4, <3>5, <4>1, CoveredBatch
    <3>7. PICK u : u = [t EXCEPT !.at = "recheck", !.batch = b]
      OBVIOUS
    <3>8. u.kind = "scan" /\ u.at = "recheck" /\ u.batch = b
      BY <1>0, <3>7 DEF TaskType
    <3>9. tasks' = (tasks \ {t}) \cup {u} /\ engine' = engine
      BY <1>2, <2>2, <3>3, <3>7 DEF ScanRead
    <3>10. Covered(g) /\ \A s \in tasks' : Carries(s) => Covered(g \o s.batch)
      BY <1>0, <3>5, <3>6, <3>8, <3>9 DEF OrderInv
    <3>11. \A a \in engine'.attempted : a \in Elements(g)
      BY <1>s, <2>0, <3>5, <3>9
    <3>12. Given' = g
      BY <2>0, <3>5
    <3> QED
      BY <3>10, <3>11, <3>12 DEF OrderInv
  <2> QED
    BY <2>1, <2>2
<1>3. CASE ScanRecheck(t)
  <2>0. t.at = "recheck" /\ Carries(t)
    BY <1>0, <1>3 DEF ScanRecheck, Carries
  <2>1. CASE ~ current
    BY <1>0, <1>3, <2>1, OrderSelfStop DEF ScanRecheck
  <2>2. CASE current /\ Elements(t.batch) \cap Interrupting # {}
    <3>1. PICK u : u = [t EXCEPT !.at = "settle"]
      OBVIOUS
    <3>2. u.kind = "scan" /\ u.at = "settle" /\ u.batch = t.batch
      BY <1>0, <3>1 DEF TaskType
    <3>3. engine' = Attempting(t) /\ tasks' = (tasks \ {t}) \cup {u} /\ UNCHANGED <<queue, gate>>
      BY <1>3, <2>2, <3>1 DEF ScanRecheck
    <3>4. PICK g : g = Given
      OBVIOUS
    <3>5. Given' = g
      BY <1>0, <3>3, <3>4, GivenSame
    <3>6. Covered(g) /\ \A s \in tasks' : Carries(s) => Covered(g \o s.batch)
      BY <1>0, <2>0, <3>2, <3>3, <3>4 DEF OrderInv
    <3>7. \A a \in engine'.attempted :
            a \in Elements(g) \/ \E s \in tasks' : Settles(s) /\ a \in Elements(s.batch)
      <4>1. u \in tasks' /\ Settles(u)
        BY <3>2, <3>3 DEF Settles
      <4> QED
        BY <1>a, <1>s, <2>0, <3>2, <3>3, <3>4, <4>1
    <3> QED
      BY <3>5, <3>6, <3>7 DEF OrderInv
  <2>3. CASE current /\ ~ (Elements(t.batch) \cap Interrupting # {})
    <3>1. ScanOver(t, Attempting(t)) /\ Send(t.batch)
      BY <1>3, <2>3 DEF ScanRecheck
    <3>2. /\ Covered(Given')
          /\ Elements(Given) \subseteq Elements(Given') /\ Elements(t.batch) \subseteq Elements(Given')
      BY <1>b, <2>0, <3>1
    <3>3. \A a \in Attempting(t).attempted : a \in Elements(Given')
      BY <1>a, <1>s, <2>0, <3>2
    <3> QED
      BY <1>0, <1>a, <3>1, <3>2, <3>3, OrderScanOver
  <2> QED
    BY <2>1, <2>2, <2>3
<1>4. CASE ScanSettled(t)
  <2>1. t.at = "settle" /\ Carries(t) /\ ScanOver(t, engine) /\ Send(t.batch)
    BY <1>0, <1>4 DEF ScanSettled, Carries
  <2>2. /\ Covered(Given')
        /\ Elements(Given) \subseteq Elements(Given') /\ Elements(t.batch) \subseteq Elements(Given')
    BY <1>b, <2>1
  <2>3. \A a \in engine.attempted : a \in Elements(Given) \/ a \in Elements(t.batch)
    BY <1>0 DEF OrderInv, Settles
  <2>4. \A a \in engine.attempted : a \in Elements(Given')
    BY <2>2, <2>3
  <2> QED
    BY <1>0, <2>1, <2>2, <2>4, OrderScanOver
<1>5. CASE ScanFails(t)
  <2> DEFINE T == {s \in tasks \ {t} : s.at # "scan"}
  <2>1. Failed("alert", T) /\ UNCHANGED <<queue, gate>> /\ T \in SUBSET tasks /\ "alert" \in Engines
    BY <1>5 DEF ScanFails, Engines
  <2>2. ~ slot["alert"].retry /\ ~ slot["alert"].terminal
    BY <1>0, SlotsFacts DEF TaskInv
  <2> HIDE DEF T
  <2> QED
    BY <1>0, <2>1, <2>2, OrderFailed
<1> QED
  BY <1>1, <1>2, <1>3, <1>4, <1>5 DEF ScansGo

LEMMA OrderCommits ==
  ASSUME Typed, ShownInv, OrderInv, NEW t \in tasks, CommitsGo(t)
  PROVE  OrderInv'
<1> USE DEF teamVars, sessionVars, lifecycleVars
<1>0. /\ t \in TaskType /\ engine \in EngineType /\ t.kind = "commit" /\ UNCHANGED <<shown, queue, gate>>
      /\ Given' = Given
  BY GivenSame DEF Typed, Awaited, CommitsGo, CommitBind, CommitMark, CommitFails
<1>m. ASSUME NEW u, tasks' = tasks \ {t} \/ (tasks' = (tasks \ {t}) \cup {u} /\ u.kind = "commit"),
             engine'.stopped = engine.stopped, engine'.attempted = engine.attempted
      PROVE  OrderInv'
  <2>1. /\ \A s \in tasks' : Carries(s) => s \in tasks
        /\ \A s \in tasks : Settles(s) => s \in tasks'
    BY <1>0, <1>m DEF Carries, Settles
  <2> QED
    BY <1>0, <1>m, <2>1, OrderKept
<1>1. CASE CommitBind(t)
  <2>1. CASE ~ current
    BY <1>0, <1>1, <2>1, OrderSelfStop DEF CommitBind
  <2>2. CASE current /\ tasks' = tasks \ {t} /\ engine' = engine
    BY <1>m, <2>2
  <2>3. CASE current /\ ~ (tasks' = tasks \ {t} /\ engine' = engine)
    <3>1. PICK b : /\ tasks' = (tasks \ {t}) \cup {[t EXCEPT !.at = "mark", !.batch = b]}
                   /\ \E ids : engine' = [engine EXCEPT !.acknowledged = @ \cup ids]
      BY <1>1, <2>3 DEF CommitBind
    <3>2. [t EXCEPT !.at = "mark", !.batch = b].kind = "commit"
      BY <1>0 DEF TaskType
    <3>3. engine'.stopped = engine.stopped /\ engine'.attempted = engine.attempted
      BY <1>0, <3>1 DEF EngineType
    <3> QED
      BY <1>m, <3>1, <3>2, <3>3
  <2> QED
    BY <2>1, <2>2, <2>3
<1>2. CASE CommitMark(t)
  <2>1. tasks' = tasks \ {t} /\ engine'.stopped = engine.stopped /\ engine'.attempted = engine.attempted
    BY <1>0, <1>2 DEF CommitMark, EngineType
  <2> QED
    BY <1>m, <2>1
<1>3. CASE CommitFails(t)
  <2>1. CASE t.valid /\ t.mine
    <3>1. Failed("alert", tasks \ {t}) /\ tasks \ {t} \in SUBSET tasks /\ "alert" \in Engines
      BY <1>3, <2>1 DEF CommitFails, Engines
    <3>2. \A s \in tasks : s.kind = "scan" => s \in tasks \ {t}
      BY <1>0
    <3> QED
      BY <1>0, <3>1, <3>2, OrderFailed
  <2>2. CASE ~ (t.valid /\ t.mine)
    BY <1>3, <1>m, <2>2 DEF CommitFails
  <2> QED
    BY <2>1, <2>2
<1> QED
  BY <1>1, <1>2, <1>3 DEF CommitsGo

LEMMA OrderOthers ==
  ASSUME Typed, ShownInv, SlotsInv, OrderInv, OthersGo
  PROVE  OrderInv'
<1> USE DEF teamVars, sessionVars, lifecycleVars
<1>0. engine \in EngineType
  BY DEF Typed
<1>m. ASSUME NEW n, tasks' = tasks \/ (tasks' = tasks \cup {n} /\ ~ Carries(n)), Given' = Given,
             engine'.stopped = engine.stopped,
             engine'.attempted \subseteq engine.attempted \cup Elements(Given)
      PROVE  OrderInv'
  BY <1>m, OrderKept
<1>n. \A k, e, at : at \in {"bind", "check"} => ~ Carries(Task(k, e, at, << >>))
  BY DEF Task, Carries
<1>1. CASE Poll
  <2>1. engine'.stopped = engine.stopped /\ engine'.attempted = engine.attempted
    BY <1>0, <1>1 DEF Poll, EngineType
  <2>2. Given' = Given
    BY <1>1, GivenSame DEF Poll
  <2> QED
    BY <1>1, <1>m, <1>n, <2>1, <2>2 DEF Poll
<1>2. CASE Flush
  BY <1>2, <1>m, GivenFlush DEF Flush
<1>3. ASSUME NEW e \in Engines, Retry(e) PROVE OrderInv'
  BY <1>3, <1>m, <1>n, GivenSame DEF Retry
<1>4. CASE TaskScanFails
  BY <1>4, OrderFailed DEF TaskScanFails, Engines
<1>5. CASE TurnStart
  <2>1. Given' = Given /\ Elements(shown') \subseteq Elements(Given)
    BY <1>5, GivenTurn
  <2>2. engine'.stopped = engine.stopped /\ engine'.attempted \subseteq engine.attempted \cup Elements(shown')
    <3>1. PICK c : c = Elements(shown')
      OBVIOUS
    <3>2. ObserveContext(c)
      BY <1>5, <3>1 DEF TurnStart
    <3>3. engine'.stopped = engine.stopped /\ engine'.attempted \subseteq engine.attempted \cup c
      BY <1>0, <3>2 DEF ObserveContext, EngineType
    <3> QED
      BY <3>1, <3>3
  <2>3. engine'.attempted \subseteq engine.attempted \cup Elements(Given) /\ tasks' = tasks
    BY <1>5, <2>1, <2>2 DEF TurnStart
  <2> QED
    BY <1>m, <2>1, <2>2, <2>3
<1>6. CASE TurnEnd
  BY <1>6, <1>m, <1>n, GivenSame DEF TurnEnd
<1> QED
  BY <1>1, <1>2, <1>3, <1>4, <1>5, <1>6 DEF OthersGo

LEMMA OrderSession ==
  ASSUME Typed, SlotsInv, OrderInv, SessionGoes
  PROVE  OrderInv'
<1> USE DEF teamVars, sessionVars, lifecycleVars, piOnly
<1>g. /\ gate \in GatesOf(Seq(Alerts), Tokens)
      /\ Begin(gate).held = gate.held /\ End(gate).held = gate.held
      /\ Reset(gate).held = << >> /\ NewGate.held = << >>
      /\ \A token \in Tokens : /\ BeginExternal(gate, token).held = gate.held
                               /\ EndExternal(gate, token).held = gate.held
  <2>1. gate \in GatesOf(Seq(Alerts), Tokens)
    BY DEF Typed, TypeOK
  <2> QED
    BY <2>1, GateFacts, GateHeld
<1>c. Covered(Given)
  BY DEF OrderInv
<1>1. CASE SessionStart
  <2>1. ~ active
    BY <1>1 DEF SessionStart, SlotsInv
  <2>2. \A s \in tasks : s.kind # "scan"
    BY <2>1 DEF SlotsInv, TaskInv
  <2>3. /\ [Task("start", "alert", "bind", << >>) EXCEPT !.first = TRUE].kind = "start"
        /\ Task("start", "task", "wait", << >>).kind = "start"
    BY DEF Task
  <2>4. \A s \in tasks' : s.kind # "scan"
    BY <1>1, <2>2, <2>3 DEF SessionStart
  <2>5. engine'.attempted = {}
    BY <1>1 DEF SessionStart, EngineBegun, StoppedEngine
  <2>6. Covered(Given')
    BY <1>1, <1>c, <1>g, GivenCut DEF SessionStart
  <2> QED
    BY <2>4, <2>5, <2>6, OrderAnew
<1>2. CASE SessionShutdown
  <2>1. Covered(Given')
    BY <1>2, <1>c, <1>g, GivenCut DEF SessionShutdown
  <2> QED
    BY <1>2, <2>1, OrderDeactivated DEF SessionShutdown
<1>3. CASE Crash
  <2>1. Covered(Given')
    BY <1>3, <1>c, <1>g, GivenCut DEF Crash
  <2>2. engine'.stopped /\ tasks' = {}
    BY <1>3 DEF Crash, StoppedEngine
  <2> QED
    BY <2>1, <2>2, OrderAnew
<1>4. CASE UNCHANGED <<tasks, engine, shown, queue>> /\ gate'.held = gate.held
  <2>1. Given' = Given
    BY <1>4 DEF Given
  <2> QED
    BY <1>4, <2>1, OrderKept
<1>5. \/ SessionStart \/ SessionShutdown \/ Crash
      \/ UNCHANGED <<tasks, engine, shown, queue>> /\ gate'.held = gate.held
  BY <1>g DEF SessionGoes, CompactStart, CompactEnd, CompactCleared, CompactUntold, HoldLimit, HoldBegin,
         HoldEnd, Accept, Unbind
<1> QED
  BY <1>1, <1>2, <1>3, <1>4, <1>5

LEMMA OrderStep ==
  Typed /\ GateInv /\ ShownInv /\ SlotsInv /\ OrderInv /\ [Next]_vars => OrderInv'
<1> SUFFICES ASSUME Typed, GateInv, ShownInv, SlotsInv, OrderInv, [Next]_vars PROVE OrderInv'
  OBVIOUS
<1>1. CASE UNCHANGED vars
  <2>1. UNCHANGED <<tasks, engine, shown, queue, gate>>
    BY <1>1 DEF vars
  <2> QED
    BY <2>1, GivenSame, OrderKept
<1>2. CASE Next
  BY <1>2, NextIs, OrderStarts, OrderScans, OrderCommits, OrderOthers, OrderSession
<1> QED
  BY <1>1, <1>2

\* Whatever fails, restarts, is held back or interrupted, an Alert never comes
\* into the conversation before one that the inbox accepted earlier (scanOnce,
\* start, sink).
THEOREM AlertsComeInOrder == Spec => []NoAlertIsPassedOver
<1>1. Init => OrderInv
  <2> SUFFICES ASSUME Init PROVE OrderInv
    OBVIOUS
  <2>1. << >> \in Seq(Alerts) /\ << >> \o << >> = << >> /\ Len(<< >>) = 0
    BY ConcatEmptySeq
  <2>2. Given = << >>
    BY <2>1, FlattenEmpty DEF Init, Given, NewGate
  <2>3. Covered(Given)
    BY <2>1, <2>2 DEF Covered
  <2> QED
    BY <2>3 DEF Init, OrderInv, StoppedEngine
<1>2. Typed /\ OrderInv => NoAlertIsPassedOver
  <2> SUFFICES ASSUME Typed, OrderInv PROVE NoAlertIsPassedOver
    OBVIOUS
  <2>1. PICK g \in Seq(Alerts) : g = Given
    BY GivenParts
  <2>2. DOMAIN g = 1..Len(g) /\ Covered(g)
    BY <2>1, LenProperties DEF OrderInv
  <2> QED
    BY <2>1, <2>2 DEF NoAlertIsPassedOver, Covered
<1> QED
  BY <1>1, <1>2, OrderStep, TypeHolds, GateHolds, ShownHolds, SlotsHold, PTL DEF Spec
=============================================================================
