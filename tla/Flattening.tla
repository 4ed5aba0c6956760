----------------------------- MODULE Flattening -----------------------------
(***************************************************************************)
(* What FlattenSeq makes of a sequence of sequences, whatever their number *)
(* and their length: the catalog flattens the batches, and the commands of *)
(* the ports in a bundle.                                                  *)
(*                                                                         *)
(* FlattenSeq is defined by a recursive function, so that each fact is     *)
(* proved by induction.  The induction is over a set, not over a           *)
(* predicate: a set of natural numbers that is not empty has a least       *)
(* element, and no number can be the least one for which the fact fails.   *)
(***************************************************************************)
EXTENDS Integers, FiniteSetTheorems, SequencesExt, TLAPS

(* A set of naturals that is not empty has a least element: the intervals up *)
(* to its elements are finite sets, and one of them has no other below it.   *)
LEMMA LeastOfNat ==
    ASSUME NEW T, T \subseteq Nat, T # {}
    PROVE  \E n \in T : \A m \in T : n <= m
  <1> DEFINE Belows == {0..n : n \in T}
             R == StrictSubsetOrdering(Nat)
             F == FiniteSubsetsOf(Nat)
  <1>1. IsWellFoundedOn(R, F)
    BY FS_StrictSubsetOrderingWellFounded
  <1>2. Belows \subseteq F
    <2> SUFFICES ASSUME NEW n \in T PROVE 0..n \in F
      OBVIOUS
    <2>1. IsFiniteSet(0..n)
      BY FS_Interval
    <2> QED BY <2>1 DEF FiniteSubsetsOf
  <1>3. Belows # {}
    OBVIOUS
  <1>4. \E x \in Belows : \A y \in Belows : ~(<<y, x>> \in R)
    <2> HIDE DEF R, F, Belows
    <2> QED BY <1>1, <1>2, <1>3, WFMin
  <1>5. PICK n \in T : \A y \in Belows : ~(<<y, 0..n>> \in R)
    BY <1>4
  <1>6. ASSUME NEW m \in T, m < n PROVE FALSE
    <2>1. 0..m \subseteq 0..n /\ n \in 0..n /\ n \notin 0..m
      BY <1>6
    <2>2. 0..m \subseteq Nat /\ 0..n \subseteq Nat /\ 0..m # 0..n
      BY <2>1
    <2>3. <<0..m, 0..n>> \in R
      BY <2>1, <2>2 DEF StrictSubsetOrdering
    <2>4. 0..m \in Belows
      OBVIOUS
    <2> QED BY <1>5, <2>3, <2>4
  <1> QED BY <1>6

(* Induction up to n: a set that has 1, and with every number below n the    *)
(* next one, has them all.                                                   *)
LEMMA UpTo ==
    ASSUME NEW n \in Nat, NEW S,
           n >= 1 => 1 \in S,
           \A m \in 1..n : m # n /\ m \in S => m + 1 \in S
    PROVE  \A m \in 1..n : m \in S
  <1> DEFINE Missing == (1..n) \ S
  <1> SUFFICES ASSUME Missing # {} PROVE FALSE
    OBVIOUS
  <1>1. Missing \subseteq Nat
    OBVIOUS
  <1>2. PICK k \in Missing : \A m \in Missing : k <= m
    <2> HIDE DEF Missing
    <2> QED BY <1>1, LeastOfNat
  <1>3. k \in Nat /\ k >= 1 /\ k <= n /\ k \notin S /\ k # 1
    OBVIOUS
  <1>4. k - 1 \in 1..n /\ k - 1 # n /\ k - 1 + 1 = k /\ ~(k <= k - 1)
    BY <1>3
  <1>5. k - 1 \notin Missing
    BY <1>2, <1>4
  <1> QED BY <1>3, <1>4, <1>5

-----------------------------------------------------------------------------

(* Of two sequences put together.                                            *)
LEMMA PutTogether ==
    ASSUME NEW T, NEW a \in Seq(T), NEW b \in Seq(T)
    PROVE  /\ a \o b \in Seq(T)
           /\ ToSet(a \o b) = ToSet(a) \cup ToSet(b)
           /\ IsInjective(a \o b) <=>
                 IsInjective(a) /\ IsInjective(b) /\ ToSet(a) \cap ToSet(b) = {}
  <1> DEFINE c == a \o b
             m == Len(a)
             n == Len(b)
  <1>1. /\ m \in Nat /\ n \in Nat /\ c \in Seq(T)
        /\ DOMAIN a = 1..m /\ DOMAIN b = 1..n /\ DOMAIN c = 1..m + n
        /\ \A i \in 1..m : c[i] = a[i]
        /\ \A i \in 1..n : c[m + i] = b[i]
    OBVIOUS
  <1>2. /\ \A i \in 1..m : i \in 1..m + n
        /\ \A i \in 1..n : m + i \in 1..m + n
        /\ \A i \in 1..m + n : i \in 1..m \/ (i - m \in 1..n /\ m + (i - m) = i)
        /\ \A i \in 1..m, j \in 1..n : i # m + j
        /\ \A i, j \in 1..n : m + i = m + j => i = j
    BY <1>1
  <1> HIDE DEF c, m, n
  <1>3. ToSet(c) \subseteq ToSet(a) \cup ToSet(b)
    <2> SUFFICES ASSUME NEW i \in 1..m + n PROVE c[i] \in ToSet(a) \cup ToSet(b)
      BY <1>1 DEF ToSet
    <2>1. CASE i \in 1..m
      BY <1>1, <2>1 DEF ToSet
    <2>2. CASE i - m \in 1..n /\ m + (i - m) = i
      <3>1. c[i] = b[i - m]
        BY <1>1, <2>2
      <3> QED BY <1>1, <2>2, <3>1 DEF ToSet
    <2> QED BY <1>2, <2>1, <2>2
  <1>4. ToSet(a) \subseteq ToSet(c)
    BY <1>1, <1>2 DEF ToSet
  <1>5. ToSet(b) \subseteq ToSet(c)
    <2> SUFFICES ASSUME NEW i \in 1..n PROVE b[i] \in ToSet(c)
      BY <1>1 DEF ToSet
    <2> QED BY <1>1, <1>2 DEF ToSet
  <1>6. ASSUME IsInjective(c)
        PROVE  IsInjective(a) /\ IsInjective(b) /\ ToSet(a) \cap ToSet(b) = {}
    <2>1. IsInjective(a)
      BY <1>1, <1>2, <1>6 DEF IsInjective
    <2>2. ASSUME NEW i \in 1..n, NEW j \in 1..n, b[i] = b[j] PROVE i = j
      BY <1>1, <1>2, <1>6, <2>2 DEF IsInjective
    <2>3. ASSUME NEW i \in 1..m, NEW j \in 1..n, a[i] = b[j] PROVE FALSE
      BY <1>1, <1>2, <1>6, <2>3 DEF IsInjective
    <2> QED BY <1>1, <2>1, <2>2, <2>3 DEF IsInjective, ToSet
  <1>7. ASSUME IsInjective(a), IsInjective(b), ToSet(a) \cap ToSet(b) = {}
        PROVE  IsInjective(c)
    <2> SUFFICES ASSUME NEW i \in 1..m + n, NEW j \in 1..m + n, c[i] = c[j] PROVE i = j
      BY <1>1 DEF IsInjective
    <2>1. \A k \in 1..m : c[k] = a[k] /\ c[k] \in ToSet(a)
      BY <1>1 DEF ToSet
    <2>2. \A k \in 1..m + n : k - m \in 1..n => c[k] = b[k - m] /\ c[k] \in ToSet(b)
      <3> SUFFICES ASSUME NEW k \in 1..m + n, k - m \in 1..n
                   PROVE  c[k] = b[k - m] /\ c[k] \in ToSet(b)
        OBVIOUS
      <3>1. m + (k - m) = k
        BY <1>1
      <3>2. c[k] = b[k - m]
        BY <1>1, <3>1
      <3> QED BY <1>1, <3>2 DEF ToSet
    <2>3. CASE i \in 1..m /\ j \in 1..m
      BY <1>1, <1>7, <2>1, <2>3 DEF IsInjective
    <2>4. CASE i - m \in 1..n /\ j - m \in 1..n
      <3>1. i - m = j - m
        <4>1. b[i - m] = b[j - m]
          BY <2>2, <2>4
        <4> QED BY <1>1, <1>7, <2>4, <4>1 DEF IsInjective
      <3>2. m + (i - m) = i /\ m + (j - m) = j
        BY <1>1
      <3> QED BY <3>1, <3>2
    <2>5. ~(i \in 1..m /\ j - m \in 1..n)
      BY <1>7, <2>1, <2>2
    <2>6. ~(j \in 1..m /\ i - m \in 1..n)
      BY <1>7, <2>1, <2>2
    <2>7. (i \in 1..m \/ i - m \in 1..n) /\ (j \in 1..m \/ j - m \in 1..n)
      BY <1>2
    <2> QED BY <2>3, <2>4, <2>5, <2>6, <2>7
  <1> QED BY <1>1, <1>3, <1>4, <1>5, <1>6, <1>7 DEF c

-----------------------------------------------------------------------------

(* The recursive function that FlattenSeq is defined by exists: no length is *)
(* the least one for which it does not.                                      *)
Flattens(s, f, m) == f = [i \in 1..m |-> IF i = 1 THEN s[i] ELSE f[i - 1] \o s[i]]

LEMMA Flattening ==
    ASSUME NEW T, NEW s \in Seq(Seq(T)), s # <<>>
    PROVE  \E f : Flattens(s, f, Len(s)) /\ FlattenSeq(s) = f[Len(s)]
  <1> DEFINE n == Len(s)
             Done == {m \in 1..n : \E f : Flattens(s, f, m)}
  <1>1. n \in Nat /\ n >= 1 /\ n \in 1..n /\ n # 0
    OBVIOUS
  <1>2. 1 \in Done
    <2>1. Flattens(s, [i \in 1..1 |-> s[i]], 1)
      BY DEF Flattens
    <2> QED BY <1>1, <2>1
  <1>3. ASSUME NEW m \in 1..n, m # n, m \in Done PROVE m + 1 \in Done
    <2>1. PICK f : Flattens(s, f, m)
      BY <1>3
    <2> DEFINE g == [i \in 1..m + 1 |-> IF i = m + 1 THEN f[m] \o s[i] ELSE f[i]]
    <2>2. m + 1 \in 1..n /\ m \in 1..m + 1 /\ m # m + 1 /\ m + 1 # 1 /\ m + 1 - 1 = m
      BY <1>1, <1>3
    <2>3. g[m] = f[m]
      BY <2>2
    <2>4. ASSUME NEW i \in 1..m + 1
          PROVE  g[i] = IF i = 1 THEN s[i] ELSE g[i - 1] \o s[i]
      <3>1. CASE i = m + 1
        <4>1. i - 1 = m /\ i # 1
          BY <2>2, <3>1
        <4>2. g[i] = f[m] \o s[i]
          BY <3>1
        <4> HIDE DEF g
        <4>3. g[i - 1] = f[m]
          BY <2>3, <4>1
        <4> QED BY <4>1, <4>2, <4>3
      <3>2. CASE i # m + 1
        <4>1. i \in 1..m /\ (i # 1 => i - 1 \in 1..m + 1 /\ i - 1 # m + 1)
          BY <3>2
        <4>2. g[i] = f[i] /\ (i # 1 => g[i - 1] = f[i - 1])
          BY <3>2, <4>1
        <4>3. f[i] = IF i = 1 THEN s[i] ELSE f[i - 1] \o s[i]
          BY <2>1, <4>1 DEF Flattens
        <4> HIDE DEF g
        <4> QED BY <4>2, <4>3
      <3> QED BY <3>1, <3>2
    <2>5. g = [i \in 1..m + 1 |-> g[i]]
      OBVIOUS
    <2> HIDE DEF g
    <2>6. Flattens(s, g, m + 1)
      BY <2>4, <2>5 DEF Flattens
    <2> QED BY <2>2, <2>6
  <1>4. n \in Done
    <2> HIDE DEF Done
    <2> QED BY <1>1, <1>2, <1>3, UpTo
  <1>5. \E f : Flattens(s, f, n)
    BY <1>4
  <1> DEFINE flatten == CHOOSE f : Flattens(s, f, n)
  <1>6. Flattens(s, flatten, n)
    BY <1>5
  <1>7. FlattenSeq(s) = flatten[n]
    BY <1>1 DEF FlattenSeq, Flattens
  <1> HIDE DEF flatten
  <1> QED BY <1>6, <1>7

(* The sequence has the elements of all parts, and has each of them once if  *)
(* the parts do and no two of them share one.                                *)
Apart(s, m) ==
    /\ \A i \in 1..m : IsInjective(s[i])
    /\ \A i, j \in 1..m : i # j => ToSet(s[i]) \cap ToSet(s[j]) = {}

THEOREM FlattenSeqIs ==
    ASSUME NEW T, NEW s \in Seq(Seq(T))
    PROVE  /\ FlattenSeq(s) \in Seq(T)
           /\ ToSet(FlattenSeq(s)) = UNION {ToSet(s[i]) : i \in 1..Len(s)}
           /\ IsInjective(FlattenSeq(s)) <=> Apart(s, Len(s))
  <1> DEFINE n == Len(s)
             Elements(m) == UNION {ToSet(s[i]) : i \in 1..m}
  <1>1. CASE s = <<>>
    <2>1. FlattenSeq(s) = <<>>
      BY <1>1 DEF FlattenSeq
    <2>2. 1..Len(s) = {} /\ DOMAIN <<>> = {} /\ <<>> \in Seq(T)
      BY <1>1
    <2>3. ToSet(<<>>) = {} /\ IsInjective(<<>>)
      BY <2>2 DEF ToSet, IsInjective
    <2>4. UNION {ToSet(s[i]) : i \in 1..Len(s)} = {} /\ Apart(s, Len(s))
      BY <2>2 DEF Apart
    <2> QED BY <2>1, <2>2, <2>3, <2>4
  <1>2. CASE s # <<>>
    <2>1. PICK f : Flattens(s, f, n) /\ FlattenSeq(s) = f[n]
      BY <1>2, Flattening
    <2> DEFINE Done == {m \in 1..n : /\ f[m] \in Seq(T)
                                     /\ ToSet(f[m]) = Elements(m)
                                     /\ IsInjective(f[m]) <=> Apart(s, m)}
    <2>2. n \in Nat /\ n >= 1 /\ n \in 1..n /\ \A i \in 1..n : s[i] \in Seq(T)
      BY <1>2
    <2>3. f[1] = s[1]
      BY <2>1, <2>2 DEF Flattens
    <2>4. 1 \in Done
      <3>1. 1..1 = {1}
        OBVIOUS
      <3>2. Elements(1) = ToSet(s[1])
        BY <3>1
      <3>3. Apart(s, 1) <=> IsInjective(s[1])
        BY <3>1 DEF Apart
      <3> QED BY <2>2, <2>3, <3>2, <3>3
    <2>5. ASSUME NEW m \in 1..n, m # n, m \in Done PROVE m + 1 \in Done
      <3>1. m + 1 \in 1..n /\ m + 1 # 1 /\ m + 1 - 1 = m /\ m + 1 \notin 1..m
        BY <2>2, <2>5
      <3>2. 1..m + 1 = 1..m \cup {m + 1}
        OBVIOUS
      <3>3. f[m + 1] = f[m] \o s[m + 1]
        <4>1. \A i \in 1..n : f[i] = IF i = 1 THEN s[i] ELSE f[i - 1] \o s[i]
          BY <2>1 DEF Flattens
        <4>2. PICK k \in 1..n : k = m + 1 /\ k # 1 /\ k - 1 = m
          BY <3>1
        <4>3. f[k] = f[k - 1] \o s[k]
          BY <4>1, <4>2
        <4> QED BY <4>2, <4>3
      <3>4. f[m] \in Seq(T) /\ s[m + 1] \in Seq(T)
        BY <2>2, <2>5, <3>1
      <3>5. /\ f[m + 1] \in Seq(T)
            /\ ToSet(f[m + 1]) = ToSet(f[m]) \cup ToSet(s[m + 1])
            /\ IsInjective(f[m + 1]) <=> /\ IsInjective(f[m]) /\ IsInjective(s[m + 1])
                                         /\ ToSet(f[m]) \cap ToSet(s[m + 1]) = {}
        BY <3>3, <3>4, PutTogether
      <3>6. Elements(m + 1) = Elements(m) \cup ToSet(s[m + 1])
        BY <3>2
      <3>7. ToSet(f[m]) = Elements(m) /\ (IsInjective(f[m]) <=> Apart(s, m))
        BY <2>5
      <3>8. Elements(m) \cap ToSet(s[m + 1]) = {}
               <=> \A i \in 1..m : ToSet(s[i]) \cap ToSet(s[m + 1]) = {}
        OBVIOUS
      <3>9. Apart(s, m + 1) <=> /\ Apart(s, m) /\ IsInjective(s[m + 1])
                                /\ \A i \in 1..m : ToSet(s[i]) \cap ToSet(s[m + 1]) = {}
        BY <3>1, <3>2 DEF Apart
      <3> HIDE DEF Elements
      <3> QED BY <3>1, <3>5, <3>6, <3>7, <3>8, <3>9
    <2>6. n \in Done
      <3> HIDE DEF Done
      <3> QED BY <2>2, <2>4, <2>5, UpTo
    <2> QED BY <2>1, <2>6
  <1> QED BY <1>1, <1>2
=============================================================================
