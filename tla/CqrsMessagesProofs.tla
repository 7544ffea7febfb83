------------------------- MODULE CqrsMessagesProofs -------------------------
(***************************************************************************)
(* Theorems about the messages of cqrs.proto, for any objects, numbers and *)
(* strings.  They need induction over data.  The induction theorems of the *)
(* library are about operators; what is used here is that every set of     *)
(* natural numbers has a least element (WFMin), from which induction for   *)
(* sets of numbers and the existence of recursive functions follow.        *)
(***************************************************************************)
EXTENDS CqrsMessages, SequenceTheorems, WellFoundedInduction, TLAPS

LEMMA LeastNat ==
  ASSUME NEW T, T \subseteq Nat, T # {}
  PROVE  \E n \in T : \A k \in T : n <= k
<1> DEFINE R == {ss \in Nat \X Nat : ss[1] < ss[2]}
<1>1. IsWellFoundedOn(R, Nat)
  BY NatLessThanWellFounded DEF OpToRel
<1>2. \A k, n \in Nat : k < n => <<k, n>> \in R
  OBVIOUS
<1> HIDE DEF R
<1>3. PICK n \in T : \A k \in T : ~(<<k, n>> \in R)
  BY <1>1, WFMin, Zenon
<1>4. \A k \in T : ~(k < n)
  BY <1>2, <1>3, Zenon
<1>5. \A k \in T : n <= k
  BY <1>4
<1> QED
  BY <1>5

LEMMA GreatestNat ==
  ASSUME NEW m \in Nat, NEW T, T \subseteq 0 .. m, T # {}
  PROVE  \E n \in T : \A k \in T : k <= n
<1> DEFINE U == {m - k : k \in T}
<1>1. U \subseteq Nat /\ U # {}
  <2>1. \A k \in T : m - k \in Nat
    OBVIOUS
  <2>2. \E k \in T : m - k \in U
    OBVIOUS
  <2> QED
    BY <2>1, <2>2
<1>2. PICK u \in U : \A k \in U : u <= k
  BY <1>1, LeastNat
<1>3. PICK n \in T : u = m - n
  OBVIOUS
<1>4. \A k \in T : m - k \in U
  OBVIOUS
<1>5. \A k \in T : m - n <= m - k
  BY <1>2, <1>3, <1>4
<1>6. \A k \in T : k <= n
  BY <1>5
<1> QED
  BY <1>6

LEMMA SetInduction ==
  ASSUME NEW T, 0 \in T, \A n \in Nat : n \in T => n + 1 \in T
  PROVE  \A n \in Nat : n \in T
<1> SUFFICES ASSUME NEW m \in Nat, m \notin T PROVE FALSE
  OBVIOUS
<1> DEFINE B == {n \in Nat : n \notin T}
<1>1. PICK n \in B : \A k \in B : n <= k
  BY LeastNat
<1>2. n # 0 /\ n - 1 \in Nat
  OBVIOUS
<1>3. n - 1 \in T
  BY <1>1, <1>2
<1> QED
  BY <1>2, <1>3

(* A function of 0 .. n given by its first value and by how each value     *)
(* follows from the one before.                                            *)
Recursion(f, S, a, G, n) ==
  /\ f \in [0 .. n -> S] /\ f[0] = a
  /\ \A k \in 1 .. n : f[k] = G[k][f[k - 1]]

LEMMA RecursiveFunction ==
  ASSUME NEW S, NEW a \in S, NEW G \in [Nat -> [S -> S]], NEW m \in Nat
  PROVE  \E f : Recursion(f, S, a, G, m)
<1> USE DEF Recursion
<1> DEFINE T == {n \in Nat : \E f : Recursion(f, S, a, G, n)}
<1>1. 0 \in T
  <2> DEFINE g == [k \in 0 .. 0 |-> a]
  <2>1. g \in [0 .. 0 -> S] /\ g[0] = a
    OBVIOUS
  <2>2. \A k \in 1 .. 0 : g[k] = G[k][g[k - 1]]
    OBVIOUS
  <2> HIDE DEF g
  <2> QED
    BY <2>1, <2>2
<1>2. ASSUME NEW n \in Nat, n \in T PROVE n + 1 \in T
  <2>1. PICK f : Recursion(f, S, a, G, n)
    BY <1>2
  <2> DEFINE g == [k \in 0 .. n + 1 |->
                     IF k = n + 1 THEN G[n + 1][f[n]] ELSE f[k]]
  <2>2. G[n + 1][f[n]] \in S
    BY <2>1
  <2>3. g \in [0 .. n + 1 -> S]
    BY <2>1, <2>2
  <2>4. g[0] = a
    BY <2>1
  <2>5. ASSUME NEW k \in 1 .. n + 1 PROVE g[k] = G[k][g[k - 1]]
    <3>1. CASE k = n + 1
      BY <3>1
    <3>2. CASE k # n + 1
      BY <3>2, <2>1
    <3> QED
      BY <3>1, <3>2
  <2> HIDE DEF g
  <2> QED
    BY <2>3, <2>4, <2>5
<1> HIDE DEF T
<1>3. \A n \in Nat : n \in T
  BY <1>1, <1>2, SetInduction, Zenon
<1> QED
  BY <1>3 DEF T

-----------------------------------------------------------------------------
(***************************************************************************)
(* The recursive functions of the model.                                   *)
(***************************************************************************)

Sums(f, sizes) ==
  /\ f \in [0 .. Len(sizes) -> Nat] /\ f[0] = 0
  /\ \A i \in 1 .. Len(sizes) : f[i] = f[i - 1] + sizes[i]

LEMMA TotalFunction ==
  ASSUME NEW sizes \in Seq(Nat)
  PROVE  \E f : Sums(f, sizes) /\ Total(sizes) = f[Len(sizes)]
<1> DEFINE n == Len(sizes)
           Def(f) == [i \in 0 .. n |-> IF i = 0 THEN 0 ELSE f[i - 1] + sizes[i]]
           c == CHOOSE f : f = Def(f)
           G == [k \in Nat |-> [x \in Nat |->
                   IF k \in 1 .. n THEN x + sizes[k] ELSE x]]
<1>1. n \in Nat /\ \A k \in 1 .. n : sizes[k] \in Nat
  OBVIOUS
<1>2. G \in [Nat -> [Nat -> Nat]]
  BY <1>1
<1>3. \A k \in 1 .. n : \A x \in Nat : G[k][x] = x + sizes[k]
  BY <1>1
<1>4. 0 \in Nat
  OBVIOUS
<1>5. Total(sizes) = c[n]
  BY DEF Total
<1> HIDE DEF G, n
<1>14. PICK g : Recursion(g, Nat, 0, G, n)
  BY <1>1, <1>2, <1>4, RecursiveFunction, Zenon
<1>6. /\ g \in [0 .. n -> Nat] /\ g[0] = 0
      /\ \A k \in 1 .. n : g[k] = G[k][g[k - 1]]
  BY <1>14, Zenon DEF Recursion
<1>7. \A k \in 1 .. n : g[k] = g[k - 1] + sizes[k]
  <2> SUFFICES ASSUME NEW k \in 1 .. n PROVE g[k] = g[k - 1] + sizes[k]
    OBVIOUS
  <2>1. k - 1 \in 0 .. n
    BY <1>1
  <2>2. g[k - 1] \in Nat
    BY <1>6, <2>1
  <2> QED
    BY <1>3, <1>6, <2>2
<1>8. g = Def(g)
  BY <1>1, <1>6, <1>7
<1>9. c = Def(c)
  BY <1>8
<1> HIDE DEF c
<1>10. c[0] = 0 /\ \A i \in 1 .. n : c[i] = c[i - 1] + sizes[i]
  BY <1>1, <1>9
<1> DEFINE T == {k \in Nat : k <= n => c[k] \in Nat}
<1>11. \A k \in Nat : k \in T
  <2>1. 0 \in T
    BY <1>10
  <2>2. ASSUME NEW k \in Nat, k \in T PROVE k + 1 \in T
    <3> SUFFICES ASSUME k + 1 <= n PROVE c[k + 1] \in Nat
      OBVIOUS
    <3>1. k + 1 \in 1 .. n /\ k + 1 - 1 = k /\ c[k] \in Nat
      BY <1>1, <2>2
    <3>2. c[k + 1] = c[k] + sizes[k + 1] /\ sizes[k + 1] \in Nat
      BY <1>1, <1>10, <3>1
    <3> QED
      BY <3>1, <3>2
  <2> HIDE DEF T
  <2> QED
    BY <2>1, <2>2, SetInduction, Zenon
<1>12. \A i \in 0 .. n : c[i] \in Nat
  BY <1>1, <1>11
<1>13. c \in [0 .. n -> Nat]
  BY <1>9, <1>12
<1> QED
  BY <1>5, <1>10, <1>13 DEF n, Sums

Joins(f, S, ss) ==
  /\ f \in [1 .. Len(ss) -> Seq(S)] /\ f[1] = ss[1]
  /\ \A i \in 2 .. Len(ss) : f[i] = f[i - 1] \o ss[i]

LEMMA FlattenFunction ==
  ASSUME NEW S, NEW ss \in Seq(Seq(S)), Len(ss) > 0
  PROVE  \E f : Joins(f, S, ss) /\ FlattenSeq(ss) = f[Len(ss)]
<1> DEFINE n == Len(ss)
           Def(f) == [i \in 1 .. n |-> IF i = 1 THEN ss[i] ELSE f[i - 1] \o ss[i]]
           c == CHOOSE f : f = Def(f)
           G == [k \in Nat |-> [x \in Seq(S) |->
                   IF k + 1 \in 1 .. n THEN x \o ss[k + 1] ELSE x]]
<1>1. n \in Nat /\ n > 0 /\ \A k \in 1 .. n : ss[k] \in Seq(S)
  OBVIOUS
<1>2. G \in [Nat -> [Seq(S) -> Seq(S)]]
  <2>1. ASSUME NEW k \in Nat, NEW x \in Seq(S), k + 1 \in 1 .. n
        PROVE  x \o ss[k + 1] \in Seq(S)
    BY <1>1, <2>1, ConcatProperties
  <2> QED
    BY <2>1
<1>12. \A k \in 1 .. n - 1 : \A x \in Seq(S) : G[k][x] = x \o ss[k + 1]
  BY <1>1
<1>7. FlattenSeq(ss) = c[n]
  BY <1>1 DEF FlattenSeq
<1> HIDE DEF G, n
<1>13. PICK g : Recursion(g, Seq(S), ss[1], G, n - 1)
  <2>1. ss[1] \in Seq(S) /\ n - 1 \in Nat
    BY <1>1
  <2> QED
    BY <1>2, <2>1, RecursiveFunction, Zenon
<1>3. /\ g \in [0 .. n - 1 -> Seq(S)] /\ g[0] = ss[1]
      /\ \A k \in 1 .. n - 1 : g[k] = G[k][g[k - 1]]
  BY <1>13, Zenon DEF Recursion
<1>4. \A k \in 1 .. n - 1 : g[k] = g[k - 1] \o ss[k + 1]
  <2> SUFFICES ASSUME NEW k \in 1 .. n - 1
               PROVE  g[k] = g[k - 1] \o ss[k + 1]
    OBVIOUS
  <2>1. k - 1 \in 0 .. n - 1
    BY <1>1
  <2>2. g[k - 1] \in Seq(S)
    BY <1>3, <2>1
  <2> QED
    BY <1>3, <1>12, <2>2, Zenon
<1> DEFINE h == [i \in 1 .. n |-> g[i - 1]]
<1>5. h = Def(h)
  <2>1. ASSUME NEW i \in 1 .. n
        PROVE  h[i] = IF i = 1 THEN ss[i] ELSE h[i - 1] \o ss[i]
    <3>1. CASE i = 1
      BY <1>3, <3>1
    <3>2. CASE i # 1
      <4>1. i - 1 \in 1 .. n - 1 /\ i - 1 \in 1 .. n /\ i - 1 + 1 = i
        BY <1>1, <3>2
      <4>2. g[i - 1] = g[i - 1 - 1] \o ss[i]
        BY <1>4, <4>1
      <4> QED
        BY <3>2, <4>1, <4>2
    <3> QED
      BY <3>1, <3>2
  <2> QED
    BY <2>1
<1> HIDE DEF h
<1>6. c = Def(c)
  BY <1>5
<1> HIDE DEF c
<1>8. c[1] = ss[1] /\ \A i \in 2 .. n : c[i] = c[i - 1] \o ss[i]
  <2>1. 1 \in 1 .. n /\ \A i \in 2 .. n : i \in 1 .. n /\ i # 1
    BY <1>1
  <2> QED
    BY <1>6, <2>1
<1> DEFINE T == {k \in Nat : k + 1 <= n => c[k + 1] \in Seq(S)}
<1>9. \A k \in Nat : k \in T
  <2>1. 0 \in T
    BY <1>1, <1>8
  <2>2. ASSUME NEW k \in Nat, k \in T PROVE k + 1 \in T
    <3> SUFFICES ASSUME NEW j \in 1 .. n, j = k + 1 + 1
                 PROVE  c[j] \in Seq(S)
      BY <1>1
    <3>1. j \in 2 .. n /\ j - 1 = k + 1
      BY <1>1
    <3>2. c[j - 1] \in Seq(S) /\ ss[j] \in Seq(S)
      BY <1>1, <2>2, <3>1
    <3>3. c[j] = c[j - 1] \o ss[j]
      BY <1>8, <3>1, Zenon
    <3> QED
      BY <3>2, <3>3, ConcatProperties
  <2> HIDE DEF T
  <2> QED
    BY <2>1, <2>2, SetInduction, Zenon
<1>10. ASSUME NEW i \in 1 .. n PROVE c[i] \in Seq(S)
  <2>1. i - 1 \in Nat /\ i - 1 + 1 = i
    BY <1>1
  <2>2. i - 1 \in T
    BY <1>9, <2>1
  <2> QED
    BY <1>1, <2>1, <2>2
<1>11. c \in [1 .. n -> Seq(S)]
  BY <1>6, <1>10
<1> QED
  BY <1>7, <1>8, <1>11 DEF n, Joins

LEMMA FlattenEmpty == FlattenSeq(<<>>) = <<>>
  BY DEF FlattenSeq

LEMMA FlattenType ==
  ASSUME NEW S, NEW ss \in Seq(Seq(S))
  PROVE  FlattenSeq(ss) \in Seq(S)
<1>1. CASE Len(ss) > 0
  <2>1. PICK f : Joins(f, S, ss) /\ FlattenSeq(ss) = f[Len(ss)]
    BY <1>1, FlattenFunction, Zenon
  <2>2. Len(ss) \in 1 .. Len(ss)
    BY <1>1
  <2> QED
    BY <2>1, <2>2 DEF Joins
<1>2. CASE ~(Len(ss) > 0)
  <2>1. ss = <<>>
    BY <1>2
  <2> QED
    BY <2>1, FlattenEmpty, EmptySeq
<1> QED
  BY <1>1, <1>2

(* The first sequence comes first, ...                                     *)
Associates(S) == \A x, y, z \in Seq(S) : (x \o y) \o z = x \o (y \o z)

LEMMA SeqAssociative ==
  ASSUME NEW S
  PROVE  Associates(S)
  BY ConcatAssociative DEF Associates

LEMMA FlattenFirst ==
  ASSUME NEW S, NEW ss \in Seq(Seq(S)), ss # <<>>
  PROVE  FlattenSeq(ss) = ss[1] \o FlattenSeq(Tail(ss))
<1> DEFINE n == Len(ss)
           tt == Tail(ss)
<1>1. n \in Nat /\ n > 0 /\ \A k \in 1 .. n : ss[k] \in Seq(S)
  OBVIOUS
<1>2. /\ tt \in Seq(Seq(S)) /\ Len(tt) = n - 1
      /\ \A i \in 1 .. n - 1 : tt[i] = ss[i + 1]
  BY HeadTailProperties
<1>6. PICK f : Joins(f, S, ss) /\ FlattenSeq(ss) = f[n]
  BY <1>1, FlattenFunction, Zenon
<1>3. /\ f \in [1 .. n -> Seq(S)] /\ f[1] = ss[1] /\ FlattenSeq(ss) = f[n]
      /\ \A i \in 2 .. n : f[i] = f[i - 1] \o ss[i]
  BY <1>6, Zenon DEF Joins
<1>7. \A x, y, z \in Seq(S) : (x \o y) \o z = x \o (y \o z)
  <2>1. Associates(S)
    BY SeqAssociative, Zenon
  <2> QED
    BY <2>1, Zenon DEF Associates
<1> HIDE DEF n, tt
<1>4. CASE n = 1
  <2>1. tt = <<>>
    BY <1>2, <1>4
  <2>2. FlattenSeq(tt) = <<>>
    BY <2>1, FlattenEmpty
  <2>3. ss[1] \o <<>> = ss[1]
    BY <1>1, ConcatEmptySeq
  <2> QED
    BY <1>3, <1>4, <2>2, <2>3 DEF tt
<1>5. CASE n # 1
  <2>8. PICK g : Joins(g, S, tt) /\ FlattenSeq(tt) = g[Len(tt)]
    <3>1. Len(tt) > 0
      BY <1>1, <1>2, <1>5
    <3> QED
      BY <1>2, <3>1, FlattenFunction, Zenon
  <2>1. /\ g \in [1 .. n - 1 -> Seq(S)] /\ g[1] = tt[1]
        /\ FlattenSeq(tt) = g[n - 1]
        /\ \A i \in 2 .. n - 1 : g[i] = g[i - 1] \o tt[i]
    BY <1>2, <2>8 DEF Joins
  <2> DEFINE T == {k \in Nat : \A j \in 1 .. n :
                     j = k + 2 => f[j] = ss[1] \o g[j - 1]}
  <2>2. 0 \in T
    <3>1. 2 \in 2 .. n /\ 2 - 1 = 1 /\ 1 \in 1 .. n - 1 /\ 1 + 1 = 2
      BY <1>1, <1>5
    <3>2. f[2] = f[1] \o ss[2] /\ g[1] = ss[2]
      BY <1>2, <1>3, <2>1, <3>1
    <3>3. f[2] = ss[1] \o g[2 - 1]
      BY <1>3, <3>1, <3>2
    <3>4. ASSUME NEW j \in 1 .. n, j = 0 + 2 PROVE f[j] = ss[1] \o g[j - 1]
      <4>1. j = 2
        BY <3>4
      <4> QED
        BY <3>3, <4>1, Zenon
    <3> QED
      BY <3>4
  <2>3. ASSUME NEW k \in Nat, k \in T PROVE k + 1 \in T
    <3> SUFFICES ASSUME NEW j \in 1 .. n, j = k + 1 + 2
                 PROVE  f[j] = ss[1] \o g[j - 1]
      <4>1. k + 1 \in Nat
        OBVIOUS
      <4> QED
        BY <4>1, Zenon
    <3>1. /\ j \in 2 .. n /\ j - 1 = k + 2 /\ j - 1 \in 2 .. n - 1
          /\ j - 1 - 1 = k + 1 /\ j - 1 - 1 \in 1 .. n - 1 /\ j - 1 + 1 = j
          /\ j - 1 \in 1 .. n - 1
      BY <1>1
    <3>2. f[j - 1] = ss[1] \o g[j - 1 - 1]
      <4>1. j - 1 \in 1 .. n
        BY <1>1, <3>1
      <4> QED
        BY <2>3, <3>1, <4>1
    <3>3. f[j] = f[j - 1] \o ss[j]
      BY <1>3, <3>1, Zenon
    <3>4. g[j - 1] = g[j - 1 - 1] \o ss[j]
      <4>1. g[j - 1] = g[j - 1 - 1] \o tt[j - 1]
        BY <2>1, <3>1, Zenon
      <4>2. tt[j - 1] = ss[j]
        BY <1>2, <3>1
      <4> QED
        BY <4>1, <4>2
    <3>5. ss[1] \in Seq(S) /\ g[j - 1 - 1] \in Seq(S) /\ ss[j] \in Seq(S)
      BY <1>1, <2>1, <3>1
    <3>6. (ss[1] \o g[j - 1 - 1]) \o ss[j] = ss[1] \o (g[j - 1 - 1] \o ss[j])
      BY <1>7, <3>5, Zenon
    <3> QED
      BY <3>2, <3>3, <3>4, <3>6, Zenon
  <2>4. \A k \in Nat : k \in T
    <3> HIDE DEF T
    <3> QED
      BY <2>2, <2>3, SetInduction, Zenon
  <2>5. n - 2 \in Nat /\ n - 2 + 2 = n /\ n - 2 + 1 = n - 1
    BY <1>1, <1>5
  <2>6. n - 2 \in T
    BY <2>4, <2>5, Zenon
  <2>7. f[n] = ss[1] \o g[n - 1]
    <3>1. n \in 1 .. n /\ n = n - 2 + 2
      BY <1>1
    <3> QED
      BY <2>6, <3>1
  <2> QED
    BY <1>3, <2>1, <2>7 DEF tt
<1> QED
  BY <1>4, <1>5

(* ... and the length is the sum of the lengths.                           *)
LEMMA FlattenLength ==
  ASSUME NEW S, NEW ss \in Seq(Seq(S)), NEW sizes \in Seq(Nat),
         Len(sizes) = Len(ss), \A i \in 1 .. Len(ss) : sizes[i] = Len(ss[i])
  PROVE  Total(sizes) = Len(FlattenSeq(ss))
<1> DEFINE n == Len(ss)
<1>1. n \in Nat /\ \A k \in 1 .. n : ss[k] \in Seq(S)
  OBVIOUS
<1>5. PICK t : Sums(t, sizes) /\ Total(sizes) = t[Len(sizes)]
  BY TotalFunction, Zenon
<1>2. /\ t \in [0 .. n -> Nat] /\ t[0] = 0 /\ Total(sizes) = t[n]
      /\ \A i \in 1 .. n : t[i] = t[i - 1] + sizes[i]
  BY <1>5, Zenon DEF Sums
<1> HIDE DEF n
<1>3. CASE n = 0
  <2>1. ss = <<>>
    BY <1>3 DEF n
  <2> QED
    BY <1>2, <1>3, <2>1, FlattenEmpty
<1>4. CASE n # 0
  <2>8. PICK f : Joins(f, S, ss) /\ FlattenSeq(ss) = f[n]
    <3>1. Len(ss) > 0
      BY <1>1, <1>4 DEF n
    <3> QED
      BY <3>1, FlattenFunction, Zenon DEF n
  <2>1. /\ f \in [1 .. n -> Seq(S)] /\ f[1] = ss[1] /\ FlattenSeq(ss) = f[n]
        /\ \A i \in 2 .. n : f[i] = f[i - 1] \o ss[i]
    BY <2>8, Zenon DEF Joins, n
  <2> DEFINE T == {k \in Nat : k + 1 <= n => t[k + 1] = Len(f[k + 1])}
  <2>2. 0 \in T
    <3>1. 1 \in 1 .. n /\ 1 - 1 = 0
      BY <1>1, <1>4
    <3>2. t[1] = 0 + sizes[1] /\ sizes[1] = Len(ss[1])
      BY <1>2, <3>1 DEF n
    <3>3. Len(ss[1]) \in Nat
      BY <1>1, <3>1
    <3> QED
      BY <2>1, <3>2, <3>3
  <2>3. ASSUME NEW k \in Nat, k \in T PROVE k + 1 \in T
    <3> SUFFICES ASSUME NEW j \in 1 .. n, j = k + 1 + 1
                 PROVE  t[j] = Len(f[j])
      BY <1>1
    <3>1. j \in 2 .. n /\ j - 1 = k + 1 /\ j - 1 \in 1 .. n
      BY <1>1
    <3>2. t[j - 1] = Len(f[j - 1])
      BY <1>1, <2>3, <3>1
    <3>3. f[j] = f[j - 1] \o ss[j]
      BY <2>1, <3>1, Zenon
    <3>4. t[j] = t[j - 1] + sizes[j] /\ sizes[j] = Len(ss[j])
      BY <1>2, Zenon DEF n
    <3>5. f[j - 1] \in Seq(S) /\ ss[j] \in Seq(S)
      BY <1>1, <2>1, <3>1
    <3>6. Len(f[j - 1] \o ss[j]) = Len(f[j - 1]) + Len(ss[j])
      BY <3>5, ConcatProperties
    <3> QED
      BY <3>2, <3>3, <3>4, <3>6
  <2>4. \A k \in Nat : k \in T
    <3> HIDE DEF T
    <3> QED
      BY <2>2, <2>3, SetInduction, Zenon
  <2>5. n - 1 \in Nat /\ n - 1 + 1 = n
    BY <1>1, <1>4
  <2>6. n - 1 \in T
    BY <2>4, <2>5, Zenon
  <2>7. t[n] = Len(f[n])
    BY <1>1, <2>5, <2>6
  <2> QED
    BY <1>2, <2>1, <2>7
<1> QED
  BY <1>3, <1>4

(* What holds at the start of a parse and is kept by Advance holds at its  *)
(* end; and as Advance gets on, a parse that succeeds has read all bytes.  *)
Start(t, bytes) == [ok |-> TRUE, msg |-> Default(t), rest |-> bytes]

LEMMA ParsedStays ==
  ASSUME NEW t, NEW bytes \in Seq(0 .. 255), NEW Q, Start(t, bytes) \in Q,
         \A s \in Q : Advance(s) \in Q /\ s.rest \in Seq(0 .. 255),
         \A s \in Q : (s.ok /\ s.rest # <<>> /\ Advance(s).ok)
                        => Len(Advance(s).rest) < Len(s.rest)
  PROVE  /\ Parsed(t, bytes) \in Q
         /\ Parsed(t, bytes).ok => Parsed(t, bytes).rest = <<>>
<1> DEFINE n == Len(bytes)
           start == Start(t, bytes)
           Def(f) == [k \in 0 .. n |-> IF k = 0 THEN start ELSE Advance(f[k - 1])]
           c == CHOOSE f : f = Def(f)
           G == [k \in Nat |-> [s \in Q |-> Advance(s)]]
<1>1. n \in Nat /\ start \in Q /\ start.rest = bytes
  BY DEF Start
<1>2. G \in [Nat -> [Q -> Q]]
  OBVIOUS
<1>3. \A k \in Nat : \A s \in Q : G[k][s] = Advance(s)
  OBVIOUS
<1>4. Parsed(t, bytes) = c[n]
  BY DEF Parsed, Start
<1> HIDE DEF G, n, start
<1>5. PICK g : Recursion(g, Q, start, G, n)
  BY <1>1, <1>2, RecursiveFunction, Zenon
<1>6. /\ g \in [0 .. n -> Q] /\ g[0] = start
      /\ \A k \in 1 .. n : g[k] = G[k][g[k - 1]]
  BY <1>5, Zenon DEF Recursion
<1>7. \A k \in 1 .. n : g[k] = Advance(g[k - 1])
  <2> SUFFICES ASSUME NEW k \in 1 .. n PROVE g[k] = Advance(g[k - 1])
    OBVIOUS
  <2>1. k \in Nat /\ k - 1 \in 0 .. n
    BY <1>1
  <2>2. g[k - 1] \in Q
    BY <1>6, <2>1
  <2> QED
    BY <1>3, <1>6, <2>1, <2>2, Zenon
<1>8. g = Def(g)
  BY <1>1, <1>6, <1>7
<1>9. c = Def(c)
  BY <1>8
<1> HIDE DEF c
<1>10. c[0] = start /\ \A k \in 1 .. n : c[k] = Advance(c[k - 1])
  BY <1>1, <1>9
<1> DEFINE T == {k \in Nat : k <= n =>
                   /\ c[k] \in Q
                   /\ c[k].ok /\ c[k].rest # <<>> => Len(c[k].rest) <= n - k}
<1>11. 0 \in T
  BY <1>1, <1>10 DEF n
<1>12. ASSUME NEW k \in Nat, k \in T PROVE k + 1 \in T
  <2> SUFFICES ASSUME NEW j \in 1 .. n, j = k + 1
               PROVE  /\ c[j] \in Q
                      /\ c[j].ok /\ c[j].rest # <<>> => Len(c[j].rest) <= n - j
    BY <1>1
  <2>1. j - 1 = k /\ k <= n
    BY <1>1
  <2>2. /\ c[k] \in Q
        /\ c[k].ok /\ c[k].rest # <<>> => Len(c[k].rest) <= n - k
    BY <1>12, <2>1
  <2>3. c[j] = Advance(c[k])
    BY <1>10, <2>1
  <2>4. c[j] \in Q /\ c[j].rest \in Seq(0 .. 255) /\ c[k].rest \in Seq(0 .. 255)
    BY <2>2, <2>3
  <2>5. ~c[k].ok \/ c[k].rest = <<>> => c[j] = c[k]
    BY <2>3 DEF Advance
  <2>6. ASSUME c[j].ok, c[j].rest # <<>> PROVE Len(c[j].rest) <= n - j
    <3>1. c[k].ok /\ c[k].rest # <<>>
      BY <2>5, <2>6
    <3>2. Len(c[j].rest) < Len(c[k].rest) /\ Len(c[k].rest) <= n - k
      BY <2>2, <2>3, <2>6, <3>1
    <3>3. Len(c[j].rest) \in Nat /\ Len(c[k].rest) \in Nat
      BY <2>4
    <3> QED
      BY <1>1, <3>2, <3>3
  <2> QED
    BY <2>4, <2>6
<1>13. \A k \in Nat : k \in T
  <2> HIDE DEF T
  <2> QED
    BY <1>11, <1>12, SetInduction, Zenon
<1>14. n \in T
  BY <1>1, <1>13, Zenon
<1>15. /\ c[n] \in Q
       /\ c[n].ok /\ c[n].rest # <<>> => Len(c[n].rest) <= 0
  BY <1>1, <1>14
<1>16. c[n].rest \in Seq(0 .. 255)
  BY <1>15
<1>17. c[n].rest # <<>> => Len(c[n].rest) > 0
  BY <1>16
<1>18. c[n].ok => c[n].rest = <<>>
  BY <1>15, <1>16, <1>17
<1> QED
  BY <1>4, <1>15, <1>18

-----------------------------------------------------------------------------
(***************************************************************************)
(* Field tables.                                                           *)
(***************************************************************************)
Kinds == {"uint32", "uint64", "string"}
FieldName == {"command_type", "recipient", "status_code", "error_message",
              "response_type", "name", "timestamp", "event_type"}
FieldRecord == [number : 1 .. 15, name : FieldName, kind : Kinds]

LEMMA Classes ==
  Types = {"CommandHeader", "CommandResponse", "CreateStream", "EventHeader"}
  BY DEF Types, Fields

(* Number and name identify a field of a class.                            *)
LEMMA Tables ==
  ASSUME NEW t \in Types
  PROVE  /\ Fields[t] \in Seq(FieldRecord)
         /\ \A i, j \in 1 .. Len(Fields[t]) : i # j =>
              /\ Fields[t][i].number # Fields[t][j].number
              /\ Fields[t][i].name # Fields[t][j].name
<1> USE DEF FieldRecord, FieldName, Kinds, Field
<1>1. CASE t = "CommandHeader"
  <2>1. Fields[t] = CommandHeader
    BY <1>1 DEF Fields
  <2>2. CommandHeader \in Seq(FieldRecord) /\ Len(CommandHeader) = 2
    <3>1. /\ Field(1, "command_type", "uint32") \in FieldRecord
          /\ Field(2, "recipient", "string") \in FieldRecord
      OBVIOUS
    <3> QED
      BY <3>1 DEF CommandHeader
  <2>3. /\ CommandHeader[1].number = 1 /\ CommandHeader[1].name = "command_type"
        /\ CommandHeader[2].number = 2 /\ CommandHeader[2].name = "recipient"
    BY DEF CommandHeader
  <2>4. \A i \in 1 .. 2 : i = 1 \/ i = 2
    OBVIOUS
  <2> QED
    BY <2>1, <2>2, <2>3, <2>4
<1>2. CASE t = "CommandResponse"
  <2>1. Fields[t] = CommandResponse
    BY <1>2 DEF Fields
  <2>2. CommandResponse \in Seq(FieldRecord) /\ Len(CommandResponse) = 3
    <3>1. /\ Field(1, "status_code", "uint32") \in FieldRecord
          /\ Field(2, "error_message", "string") \in FieldRecord
          /\ Field(3, "response_type", "uint32") \in FieldRecord
      OBVIOUS
    <3> QED
      BY <3>1 DEF CommandResponse
  <2>3. /\ CommandResponse[1].number = 1 /\ CommandResponse[1].name = "status_code"
        /\ CommandResponse[2].number = 2 /\ CommandResponse[2].name = "error_message"
        /\ CommandResponse[3].number = 3 /\ CommandResponse[3].name = "response_type"
    BY DEF CommandResponse
  <2>4. \A i \in 1 .. 3 : i = 1 \/ i = 2 \/ i = 3
    OBVIOUS
  <2> QED
    BY <2>1, <2>2, <2>3, <2>4
<1>3. CASE t = "CreateStream"
  <2>1. Fields[t] = CreateStream
    BY <1>3 DEF Fields
  <2>2. CreateStream \in Seq(FieldRecord) /\ Len(CreateStream) = 1
    <3>1. /\ Field(1, "name", "string") \in FieldRecord
      OBVIOUS
    <3> QED
      BY <3>1 DEF CreateStream
  <2>3. \A i, j \in 1 .. 1 : i = j
    OBVIOUS
  <2> QED
    BY <2>1, <2>2, <2>3
<1>4. CASE t = "EventHeader"
  <2>1. Fields[t] = EventHeader
    BY <1>4 DEF Fields
  <2>2. EventHeader \in Seq(FieldRecord) /\ Len(EventHeader) = 2
    <3>1. /\ Field(1, "timestamp", "uint64") \in FieldRecord
          /\ Field(2, "event_type", "uint32") \in FieldRecord
      OBVIOUS
    <3> QED
      BY <3>1 DEF EventHeader
  <2>3. /\ EventHeader[1].number = 1 /\ EventHeader[1].name = "timestamp"
        /\ EventHeader[2].number = 2 /\ EventHeader[2].name = "event_type"
    BY DEF EventHeader
  <2>4. \A i \in 1 .. 2 : i = 1 \/ i = 2
    OBVIOUS
  <2> QED
    BY <2>1, <2>2, <2>3, <2>4
<1> QED
  BY <1>1, <1>2, <1>3, <1>4, Classes

LEMMA FieldNames ==
  ASSUME NEW t \in Types
  PROVE  /\ ToSet(Fields[t]) = {Fields[t][i] : i \in 1 .. Len(Fields[t])}
         /\ Names(t) = {Fields[t][i].name : i \in 1 .. Len(Fields[t])}
<1>1. DOMAIN Fields[t] = 1 .. Len(Fields[t])
  BY Tables
<1> QED
  BY <1>1 DEF ToSet, Names

(* At most one field answers to a tag.                                     *)
LEMMA KnownField ==
  ASSUME NEW t \in Types, NEW i \in 1 .. Len(Fields[t])
  PROVE  LET f == Fields[t][i]
         IN  Known(t, f.number, WireType(f.kind)) = {f}
<1> DEFINE f == Fields[t][i]
<1>1. ASSUME NEW g \in Known(t, f.number, WireType(f.kind)) PROVE g = f
  <2>1. PICK j \in 1 .. Len(Fields[t]) : g = Fields[t][j]
    BY <1>1, FieldNames DEF Known
  <2>2. g.number = f.number
    BY <1>1 DEF Known
  <2> QED
    BY <2>1, <2>2, Tables
<1>2. f \in Known(t, f.number, WireType(f.kind))
  BY FieldNames DEF Known
<1> QED
  BY <1>1, <1>2

LEMMA WireTypes == \A k \in Kinds : WireType(k) \in {0, 2}
                                    /\ (WireType(k) = 2 <=> k = "string")
  BY DEF Kinds, WireType

LEMMA DefaultType ==
  ASSUME NEW t \in Types
  PROVE  Default(t) \in Messages(t) /\ Default(t).type = t
         /\ Len(Default(t).unknown) = 0
<1>1. <<>> \in Seq(0 .. 255) /\ <<>> \in Seq(0 .. 127) /\ Len(<<>>) = 0
      /\ <<>> \in Seq(Unknown(t))
  BY EmptySeq
<1>2. \A k \in Kinds : OfKind(k, <<>>)
  BY <1>1 DEF OfKind, IsNumber, IsText, LengthLimit, Kinds
<1>3. \A g \in ToSet(Fields[t]) : g.name \in Names(t) /\ g.kind \in Kinds
  <2> SUFFICES ASSUME NEW g \in ToSet(Fields[t])
               PROVE  g.name \in Names(t) /\ g.kind \in Kinds
    OBVIOUS
  <2>1. PICK i \in 1 .. Len(Fields[t]) : g = Fields[t][i]
    BY FieldNames
  <2>2. Fields[t][i] \in FieldRecord
    BY Tables, ElementOfSeq
  <2> QED
    BY <2>1, <2>2, FieldNames DEF FieldRecord
<1> DEFINE d == Default(t)
<1>4. /\ d \in [type : {t}, f : [Names(t) -> Seq(0 .. 255)],
                unknown : Seq(Unknown(t))]
      /\ \A n \in Names(t) : d.f[n] = <<>>
      /\ d.type = t /\ d.unknown = <<>>
  BY <1>1 DEF Default
<1> HIDE DEF d
<1>5. \A g \in ToSet(Fields[t]) : OfKind(g.kind, d.f[g.name])
  BY <1>2, <1>3, <1>4
<1> QED
  BY <1>1, <1>4, <1>5 DEF d, Messages

-----------------------------------------------------------------------------
(***************************************************************************)
(* Digits.                                                                 *)
(***************************************************************************)
LEMMA MaxProperty ==
  ASSUME NEW n \in Nat, NEW T, T \subseteq 1 .. n, T # {}
  PROVE  Max(T) \in T /\ \A k \in T : k <= Max(T)
<1>1. T \subseteq 0 .. n
  OBVIOUS
<1>2. \E m \in T : \A k \in T : k <= m
  BY <1>1, GreatestNat
<1>3. \E m \in T : \A k \in T : m >= k
  BY <1>2
<1> QED
  BY <1>3 DEF Max

LEMMA MinProperty ==
  ASSUME NEW T, T \subseteq Nat, T # {}
  PROVE  Min(T) \in T /\ \A k \in T : Min(T) <= k
<1>1. \E m \in T : \A k \in T : m <= k
  BY LeastNat
<1> QED
  BY <1>1 DEF Min

Digit == 0 .. 127

(* The digits up to the last one that is not 0.                            *)
LEMMA NormalDigits ==
  ASSUME NEW ds \in Seq(Digit)
  PROVE  \E n \in 0 .. Len(ds) :
           /\ Normal(ds) \in Seq(Digit) /\ Len(Normal(ds)) = n
           /\ \A i \in 1 .. n : Normal(ds)[i] = ds[i]
           /\ n # 0 => ds[n] # 0
           /\ \A i \in n + 1 .. Len(ds) : ds[i] = 0
<1> DEFINE top == {i \in DOMAIN ds : ds[i] # 0}
           n == IF top = {} THEN 0 ELSE Max(top)
<1>1. Len(ds) \in Nat /\ DOMAIN ds = 1 .. Len(ds)
  OBVIOUS
<1>2. top \subseteq 1 .. Len(ds)
  BY <1>1
<1>3. top # {} => Max(top) \in top /\ \A k \in top : k <= Max(top)
  BY <1>1, <1>2, MaxProperty
<1>8. \A i \in 1 .. Len(ds) : i \notin top => ds[i] = 0
  BY <1>1
<1>4. /\ n \in 0 .. Len(ds)
      /\ n # 0 => ds[n] # 0
      /\ \A i \in n + 1 .. Len(ds) : ds[i] = 0
  <2>1. CASE top = {}
    <3>1. n = 0
      BY <2>1
    <3>2. \A i \in 1 .. Len(ds) : ds[i] = 0
      BY <1>1, <2>1
    <3> HIDE DEF n, top
    <3>3. n + 1 = 1 /\ n \in 0 .. Len(ds)
      BY <1>1, <3>1
    <3> QED
      BY <3>1, <3>2, <3>3, Zenon
  <2>2. CASE top # {}
    <3>1. n = Max(top) /\ n \in 1 .. Len(ds) /\ ds[n] # 0
          /\ \A k \in top : k <= n
      BY <1>2, <1>3, <2>2
    <3> HIDE DEF n, top
    <3>2. \A i \in n + 1 .. Len(ds) : i \in 1 .. Len(ds) /\ ~(i <= n)
      BY <1>1, <3>1
    <3>3. \A i \in n + 1 .. Len(ds) : ds[i] = 0
      BY <1>8, <3>1, <3>2, Zenon
    <3> QED
      BY <3>1, <3>3
  <2> QED
    BY <2>1, <2>2
<1>5. Normal(ds) = SubSeq(ds, 1, n)
  BY DEF Normal
<1> HIDE DEF n
<1>6. \A i \in 1 .. n : ds[i] \in Digit
  BY <1>1, <1>4
<1>7. /\ SubSeq(ds, 1, n) \in Seq(Digit) /\ Len(SubSeq(ds, 1, n)) = n
      /\ \A i \in 1 .. n : SubSeq(ds, 1, n)[i] = ds[i]
  BY <1>1, <1>4, <1>6, SubSeqProperties
<1> QED
  BY <1>4, <1>5, <1>7

(* A number as it is read back: a varint has a digit at least.             *)
Shown(v) == IF v = <<>> THEN <<0>> ELSE v

(* What Low takes the digits from.                                         *)
LowFrom(cut, ds, digits, top) ==
  /\ cut \in Seq(Digit)
  /\ Len(cut) = IF Len(ds) < digits THEN Len(ds) ELSE digits
  /\ Low(ds, digits, top) = Normal(cut)
  /\ \A i \in 1 .. Len(cut) :
       cut[i] = IF i = digits THEN ds[i] % top ELSE ds[i]

LEMMA LowDigits ==
  ASSUME NEW ds \in Seq(Digit), NEW digits \in Nat \ {0}, NEW top \in 1 .. 128
  PROVE  \E cut : LowFrom(cut, ds, digits, top)
<1> DEFINE n == IF Len(ds) < digits THEN Len(ds) ELSE digits
           cut == [i \in 1 .. n |-> IF i = digits THEN ds[i] % top ELSE ds[i]]
<1>1. n \in Nat /\ \A i \in 1 .. n : ds[i] \in Digit
  <2>1. Len(ds) \in Nat /\ \A i \in 1 .. Len(ds) : ds[i] \in Digit
    OBVIOUS
  <2>2. n \in Nat /\ n <= Len(ds)
    BY <2>1
  <2> HIDE DEF n
  <2> QED
    BY <2>1, <2>2
<1>2. Low(ds, digits, top) = Normal(cut)
  BY DEF Low
<1> HIDE DEF n
<1>3. \A d \in Digit : d % top \in Digit
  BY DEF Digit
<1>4. \A i \in 1 .. n : cut[i] \in Digit
  BY <1>1, <1>3
<1>5. cut \in Seq(Digit) /\ Len(cut) = n
  BY <1>1, <1>4
<1>6. \A i \in 1 .. n : cut[i] = IF i = digits THEN ds[i] % top ELSE ds[i]
  OBVIOUS
<1> HIDE DEF cut
<1> QED
  BY <1>1, <1>2, <1>5, <1>6 DEF n, LowFrom

(* What is cut to a width has that width, ...                              *)
LEMMA LowType ==
  ASSUME NEW ds \in Seq(Digit), NEW digits \in Nat \ {0}, NEW top \in 1 .. 128
  PROVE  IsNumber(Low(ds, digits, top), digits, top)
<1> DEFINE v == Low(ds, digits, top)
<1>10. PICK cut : LowFrom(cut, ds, digits, top)
  BY LowDigits, Zenon
<1> DEFINE n == Len(cut)
<1>1. /\ n \in Nat /\ cut \in Seq(Digit)
      /\ n = IF Len(ds) < digits THEN Len(ds) ELSE digits
      /\ Len(cut) = n /\ v = Normal(cut)
      /\ \A i \in 1 .. n :
           cut[i] = IF i = digits THEN ds[i] % top ELSE ds[i]
  BY <1>10 DEF LowFrom
<1>2. PICK k \in 0 .. Len(cut) :
           /\ Normal(cut) \in Seq(Digit) /\ Len(Normal(cut)) = k
           /\ \A i \in 1 .. k : Normal(cut)[i] = cut[i]
           /\ k # 0 => cut[k] # 0
           /\ \A i \in k + 1 .. Len(cut) : cut[i] = 0
  BY <1>1, NormalDigits
<1> HIDE DEF v, n
<1>3. v \in Seq(Digit) /\ Len(v) = k /\ k \in Nat /\ k <= n
  BY <1>1, <1>2
<1>4. n <= digits /\ n <= Len(ds)
  BY <1>1
<1>5. Len(v) <= digits
  BY <1>1, <1>3, <1>4
<1>6. k # 0 => v[k] = cut[k] /\ cut[k] # 0
  BY <1>1, <1>2, <1>3
<1>7. v # <<>> => k # 0
  BY <1>3
<1>8. v # <<>> => Last(v) # 0
  BY <1>3, <1>6, <1>7 DEF Last
<1>9. ASSUME Len(v) = digits PROVE Last(v) < top
  <2>1. CASE k = 0
    <3>1. FALSE
      BY <1>3, <1>9, <2>1
    <3> QED
      BY <3>1
  <2>2. CASE k # 0
    <3>1. k \in 1 .. n /\ k = digits /\ k \in 1 .. Len(ds)
      BY <1>1, <1>3, <1>4, <1>9, <2>2
    <3>2. v[k] = ds[k] % top
      BY <1>1, <1>6, <2>2, <3>1
    <3>3. ds[k] \in Digit
      BY <3>1
    <3>4. \A d \in Digit : d % top < top
      BY DEF Digit
    <3> QED
      BY <1>3, <3>2, <3>3, <3>4 DEF Last
  <2> QED
    BY <2>1, <2>2
<1> QED
  BY <1>3, <1>5, <1>8, <1>9 DEF v, IsNumber, Digit

(* ... and a number of that width stays as it is.                          *)
LEMMA NormalSame ==
  ASSUME NEW v \in Seq(Digit), v # <<>>, v[Len(v)] # 0
  PROVE  Normal(v) = v
<1>1. PICK k \in 0 .. Len(v) :
           /\ Normal(v) \in Seq(Digit) /\ Len(Normal(v)) = k
           /\ \A i \in 1 .. k : Normal(v)[i] = v[i]
           /\ k # 0 => v[k] # 0
           /\ \A i \in k + 1 .. Len(v) : v[i] = 0
  BY NormalDigits
<1>2. Len(v) \in Nat /\ Len(v) > 0
  OBVIOUS
<1>3. k = Len(v)
  <2>1. ~(Len(v) \in k + 1 .. Len(v))
    BY <1>1
  <2> QED
    BY <1>2, <2>1
<1> QED
  BY <1>1, <1>3, SeqEqual

LEMMA NormalZero ==
  ASSUME NEW ds \in Seq(Digit), \A i \in 1 .. Len(ds) : ds[i] = 0
  PROVE  Normal(ds) = <<>>
<1>1. PICK k \in 0 .. Len(ds) :
           /\ Normal(ds) \in Seq(Digit) /\ Len(Normal(ds)) = k
           /\ \A i \in 1 .. k : Normal(ds)[i] = ds[i]
           /\ k # 0 => ds[k] # 0
           /\ \A i \in k + 1 .. Len(ds) : ds[i] = 0
  BY NormalDigits
<1>2. k = 0
  BY <1>1
<1> QED
  BY <1>1, <1>2

LEMMA NumberDigits ==
  ASSUME NEW v, NEW digits \in 1 .. 10, NEW top, IsNumber(v, digits, top)
  PROVE  /\ v \in Seq(Digit) /\ Len(v) <= 10
         /\ Shown(v) \in Seq(Digit) /\ Len(Shown(v)) \in 1 .. 10
         /\ Len(Shown(v)) <= digits
<1>1. v \in Seq(Digit) /\ Len(v) \in Nat /\ Len(v) <= digits
  BY DEF IsNumber, Digit
<1>2. CASE v = <<>>
  <2>1. Shown(v) = <<0>> /\ 0 \in Digit
    BY <1>2 DEF Shown, Digit
  <2>2. <<0>> \in Seq(Digit) /\ Len(<<0>>) = 1
    <3>1. 0 \in Digit
      BY <2>1
    <3> QED
      BY <3>1
  <2>3. 1 \in 1 .. 10 /\ 1 <= digits
    OBVIOUS
  <2>4. Len(v) <= 10
    BY <1>1
  <2> QED
    BY <1>1, <2>1, <2>2, <2>3, <2>4, Zenon
<1>3. CASE v # <<>>
  <2>1. Shown(v) = v /\ Len(v) # 0
    BY <1>1, <1>3 DEF Shown
  <2>3. \A k \in Nat : k <= digits => k <= 10 /\ (k # 0 => k \in 1 .. 10)
    OBVIOUS
  <2>2. Len(v) \in 1 .. 10 /\ Len(v) <= 10
    BY <1>1, <2>1, <2>3, Zenon
  <2> QED
    BY <1>1, <2>1, <2>2, Zenon
<1> QED
  BY <1>2, <1>3

LEMMA LowSame ==
  ASSUME NEW digits \in 1 .. 10, NEW top \in {2, 16},
         NEW v, IsNumber(v, digits, top)
  PROVE  Low(Shown(v), digits, top) = v
<1>1. /\ Shown(v) \in Seq(Digit) /\ v \in Seq(Digit)
      /\ Len(Shown(v)) \in 1 .. 10 /\ Len(Shown(v)) <= digits
  BY NumberDigits
<1>6. PICK cut : LowFrom(cut, Shown(v), digits, top)
  <2>1. digits \in Nat \ {0} /\ top \in 1 .. 128
    OBVIOUS
  <2> QED
    BY <1>1, <2>1, LowDigits, Zenon
<1> DEFINE n == Len(cut)
<1>2. /\ n \in Nat /\ cut \in Seq(Digit)
      /\ n = IF Len(Shown(v)) < digits THEN Len(Shown(v)) ELSE digits
      /\ Len(cut) = n /\ Low(Shown(v), digits, top) = Normal(cut)
      /\ \A i \in 1 .. n :
           cut[i] = IF i = digits THEN Shown(v)[i] % top ELSE Shown(v)[i]
  BY <1>6 DEF LowFrom
<1> HIDE DEF n
<1>3. n = Len(Shown(v))
  BY <1>1, <1>2
<1>4. CASE v = <<>>
  <2>1. n = 1 /\ Shown(v)[1] = 0
    BY <1>3, <1>4 DEF Shown
  <2>2. 0 % top = 0
    OBVIOUS
  <2>3. cut[1] = 0
    BY <1>2, <2>1, <2>2
  <2>4. \A i \in 1 .. Len(cut) : cut[i] = 0
    BY <1>2, <2>1, <2>3
  <2> QED
    BY <1>2, <1>4, <2>4, NormalZero
<1>5. CASE v # <<>>
  <2>1. Shown(v) = v /\ n = Len(v) /\ n > 0
    BY <1>1, <1>3, <1>5 DEF Shown
  <2>2. v[n] # 0 /\ (n = digits => v[n] < top)
    BY <1>5, <2>1 DEF IsNumber, Last
  <2>3. \A d \in Digit : d < top => d % top = d
    <3>1. \A d \in Digit : d < 2 => d % 2 = d
      BY DEF Digit
    <3>2. \A d \in Digit : d < 16 => d % 16 = d
      BY DEF Digit
    <3> QED
      BY <3>1, <3>2
  <2>4. ASSUME NEW i \in 1 .. n PROVE cut[i] = v[i]
    <3>1. v[i] \in Digit
      BY <1>1, <2>1
    <3>2. CASE i = digits
      <4>1. i = n
        BY <1>1, <2>1, <3>2
      <4>2. v[i] % top = v[i]
        BY <2>2, <2>3, <3>1, <3>2, <4>1
      <4> QED
        BY <1>2, <2>1, <3>2, <4>2
    <3>3. CASE i # digits
      BY <1>2, <2>1, <3>3
    <3> QED
      BY <3>2, <3>3
  <2>5. cut = v
    BY <1>1, <1>2, <2>1, <2>4, SeqEqual
  <2>6. Normal(v) = v
    BY <1>1, <1>5, <2>1, <2>2, NormalSame
  <2> QED
    BY <1>2, <2>5, <2>6
<1> QED
  BY <1>4, <1>5

-----------------------------------------------------------------------------
(***************************************************************************)
(* Bytes that stop early, and sequences one after the other.               *)
(***************************************************************************)
Bytes == Seq(0 .. 255)

IsCut(c, s) == /\ c \in Bytes /\ Len(c) <= Len(s)
               /\ \A i \in 1 .. Len(c) : c[i] = s[i]

LEMMA BytesConcat ==
  ASSUME NEW x \in Bytes, NEW y \in Bytes
  PROVE  /\ x \o y \in Bytes /\ Len(x) \in Nat /\ Len(y) \in Nat
         /\ Len(x \o y) = Len(x) + Len(y)
         /\ \A i \in 1 .. Len(x) + Len(y) :
              (x \o y)[i] = IF i <= Len(x) THEN x[i] ELSE y[i - Len(x)]
  BY ConcatProperties DEF Bytes

LEMMA BytesAssociative ==
  ASSUME NEW x \in Bytes, NEW y \in Bytes, NEW z \in Bytes
  PROVE  (x \o y) \o z = x \o (y \o z)
  BY ConcatAssociative DEF Bytes

LEMMA ConcatParts ==
  ASSUME NEW S, NEW x \in Seq(S), NEW y \in Seq(S)
  PROVE  /\ SubSeq(x \o y, 1, Len(x)) = x
         /\ SubSeq(x \o y, Len(x) + 1, Len(x \o y)) = y
<1> DEFINE z == x \o y
           a == Len(x)
           b == Len(y)
<1>1. a \in Nat /\ b \in Nat
  OBVIOUS
<1>2. /\ z \in Seq(S) /\ Len(z) = a + b
      /\ \A i \in 1 .. a + b : z[i] = IF i <= a THEN x[i] ELSE y[i - a]
  BY ConcatProperties
<1>3. /\ \A i \in 1 .. a : z[i] = x[i]
      /\ \A i \in 1 .. b : z[a + i] = y[i]
  <2>1. ASSUME NEW i \in 1 .. a PROVE z[i] = x[i]
    BY <1>1, <1>2
  <2>2. ASSUME NEW i \in 1 .. b PROVE z[a + i] = y[i]
    <3>1. a + i \in 1 .. a + b /\ ~(a + i <= a) /\ a + i - a = i
      BY <1>1
    <3> QED
      BY <1>2, <3>1
  <2> QED
    BY <2>1, <2>2
<1> HIDE DEF z
<1>4. \A i \in 1 .. a + b : z[i] \in S
  BY <1>2
<1>5. SubSeq(z, 1, a) = x
  <2>1. \A i \in 1 .. a : z[i] \in S
    BY <1>1, <1>4
  <2>2. /\ SubSeq(z, 1, a) \in Seq(S) /\ Len(SubSeq(z, 1, a)) = a
        /\ \A i \in 1 .. a : SubSeq(z, 1, a)[i] = z[i]
    BY <1>1, <2>1, SubSeqProperties
  <2> QED
    BY <1>3, <2>2, SeqEqual
<1>6. SubSeq(z, a + 1, a + b) = y
  <2> DEFINE w == SubSeq(z, a + 1, a + b)
  <2>1. \A i \in a + 1 .. a + b : z[i] \in S
    BY <1>1, <1>4
  <2>2. /\ w \in Seq(S)
        /\ Len(w) = IF a + 1 <= a + b THEN a + b - (a + 1) + 1 ELSE 0
        /\ \A i \in 1 .. a + b - (a + 1) + 1 : w[i] = z[a + 1 + i - 1]
    <3>1. a + 1 \in Int /\ a + b \in Int
      BY <1>1
    <3> QED
      BY <2>1, <3>1, SubSeqProperties
  <2> HIDE DEF w
  <2>3. Len(w) = b
    BY <1>1, <2>2
  <2>4. ASSUME NEW i \in 1 .. b PROVE w[i] = y[i]
    <3>1. i \in 1 .. a + b - (a + 1) + 1 /\ a + 1 + i - 1 = a + i
      BY <1>1
    <3> QED
      BY <1>3, <2>2, <3>1
  <2> QED
    BY <2>2, <2>3, <2>4, SeqEqual DEF w
<1> QED
  BY <1>2, <1>5, <1>6 DEF z

(* What is cut from two sequences is cut within the first one, or is that  *)
(* one with what is cut from the other.                                    *)
LEMMA CutParts ==
  ASSUME NEW x \in Bytes, NEW y \in Bytes, NEW c, IsCut(c, x \o y)
  PROVE  \/ Len(c) < Len(x) /\ IsCut(c, x)
         \/ \E r : c = x \o r /\ IsCut(r, y)
<1> USE DEF Bytes
<1>1. /\ x \o y \in Bytes /\ Len(x \o y) = Len(x) + Len(y)
      /\ \A i \in 1 .. Len(x) + Len(y) :
           (x \o y)[i] = IF i <= Len(x) THEN x[i] ELSE y[i - Len(x)]
  BY ConcatProperties
<1>2. /\ Len(x) \in Nat /\ Len(y) \in Nat /\ Len(c) \in Nat
      /\ c \in Bytes /\ Len(c) <= Len(x) + Len(y)
      /\ \A i \in 1 .. Len(c) : c[i] = (x \o y)[i]
  BY <1>1 DEF IsCut
<1>3. CASE Len(c) < Len(x)
  <2>1. \A i \in 1 .. Len(c) : c[i] = x[i]
    BY <1>1, <1>2, <1>3
  <2> QED
    BY <1>2, <1>3, <2>1 DEF IsCut
<1>4. CASE Len(x) <= Len(c)
  <2> DEFINE r == [i \in 1 .. Len(c) - Len(x) |-> c[Len(x) + i]]
  <2>1. \A i \in 1 .. Len(c) - Len(x) :
          /\ Len(x) + i \in 1 .. Len(c) /\ Len(x) + i \in 1 .. Len(x) + Len(y)
          /\ ~(Len(x) + i <= Len(x)) /\ Len(x) + i - Len(x) = i
    BY <1>2, <1>4
  <2>2. r \in Bytes /\ Len(r) = Len(c) - Len(x)
    <3>1. Len(c) - Len(x) \in Nat
      BY <1>2, <1>4
    <3>2. \A i \in 1 .. Len(c) : c[i] \in 0 .. 255
      BY <1>2, ElementOfSeq
    <3>3. \A i \in 1 .. Len(c) - Len(x) : c[Len(x) + i] \in 0 .. 255
      BY <2>1, <3>2, Zenon
    <3> QED
      BY <3>1, <3>3
  <2>3. \A i \in 1 .. Len(r) : r[i] = c[Len(x) + i]
    BY <2>2
  <2> HIDE DEF r
  <2>4. \A i \in 1 .. Len(r) : r[i] = y[i]
    <3> SUFFICES ASSUME NEW i \in 1 .. Len(r) PROVE r[i] = y[i]
      OBVIOUS
    <3> DEFINE k == Len(x) + i
    <3>1. /\ k \in 1 .. Len(c) /\ k \in 1 .. Len(x) + Len(y)
          /\ ~(k <= Len(x)) /\ k - Len(x) = i /\ r[i] = c[k]
      BY <2>1, <2>2, <2>3
    <3> HIDE DEF k
    <3> QED
      BY <1>1, <1>2, <3>1
  <2>5. IsCut(r, y)
    BY <1>2, <1>4, <2>2, <2>4 DEF IsCut
  <2>6. /\ x \o r \in Bytes /\ Len(x \o r) = Len(c)
        /\ \A i \in 1 .. Len(c) :
             (x \o r)[i] = IF i <= Len(x) THEN x[i] ELSE r[i - Len(x)]
    <3>1. Len(x) + Len(r) = Len(c)
      BY <1>2, <1>4, <2>2
    <3> QED
      BY <2>2, <3>1, ConcatProperties
  <2>7. ASSUME NEW i \in 1 .. Len(c) PROVE c[i] = (x \o r)[i]
    <3>1. CASE i <= Len(x)
      <4>1. i \in 1 .. Len(x) + Len(y)
        BY <1>2
      <4> QED
        BY <1>1, <1>2, <2>6, <3>1, <4>1
    <3>2. CASE ~(i <= Len(x))
      <4> DEFINE j == i - Len(x)
      <4>1. j \in 1 .. Len(r) /\ Len(x) + j = i
        BY <1>2, <1>4, <2>2, <3>2
      <4>2. (x \o r)[i] = r[j]
        BY <2>6, <3>2
      <4> HIDE DEF j
      <4> QED
        BY <2>3, <4>1, <4>2
    <3> QED
      BY <3>1, <3>2
  <2>8. c = x \o r
    BY <1>2, <2>6, <2>7, SeqEqual
  <2> QED
    BY <2>5, <2>8
<1> QED
  BY <1>2, <1>3, <1>4

-----------------------------------------------------------------------------
(***************************************************************************)
(* Varints.                                                                *)
(***************************************************************************)
LEMMA VarintBytes ==
  ASSUME NEW v, NEW digits \in 1 .. 10, NEW top, IsNumber(v, digits, top)
  PROVE  /\ Varint(v) \in Bytes /\ Len(Varint(v)) = Len(Shown(v))
         /\ \A i \in 1 .. Len(Shown(v)) :
              /\ Varint(v)[i] % 128 = Shown(v)[i]
              /\ Varint(v)[i] < 128 <=> i = Len(Shown(v))
<1>1. v \in Seq(Digit) /\ Shown(v) \in Seq(Digit) /\ Len(Shown(v)) \in 1 .. 10
  BY NumberDigits
<1>2. CASE v = <<>>
  <2>1. Varint(v) = <<0>> /\ Shown(v) = <<0>>
    BY <1>2 DEF Varint, Shown
  <2>2. 0 \in 0 .. 255 /\ 0 % 128 = 0
    OBVIOUS
  <2>3. <<0>> \in Bytes /\ Len(<<0>>) = 1
    BY <2>2 DEF Bytes
  <2> DEFINE w == <<0>>
  <2>4. w \in Bytes /\ Len(w) = 1 /\ w[1] = 0 /\ Varint(v) = w /\ Shown(v) = w
    BY <2>1, <2>3
  <2> HIDE DEF w
  <2>5. \A i \in 1 .. Len(w) :
          w[i] % 128 = w[i] /\ (w[i] < 128 <=> i = Len(w))
    BY <2>2, <2>4
  <2> QED
    BY <2>4, <2>5, Zenon
<1>3. CASE v # <<>>
  <2> DEFINE n == Len(v)
  <2>1. n \in 1 .. 10 /\ DOMAIN v = 1 .. n /\ Shown(v) = v
    BY <1>1, <1>3 DEF Shown
  <2>2. Varint(v) = [i \in 1 .. n |-> v[i] + IF i < n THEN 128 ELSE 0]
    BY <1>3, <2>1 DEF Varint
  <2> HIDE DEF n
  <2>3. \A i \in 1 .. n : v[i] \in 0 .. 127
    BY <1>1, ElementOfSeq DEF n, Digit
  <2>4. \A i \in 1 .. n : v[i] + (IF i < n THEN 128 ELSE 0) \in 0 .. 255
    <3>1. \A d \in 0 .. 127 : d + 128 \in 0 .. 255 /\ d + 0 \in 0 .. 255
      OBVIOUS
    <3> QED
      BY <2>3, <3>1
  <2>5. Varint(v) \in Bytes /\ Len(Varint(v)) = n
    BY <2>1, <2>2, <2>4 DEF Bytes
  <2>6. ASSUME NEW i \in 1 .. n
        PROVE  /\ Varint(v)[i] % 128 = v[i]
               /\ Varint(v)[i] < 128 <=> i = n
    <3>1. Varint(v)[i] = v[i] + IF i < n THEN 128 ELSE 0
      BY <2>2
    <3>2. \A d \in 0 .. 127 : /\ (d + 128) % 128 = d /\ ~(d + 128 < 128)
                              /\ (d + 0) % 128 = d /\ d + 0 < 128
      OBVIOUS
    <3>3. i < n <=> i # n
      BY <2>1
    <3>4. v[i] \in 0 .. 127
      BY <2>3
    <3> QED
      BY <3>1, <3>2, <3>3, <3>4
  <2> QED
    BY <2>1, <2>5, <2>6 DEF n
<1> QED
  BY <1>2, <1>3

(* A varint is what is in front of the first byte below 128, with it.      *)
LEMMA ReadVarintAt ==
  ASSUME NEW bytes \in Bytes, NEW k \in 1 .. Len(bytes), k <= 10,
         bytes[k] < 128, \A i \in 1 .. k - 1 : ~(bytes[i] < 128)
  PROVE  ReadVarint(bytes) = [ok |-> TRUE,
                              v |-> [i \in 1 .. k |-> bytes[i] % 128],
                              rest |-> SubSeq(bytes, k + 1, Len(bytes))]
<1> DEFINE ends == {i \in 1 .. Len(bytes) : i <= 10 /\ bytes[i] < 128}
<1>1. k \in ends /\ ends # {} /\ ends \subseteq Nat
  OBVIOUS
<1>2. Min(ends) \in ends /\ \A i \in ends : Min(ends) <= i
  BY <1>1, MinProperty, Zenon
<1>3. Min(ends) = k
  <2>1. Min(ends) <= k /\ Min(ends) \in 1 .. Len(bytes)
        /\ bytes[Min(ends)] < 128
    BY <1>1, <1>2
  <2> HIDE DEF ends
  <2>2. ~(Min(ends) \in 1 .. k - 1)
    BY <2>1
  <2> QED
    BY <2>1, <2>2
<1> QED
  BY <1>1, <1>3 DEF ReadVarint

LEMMA ReadVarintBad ==
  ASSUME NEW bytes \in Bytes,
         \A i \in 1 .. Len(bytes) : i <= 10 => ~(bytes[i] < 128)
  PROVE  ReadVarint(bytes) = Bad
  BY DEF ReadVarint

LEMMA ReadVarintType ==
  ASSUME NEW bytes \in Bytes, ReadVarint(bytes).ok
  PROVE  /\ ReadVarint(bytes).v \in Seq(Digit)
         /\ Len(ReadVarint(bytes).v) \in 1 .. 10
         /\ ReadVarint(bytes).rest \in Bytes
         /\ Len(ReadVarint(bytes).rest) < Len(bytes)
<1> DEFINE ends == {i \in 1 .. Len(bytes) : i <= 10 /\ bytes[i] < 128}
<1>1. Len(bytes) \in Nat /\ \A i \in 1 .. Len(bytes) : bytes[i] \in 0 .. 255
  BY ElementOfSeq DEF Bytes
<1>2. ends # {}
  <2> SUFFICES ASSUME ends = {} PROVE FALSE
    OBVIOUS
  <2>1. ReadVarint(bytes) = Bad
    BY ReadVarintBad
  <2> QED
    BY <2>1 DEF Bad
<1>3. ends \subseteq Nat
  OBVIOUS
<1>4. PICK k \in ends : \A i \in ends : k <= i
  BY <1>2, <1>3, LeastNat
<1>5. /\ k \in 1 .. Len(bytes) /\ k <= 10 /\ bytes[k] < 128
      /\ \A i \in 1 .. k - 1 : ~(bytes[i] < 128)
  BY <1>1, <1>4
<1> HIDE DEF ends
<1> DEFINE d == [i \in 1 .. k |-> bytes[i] % 128]
           rest == SubSeq(bytes, k + 1, Len(bytes))
<1>6. ReadVarint(bytes) = [ok |-> TRUE, v |-> d, rest |-> rest]
  BY <1>5, ReadVarintAt
<1>7. d \in Seq(Digit) /\ Len(d) = k
  <2>1. \A b \in 0 .. 255 : b % 128 \in Digit
    BY DEF Digit
  <2>2. \A i \in 1 .. k : bytes[i] % 128 \in Digit
    <3>1. \A i \in 1 .. k : i \in 1 .. Len(bytes)
      BY <1>1, <1>5
    <3>2. \A i \in 1 .. k : bytes[i] \in 0 .. 255
      BY <1>1, <3>1, Zenon
    <3> QED
      BY <2>1, <3>2, Zenon
  <2>3. k \in Nat
    BY <1>5
  <2> QED
    BY <2>2, <2>3
<1>8. rest \in Bytes /\ Len(rest) < Len(bytes)
  <2>1. k + 1 \in Int /\ Len(bytes) \in Int
        /\ \A i \in k + 1 .. Len(bytes) : bytes[i] \in 0 .. 255
    BY <1>1, <1>5
  <2>2. rest \in Seq(0 .. 255)
        /\ Len(rest) = IF k + 1 <= Len(bytes) THEN Len(bytes) - (k + 1) + 1 ELSE 0
    BY <2>1, SubSeqProperties
  <2> HIDE DEF rest
  <2> QED
    BY <1>1, <1>5, <2>2 DEF Bytes
<1> HIDE DEF d, rest
<1>9. ReadVarint(bytes).v = d /\ ReadVarint(bytes).rest = rest
  BY <1>6
<1>10. Len(d) \in 1 .. 10
  BY <1>5, <1>7
<1> QED
  BY <1>7, <1>8, <1>9, <1>10

(* What was written is read, ...                                           *)
LEMMA ReadVarintBack ==
  ASSUME NEW v, NEW digits \in 1 .. 10, NEW top, IsNumber(v, digits, top),
         NEW rest \in Bytes
  PROVE  ReadVarint(Varint(v) \o rest)
           = [ok |-> TRUE, v |-> Shown(v), rest |-> rest]
<1> DEFINE x == Varint(v)
           n == Len(Shown(v))
           z == x \o rest
<1>1. /\ x \in Bytes /\ Len(x) = n
      /\ \A i \in 1 .. n : x[i] % 128 = Shown(v)[i] /\ (x[i] < 128 <=> i = n)
  BY VarintBytes
<1>2. Shown(v) \in Seq(Digit) /\ n \in 1 .. 10
  BY NumberDigits
<1> HIDE DEF x
<1>3. /\ z \in Bytes /\ Len(z) = n + Len(rest)
      /\ \A i \in 1 .. n + Len(rest) :
           z[i] = IF i <= n THEN x[i] ELSE rest[i - n]
  <2>1. /\ x \o rest \in Bytes /\ Len(x \o rest) = Len(x) + Len(rest)
        /\ \A i \in 1 .. Len(x) + Len(rest) :
             (x \o rest)[i] = IF i <= Len(x) THEN x[i] ELSE rest[i - Len(x)]
    <3>1. x \in Seq(0 .. 255) /\ rest \in Seq(0 .. 255)
      BY <1>1 DEF Bytes
    <3> QED
      BY <3>1, ConcatProperties DEF Bytes
  <2>2. Len(x) = n
    BY <1>1
  <2> HIDE DEF n
  <2> QED
    BY <2>1, <2>2
<1>4. Len(rest) \in Nat
  BY DEF Bytes
<1>5. SubSeq(z, n + 1, Len(z)) = rest
  BY <1>1, ConcatParts DEF Bytes
<1> HIDE DEF z, n
<1>6. \A i \in 1 .. n : z[i] = x[i]
  <2>1. \A i \in 1 .. n : i \in 1 .. n + Len(rest) /\ i <= n
    BY <1>2, <1>4
  <2> QED
    BY <1>3, <2>1
<1>7. n \in 1 .. Len(z) /\ n <= 10 /\ z[n] < 128
  BY <1>1, <1>2, <1>3, <1>4, <1>6
<1>8. \A i \in 1 .. n - 1 : ~(z[i] < 128)
  <2> SUFFICES ASSUME NEW i \in 1 .. n - 1 PROVE ~(z[i] < 128)
    OBVIOUS
  <2>1. i \in 1 .. n /\ i # n
    BY <1>2
  <2> QED
    BY <1>1, <1>6, <2>1, Zenon
<1>9. ReadVarint(z) = [ok |-> TRUE, v |-> [i \in 1 .. n |-> z[i] % 128],
                       rest |-> SubSeq(z, n + 1, Len(z))]
  BY <1>3, <1>7, <1>8, ReadVarintAt
<1>10. [i \in 1 .. n |-> z[i] % 128] = Shown(v)
  <2> DEFINE w == [i \in 1 .. n |-> z[i] % 128]
  <2>1. \A i \in 1 .. n : z[i] % 128 = Shown(v)[i]
    BY <1>1, <1>6
  <2>2. \A i \in 1 .. n : Shown(v)[i] \in Digit
    BY <1>2, ElementOfSeq DEF n
  <2>3. \A i \in 1 .. n : z[i] % 128 \in Digit
    BY <2>1, <2>2
  <2>4. w \in Seq(Digit) /\ Len(w) = n
    BY <1>2, <2>3
  <2>5. \A i \in 1 .. n : w[i] = Shown(v)[i]
    BY <2>1
  <2> HIDE DEF w
  <2>6. w = Shown(v)
    BY <1>2, <2>4, <2>5, SeqEqual DEF n
  <2> QED
    BY <2>6 DEF w
<1> QED
  BY <1>5, <1>9, <1>10 DEF z, x

(* ... and not when it stops early.                                        *)
LEMMA ReadVarintEarly ==
  ASSUME NEW v, NEW digits \in 1 .. 10, NEW top, IsNumber(v, digits, top),
         NEW c, IsCut(c, Varint(v)), Len(c) < Len(Varint(v))
  PROVE  ReadVarint(c) = Bad
<1>1. /\ Len(Varint(v)) = Len(Shown(v))
      /\ \A i \in 1 .. Len(Shown(v)) : Varint(v)[i] < 128 <=> i = Len(Shown(v))
  BY VarintBytes
<1>2. Len(Shown(v)) \in 1 .. 10
  BY NumberDigits
<1>3. c \in Bytes /\ Len(c) \in Nat
  BY DEF IsCut, Bytes
<1>4. ASSUME NEW i \in 1 .. Len(c) PROVE ~(c[i] < 128)
  <2>1. i \in 1 .. Len(Shown(v)) /\ i # Len(Shown(v))
    BY <1>1, <1>2, <1>3
  <2>2. c[i] = Varint(v)[i]
    BY DEF IsCut
  <2> QED
    BY <1>1, <2>1, <2>2, Zenon
<1> QED
  BY <1>3, <1>4, ReadVarintBad, Zenon

-----------------------------------------------------------------------------
(***************************************************************************)
(* Lengths and strings.                                                    *)
(***************************************************************************)
LEMMA LengthDigits ==
  ASSUME NEW n \in Nat, n < LengthLimit
  PROVE  \E a, b, c \in Digit :
           /\ n = a + 128 * b + 16384 * c
           /\ Digits(n) = Normal(<<a, b, c>>)
<1> DEFINE a == n % 128
           q == n \div 128
           b == q % 128
           c == n \div 16384
<1>1. a \in Digit /\ q \in Nat /\ n = a + 128 * q
  BY DEF Digit
<1>2. q < 16384
  BY <1>1 DEF LengthLimit, Digit
<1>3. b \in Digit /\ q = b + 128 * (q \div 128) /\ q \div 128 \in Digit
  BY <1>1, <1>2 DEF Digit
<1>4. c = q \div 128
  OBVIOUS
<1>5. n = a + 128 * b + 16384 * c
  <2> HIDE DEF a, q, b, c
  <2>1. c \in Digit /\ q = b + 128 * c
    BY <1>3, <1>4
  <2> QED
    BY <1>1, <1>3, <2>1 DEF Digit
<1>6. Digits(n) = Normal(<<a, b, c>>)
  BY DEF Digits
<1>7. c \in Digit
  BY <1>3, <1>4
<1>8. a \in Digit /\ b \in Digit
  BY <1>1, <1>3
<1> HIDE DEF a, b, c
<1> USE <1>7, <1>8
<1> WITNESS a \in Digit, b \in Digit, c \in Digit
<1> QED
  BY <1>5, <1>6

LEMMA DigitsOfLength ==
  ASSUME NEW n \in Nat, n < LengthLimit
  PROVE  IsNumber(Digits(n), 3, 128) /\ Value(Shown(Digits(n))) = n
<1>1. PICK a \in Digit, b \in Digit, c \in Digit :
        n = a + 128 * b + 16384 * c /\ Digits(n) = Normal(<<a, b, c>>)
  BY LengthDigits
<1> DEFINE ds == <<a, b, c>>
           v == Digits(n)
<1>2. ds \in Seq(Digit) /\ Len(ds) = 3 /\ ds[1] = a /\ ds[2] = b /\ ds[3] = c
  OBVIOUS
<1> HIDE DEF ds
<1>3. PICK k \in 0 .. Len(ds) :
           /\ Normal(ds) \in Seq(Digit) /\ Len(Normal(ds)) = k
           /\ \A i \in 1 .. k : Normal(ds)[i] = ds[i]
           /\ k # 0 => ds[k] # 0
           /\ \A i \in k + 1 .. Len(ds) : ds[i] = 0
  BY <1>2, NormalDigits
<1>4. v = Normal(ds)
  BY <1>1 DEF ds
<1> HIDE DEF v
<1>5. /\ v \in Seq(Digit) /\ Len(v) = k /\ k \in {0, 1, 2, 3}
      /\ \A i \in 1 .. k : v[i] = ds[i]
      /\ k # 0 => ds[k] # 0
      /\ \A i \in k + 1 .. 3 : ds[i] = 0
  BY <1>2, <1>3, <1>4
<1>6. IsNumber(v, 3, 128)
  <2>1. v # <<>> => k # 0
    BY <1>5
  <2>2. k # 0 => Last(v) = ds[k]
    BY <1>5 DEF Last
  <2>3. k # 0 => ds[k] < 128
    <3>1. k # 0 => k \in 1 .. Len(ds)
      BY <1>2, <1>5
    <3>2. k # 0 => ds[k] \in Digit
      BY <1>2, <3>1, ElementOfSeq
    <3>3. \A d \in Digit : d < 128
      BY DEF Digit
    <3> QED
      BY <3>2, <3>3, Zenon
  <2> QED
    BY <1>5, <2>1, <2>2, <2>3 DEF IsNumber, Digit
<1>7. Value(Shown(v)) = n
  <2>1. CASE k = 0
    <3>1. v = <<>> /\ a = 0 /\ b = 0 /\ c = 0
      BY <1>2, <1>5, <2>1
    <3>2. Shown(v) = <<0>>
      BY <3>1 DEF Shown
    <3>3. Value(<<0>>) = 0
      BY DEF Value
    <3> QED
      BY <1>1, <3>1, <3>2, <3>3
  <2>2. CASE k = 1
    <3>3. 1 \in 1 .. k /\ 2 \in k + 1 .. 3 /\ 3 \in k + 1 .. 3
      BY <2>2
    <3>6. Len(v) = 1
      BY <1>5, <2>2
    <3>7. v \in Seq(Digit)
      BY <1>5
    <3>5. v # <<>>
      BY <3>6, <3>7
    <3>4. v[1] = ds[1] /\ ds[2] = 0 /\ ds[3] = 0 /\ v # <<>>
      BY <1>5, <3>3, <3>5, Zenon
    <3>1. Shown(v) = v /\ Len(v) = 1 /\ v[1] = a /\ b = 0 /\ c = 0
      BY <1>2, <1>5, <2>2, <3>4 DEF Shown
    <3>2. Value(v) = a + 128 * 0 + 16384 * 0
      BY <3>1 DEF Value
    <3> QED
      BY <1>1, <3>1, <3>2 DEF Digit
  <2>3. CASE k = 2
    <3>3. 1 \in 1 .. k /\ 2 \in 1 .. k /\ 3 \in k + 1 .. 3
      BY <2>3
    <3>4. v[1] = ds[1] /\ v[2] = ds[2] /\ ds[3] = 0
      BY <1>5, <3>3, Zenon
    <3>5. Len(v) = 2 /\ v \in Seq(Digit)
      BY <1>5, <2>3
    <3>6. v # <<>>
      BY <3>5
    <3>1. Shown(v) = v /\ Len(v) = 2 /\ v[1] = a /\ v[2] = b /\ c = 0
      BY <1>2, <3>4, <3>5, <3>6 DEF Shown
    <3>2. Value(v) = a + 128 * b + 16384 * 0
      BY <3>1 DEF Value
    <3> QED
      BY <1>1, <3>1, <3>2 DEF Digit
  <2>4. CASE k = 3
    <3>1. Shown(v) = v /\ Len(v) = 3 /\ v[1] = a /\ v[2] = b /\ v[3] = c
      BY <1>2, <1>5, <2>4 DEF Shown
    <3>2. Value(v) = a + 128 * b + 16384 * c
      BY <3>1 DEF Value
    <3> QED
      BY <1>1, <3>1, <3>2 DEF Digit
  <2> QED
    BY <1>5, <2>1, <2>2, <2>3, <2>4
<1> QED
  BY <1>6, <1>7 DEF v

(* Three digits are no more than the limit.                                *)
LEMMA ValueLimit ==
  ASSUME NEW ds \in Seq(Digit), Len(ds) <= 3
  PROVE  Value(ds) \in Nat /\ Value(ds) < LengthLimit
<1> DEFINE d(i) == IF i <= Len(ds) THEN ds[i] ELSE 0
<1>1. ASSUME NEW i \in 1 .. 3 PROVE d(i) \in Digit
  <2>1. CASE i <= Len(ds)
    <3>1. i \in 1 .. Len(ds)
      BY <2>1
    <3> QED
      BY <2>1, <3>1, ElementOfSeq
  <2>2. CASE ~(i <= Len(ds))
    BY <2>2 DEF Digit
  <2> QED
    BY <2>1, <2>2
<1>2. \E x, y, z \in Digit : Value(ds) = x + 128 * y + 16384 * z
  <2>1. d(1) \in Digit /\ d(2) \in Digit /\ d(3) \in Digit
    <3>1. 1 \in 1 .. 3 /\ 2 \in 1 .. 3 /\ 3 \in 1 .. 3
      OBVIOUS
    <3> HIDE DEF d
    <3> QED
      BY <1>1, <3>1, Zenon
  <2>2. Value(ds) = d(1) + 128 * d(2) + 16384 * d(3)
    BY DEF Value
  <2> HIDE DEF d
  <2> USE <2>1
  <2> WITNESS d(1) \in Digit, d(2) \in Digit, d(3) \in Digit
  <2> QED
    BY <2>2
<1>3. PICK x \in Digit, y \in Digit, z \in Digit :
        Value(ds) = x + 128 * y + 16384 * z
  BY <1>2
<1> QED
  BY <1>3 DEF LengthLimit, Digit

LEMMA ReadStringType ==
  ASSUME NEW bytes \in Bytes, ReadString(bytes).ok
  PROVE  /\ IsText(ReadString(bytes).v)
         /\ ReadString(bytes).rest \in Bytes
         /\ Len(ReadString(bytes).rest) < Len(bytes)
<1> DEFINE size == ReadVarint(bytes)
           n == Value(size.v)
           rest == size.rest
           head == SubSeq(rest, 1, n)
           tail == SubSeq(rest, n + 1, Len(rest))
<1>1. ~Bad.ok
  BY DEF Bad
<1>2. /\ size.ok /\ Len(size.v) <= 3 /\ n <= Len(rest)
      /\ ReadString(bytes) = [ok |-> TRUE, v |-> head, rest |-> tail]
  <2>1. size.ok
    BY <1>1 DEF ReadString
  <2>2. size.v \in Seq(Digit)
    BY <2>1, ReadVarintType
  <2>3. Len(size.v) \in Nat
    BY <2>2
  <2>4. ~(Len(size.v) > 3 \/ n > Len(rest))
    BY <1>1, <2>1 DEF ReadString
  <2>5. rest \in Bytes /\ Len(size.v) <= 3
    BY <2>1, <2>3, <2>4, ReadVarintType
  <2>6. Len(rest) \in Nat /\ n \in Nat
    BY <2>2, <2>5, ValueLimit DEF Bytes
  <2>7. n <= Len(rest)
    BY <2>4, <2>6
  <2>8. ReadString(bytes) = [ok |-> TRUE, v |-> head, rest |-> tail]
    BY <2>1, <2>4 DEF ReadString
  <2> QED
    BY <2>1, <2>5, <2>7, <2>8
<1>3. rest \in Bytes /\ Len(rest) < Len(bytes) /\ size.v \in Seq(Digit)
  BY <1>2, ReadVarintType
<1>4. n \in Nat /\ n < LengthLimit
  BY <1>2, <1>3, ValueLimit
<1> HIDE DEF size, n
<1>5. Len(rest) \in Nat /\ Len(bytes) \in Nat
      /\ \A i \in 1 .. Len(rest) : rest[i] \in 0 .. 255
  <2> HIDE DEF rest
  <2>1. rest \in Seq(0 .. 255)
    BY <1>3 DEF Bytes
  <2> QED
    BY <2>1, ElementOfSeq DEF Bytes
<1>6. head \in Seq(0 .. 255) /\ Len(head) = n
  <2>3. \A i \in 1 .. n : i \in 1 .. Len(rest)
    BY <1>2, <1>4, <1>5
  <2>1. \A i \in 1 .. n : rest[i] \in 0 .. 255
    BY <1>5, <2>3, Zenon
  <2>2. /\ head \in Seq(0 .. 255)
        /\ Len(head) = IF 1 <= n THEN n - 1 + 1 ELSE 0
    BY <1>4, <2>1, SubSeqProperties
  <2> HIDE DEF head
  <2> QED
    BY <1>4, <2>2
<1>7. tail \in Seq(0 .. 255) /\ Len(tail) < Len(bytes)
  <2>3. n + 1 \in Int /\ \A i \in n + 1 .. Len(rest) : i \in 1 .. Len(rest)
    BY <1>4, <1>5
  <2>1. n + 1 \in Int /\ \A i \in n + 1 .. Len(rest) : rest[i] \in 0 .. 255
    BY <1>5, <2>3, Zenon
  <2>2. /\ tail \in Seq(0 .. 255)
        /\ Len(tail) = IF n + 1 <= Len(rest) THEN Len(rest) - (n + 1) + 1 ELSE 0
    BY <1>5, <2>1, SubSeqProperties
  <2> HIDE DEF tail, rest
  <2> QED
    BY <1>3, <1>4, <1>5, <2>2
<1> HIDE DEF head, tail
<1>8. ReadString(bytes).v = head /\ ReadString(bytes).rest = tail
  BY <1>2
<1> QED
  BY <1>4, <1>6, <1>7, <1>8 DEF IsText, Bytes

LEMMA ReadStringBack ==
  ASSUME NEW v, IsText(v), NEW rest \in Bytes
  PROVE  ReadString((Varint(Digits(Len(v))) \o v) \o rest)
           = [ok |-> TRUE, v |-> v, rest |-> rest]
<1> DEFINE d == Digits(Len(v))
           n == Len(v)
           x == Varint(d)
           y == v \o rest
<1>1. v \in Seq(0 .. 255) /\ n \in Nat /\ n < LengthLimit
  BY DEF IsText
<1>2. IsNumber(d, 3, 128) /\ Value(Shown(d)) = n
  BY <1>1, DigitsOfLength
<1>3. 3 \in 1 .. 10
  OBVIOUS
<1>12. Len(Shown(d)) <= 3 /\ Len(Shown(d)) \in 1 .. 10
  BY <1>2, <1>3, NumberDigits, Zenon
<1>4. x \in Bytes /\ Len(Shown(d)) <= 3 /\ Len(Shown(d)) \in 1 .. 10
  <2> HIDE DEF d
  <2> QED
    BY <1>2, <1>3, <1>12, VarintBytes
<1>5. y \in Bytes /\ Len(y) = n + Len(rest) /\ Len(rest) \in Nat
  BY <1>1, ConcatProperties DEF Bytes
<1>6. (x \o v) \o rest = x \o y
  <2> HIDE DEF x
  <2> QED
    <3>1. x \in Seq(0 .. 255) /\ rest \in Seq(0 .. 255)
      BY <1>4 DEF Bytes
    <3> QED
      BY <1>1, <3>1, ConcatAssociative
<1>7. ReadVarint(x \o y) = [ok |-> TRUE, v |-> Shown(d), rest |-> y]
  <2> HIDE DEF d, y
  <2> QED
    BY <1>2, <1>3, <1>5, ReadVarintBack, Zenon
<1>8. SubSeq(y, 1, n) = v /\ SubSeq(y, n + 1, Len(y)) = rest
  BY <1>1, ConcatParts DEF Bytes
<1> HIDE DEF d, n, x, y
<1> DEFINE z == x \o y
<1>9. ReadVarint(z).ok /\ ReadVarint(z).v = Shown(d) /\ ReadVarint(z).rest = y
  BY <1>7
<1> HIDE DEF z
<1>10. ~(Len(Shown(d)) > 3 \/ n > Len(y))
  BY <1>1, <1>4, <1>5
<1>11. ReadString(z) = [ok |-> TRUE, v |-> SubSeq(y, 1, n),
                        rest |-> SubSeq(y, n + 1, Len(y))]
  BY <1>2, <1>9, <1>10 DEF ReadString
<1> QED
  BY <1>6, <1>8, <1>11 DEF z, x, d

LEMMA ReadStringEarly ==
  ASSUME NEW v, IsText(v),
         NEW c, IsCut(c, Varint(Digits(Len(v))) \o v),
         Len(c) < Len(Varint(Digits(Len(v))) \o v)
  PROVE  ReadString(c) = Bad
<1> DEFINE d == Digits(Len(v))
           n == Len(v)
           x == Varint(d)
<1>1. v \in Bytes /\ n \in Nat /\ n < LengthLimit
  BY DEF IsText, Bytes
<1>2. IsNumber(d, 3, 128) /\ Value(Shown(d)) = n
  BY <1>1, DigitsOfLength
<1>3. 3 \in 1 .. 10
  OBVIOUS
<1>4. x \in Bytes
  <2> HIDE DEF d
  <2> QED
    BY <1>2, <1>3, VarintBytes
<1>5. Len(x \o v) = Len(x) + n /\ Len(x) \in Nat
  <2> HIDE DEF x
  <2> QED
    BY <1>1, <1>4, ConcatProperties DEF Bytes
<1>6. \/ Len(c) < Len(x) /\ IsCut(c, x)
      \/ \E r : c = x \o r /\ IsCut(r, v)
  BY <1>1, <1>4, CutParts, Zenon
<1>7. CASE Len(c) < Len(x) /\ IsCut(c, x)
  <2>1. ReadVarint(c) = Bad
    BY <1>2, <1>3, <1>7, ReadVarintEarly, Zenon
  <2> QED
    BY <2>1 DEF ReadString, Bad
<1>8. CASE \E r : c = x \o r /\ IsCut(r, v)
  <2>1. PICK r : c = x \o r /\ IsCut(r, v)
    BY <1>8
  <2>2. r \in Bytes
    BY <2>1 DEF IsCut
  <2>3. ReadVarint(c) = [ok |-> TRUE, v |-> Shown(d), rest |-> r]
    BY <1>2, <1>3, <2>1, <2>2, ReadVarintBack, Zenon
  <2>4. Len(c) = Len(x) + Len(r) /\ Len(r) \in Nat
    <3> HIDE DEF x
    <3> QED
      BY <1>4, <2>1, <2>2, ConcatProperties DEF Bytes
  <2>6. Len(c) < Len(x) + n
    BY <1>5
  <2> HIDE DEF d, n, x
  <2>5. n > Len(r)
    BY <1>1, <1>5, <2>4, <2>6
  <2>7. ReadVarint(c).v = Shown(d) /\ ReadVarint(c).rest = r
    BY <2>3
  <2> QED
    BY <1>2, <2>5, <2>7 DEF ReadString
<1> QED
  BY <1>6, <1>7, <1>8

-----------------------------------------------------------------------------
(***************************************************************************)
(* Tags and values.                                                        *)
(***************************************************************************)
Writable(wt, v) == \/ wt = 2 /\ IsText(v)
                   \/ wt = 0 /\ (IsNumber(v, 5, 16) \/ IsNumber(v, 10, 2))

Body(wt, v) == IF wt = 2 THEN Varint(Digits(Len(v))) \o v ELSE Varint(v)

(* A value as it is read back.                                             *)
ReadBack(wt, v) == IF wt = 2 THEN v ELSE Shown(v)

LEMMA NumberKinds ==
  ASSUME NEW v, Writable(0, v)
  PROVE  \E digits \in 1 .. 10, top \in {2, 16} : IsNumber(v, digits, top)
<1>1. IsNumber(v, 5, 16) \/ IsNumber(v, 10, 2)
  BY DEF Writable
<1>2. 5 \in 1 .. 10 /\ 10 \in 1 .. 10 /\ 2 \in {2, 16} /\ 16 \in {2, 16}
  OBVIOUS
<1> QED
  BY <1>1, <1>2, Zenon

LEMMA BodyBytes ==
  ASSUME NEW wt \in {0, 2}, NEW v, Writable(wt, v)
  PROVE  Body(wt, v) \in Bytes
<1>1. CASE wt = 0
  <2>1. PICK digits \in 1 .. 10, top \in {2, 16} : IsNumber(v, digits, top)
    BY <1>1, NumberKinds
  <2>2. Varint(v) \in Bytes
    BY <2>1, VarintBytes, Zenon
  <2> QED
    BY <1>1, <2>2 DEF Body
<1>2. CASE wt = 2
  <2>1. v \in Bytes /\ Len(v) \in Nat /\ Len(v) < LengthLimit
    BY <1>2 DEF Writable, IsText, Bytes
  <2>2. IsNumber(Digits(Len(v)), 3, 128) /\ 3 \in 1 .. 10
    BY <2>1, DigitsOfLength
  <2>3. Varint(Digits(Len(v))) \in Bytes
    BY <2>2, VarintBytes
  <2> QED
    BY <1>2, <2>1, <2>3, ConcatProperties DEF Body, Bytes
<1> QED
  BY <1>1, <1>2

LEMMA ReadValueBack ==
  ASSUME NEW wt \in {0, 2}, NEW v, Writable(wt, v), NEW rest \in Bytes
  PROVE  ReadValue(wt, Body(wt, v) \o rest)
           = [ok |-> TRUE, v |-> ReadBack(wt, v), rest |-> rest]
<1>1. CASE wt = 0
  <2>1. PICK digits \in 1 .. 10, top \in {2, 16} : IsNumber(v, digits, top)
    BY <1>1, NumberKinds
  <2>2. ReadVarint(Varint(v) \o rest)
          = [ok |-> TRUE, v |-> Shown(v), rest |-> rest]
    BY <2>1, ReadVarintBack, Zenon
  <2> QED
    BY <1>1, <2>2 DEF Body, ReadBack, ReadValue
<1>2. CASE wt = 2
  <2>1. IsText(v)
    BY <1>2 DEF Writable
  <2>2. ReadString((Varint(Digits(Len(v))) \o v) \o rest)
           = [ok |-> TRUE, v |-> v, rest |-> rest]
    BY <2>1, ReadStringBack, Zenon
  <2> QED
    BY <1>2, <2>2 DEF Body, ReadBack, ReadValue
<1> QED
  BY <1>1, <1>2

LEMMA ReadValueEarly ==
  ASSUME NEW wt \in {0, 2}, NEW v, Writable(wt, v),
         NEW c, IsCut(c, Body(wt, v)), Len(c) < Len(Body(wt, v))
  PROVE  ReadValue(wt, c) = Bad
<1>1. CASE wt = 0
  <2>1. PICK digits \in 1 .. 10, top \in {2, 16} : IsNumber(v, digits, top)
    BY <1>1, NumberKinds
  <2>2. Body(wt, v) = Varint(v)
    BY <1>1 DEF Body
  <2>3. ReadVarint(c) = Bad
    BY <2>1, <2>2, ReadVarintEarly, Zenon
  <2> QED
    BY <1>1, <2>3 DEF ReadValue
<1>2. CASE wt = 2
  <2>1. IsText(v)
    BY <1>2 DEF Writable
  <2>2. Body(wt, v) = Varint(Digits(Len(v))) \o v
    BY <1>2 DEF Body
  <2>3. ReadString(c) = Bad
    BY <2>1, <2>2, ReadStringEarly, Zenon
  <2> QED
    BY <1>2, <2>3 DEF ReadValue
<1> QED
  BY <1>1, <1>2

LEMMA ReadValueType ==
  ASSUME NEW wt \in Nat, NEW bytes \in Bytes, ReadValue(wt, bytes).ok
  PROVE  /\ wt \in {0, 2}
         /\ wt = 2 => IsText(ReadValue(wt, bytes).v)
         /\ wt = 0 => ReadValue(wt, bytes).v \in Seq(Digit)
         /\ ReadValue(wt, bytes).rest \in Bytes
         /\ Len(ReadValue(wt, bytes).rest) < Len(bytes)
<1>1. wt \in {0, 2}
  BY DEF ReadValue, Bad
<1>2. CASE wt = 0
  <2>1. ReadValue(wt, bytes) = ReadVarint(bytes)
    BY <1>2 DEF ReadValue
  <2> QED
    BY <1>2, <2>1, ReadVarintType
<1>3. CASE wt = 2
  <2>1. ReadValue(wt, bytes) = ReadString(bytes)
    BY <1>3 DEF ReadValue
  <2> QED
    BY <1>3, <2>1, ReadStringType
<1> QED
  BY <1>1, <1>2, <1>3

-----------------------------------------------------------------------------
(***************************************************************************)
(* Messages, and what the parser does to one.                              *)
(***************************************************************************)
LEMMA NumberBytes ==
  ASSUME NEW v, NEW digits, NEW top, IsNumber(v, digits, top)
  PROVE  v \in Bytes
<1>1. v \in Seq(0 .. 127)
  BY DEF IsNumber
<1>2. 0 .. 127 \subseteq 0 .. 255
  OBVIOUS
<1> QED
  BY <1>1, <1>2, SeqMonotonic DEF Bytes

LEMMA KindValue ==
  ASSUME NEW kind \in Kinds, NEW v, OfKind(kind, v)
  PROVE  v \in Bytes /\ Writable(WireType(kind), v)
<1>1. CASE kind = "uint32"
  <2>1. IsNumber(v, 5, 16) /\ WireType(kind) = 0
    BY <1>1 DEF OfKind, WireType
  <2> QED
    BY <2>1, NumberBytes DEF Writable
<1>2. CASE kind = "uint64"
  <2>1. IsNumber(v, 10, 2) /\ WireType(kind) = 0
    BY <1>2 DEF OfKind, WireType
  <2> QED
    BY <2>1, NumberBytes DEF Writable
<1>3. CASE kind = "string"
  BY <1>3 DEF OfKind, WireType, Writable, IsText, Bytes
<1> QED
  BY <1>1, <1>2, <1>3 DEF Kinds

LEMMA FieldFacts ==
  ASSUME NEW t \in Types, NEW i \in 1 .. Len(Fields[t])
  PROVE  /\ Fields[t][i].number \in 1 .. 15
         /\ Fields[t][i].kind \in Kinds
         /\ Fields[t][i].name \in Names(t)
         /\ Fields[t][i] \in ToSet(Fields[t])
<1>1. Fields[t][i] \in FieldRecord
  BY Tables, ElementOfSeq
<1> QED
  BY <1>1, FieldNames DEF FieldRecord

LEMMA MessageFacts ==
  ASSUME NEW t \in Types, NEW m \in Messages(t)
  PROVE  /\ m \in [type : {t}, f : [Names(t) -> Bytes],
                   unknown : Seq(Unknown(t))]
         /\ m.type = t /\ m.f \in [Names(t) -> Bytes]
         /\ m.unknown \in Seq(Unknown(t))
         /\ \A i \in 1 .. Len(Fields[t]) :
              OfKind(Fields[t][i].kind, m.f[Fields[t][i].name])
<1>1. /\ m \in [type : {t}, f : [Names(t) -> Bytes],
                unknown : Seq(Unknown(t))]
      /\ \A f \in ToSet(Fields[t]) : OfKind(f.kind, m.f[f.name])
  BY DEF Messages, Bytes
<1>2. \A i \in 1 .. Len(Fields[t]) : Fields[t][i] \in ToSet(Fields[t])
  BY FieldFacts
<1>3. \A i \in 1 .. Len(Fields[t]) :
         OfKind(Fields[t][i].kind, m.f[Fields[t][i].name])
  BY <1>1, <1>2, Zenon
<1> QED
  BY <1>1, <1>3

LEMMA MessageMade ==
  ASSUME NEW t \in Types, NEW f \in [Names(t) -> Bytes],
         NEW u \in Seq(Unknown(t)),
         \A i \in 1 .. Len(Fields[t]) :
           OfKind(Fields[t][i].kind, f[Fields[t][i].name])
  PROVE  [type |-> t, f |-> f, unknown |-> u] \in Messages(t)
<1>1. \A g \in ToSet(Fields[t]) : OfKind(g.kind, f[g.name])
  BY FieldNames
<1> DEFINE m == [type |-> t, f |-> f, unknown |-> u]
<1>2. m \in [type : {t}, f : [Names(t) -> Seq(0 .. 255)],
             unknown : Seq(Unknown(t))] /\ m.f = f
  BY DEF Bytes
<1> HIDE DEF m
<1>3. \A g \in ToSet(Fields[t]) : OfKind(g.kind, m.f[g.name])
  BY <1>1, <1>2
<1>4. m \in Messages(t)
  BY <1>2, <1>3 DEF Messages
<1> QED
  BY <1>4 DEF m

LEMMA FieldStored ==
  ASSUME NEW t \in Types, NEW m \in Messages(t),
         NEW i \in 1 .. Len(Fields[t]), NEW v,
         OfKind(Fields[t][i].kind, v)
  PROVE  /\ [m EXCEPT !.f[Fields[t][i].name] = v] \in Messages(t)
         /\ [m EXCEPT !.f[Fields[t][i].name] = v]
              = [type |-> t, f |-> [m.f EXCEPT ![Fields[t][i].name] = v],
                 unknown |-> m.unknown]
<1> DEFINE n == Fields[t][i].name
           f == [m.f EXCEPT ![n] = v]
<1>1. /\ m \in [type : {t}, f : [Names(t) -> Bytes],
                unknown : Seq(Unknown(t))]
      /\ m.type = t /\ m.f \in [Names(t) -> Bytes]
      /\ m.unknown \in Seq(Unknown(t))
      /\ \A j \in 1 .. Len(Fields[t]) :
           OfKind(Fields[t][j].kind, m.f[Fields[t][j].name])
  BY MessageFacts
<1>2. n \in Names(t) /\ v \in Bytes
  BY FieldFacts, KindValue
<1>3. f \in [Names(t) -> Bytes]
  BY <1>1, <1>2
<1>4. ASSUME NEW j \in 1 .. Len(Fields[t])
      PROVE  OfKind(Fields[t][j].kind, f[Fields[t][j].name])
  <2>1. CASE j = i
    <3>1. f[Fields[t][j].name] = v
      BY <1>1, <1>2, <2>1
    <3> QED
      BY <2>1, <3>1
  <2>2. CASE j # i
    <3>1. Fields[t][j].name # n
      BY <2>2, Tables
    <3>2. f[Fields[t][j].name] = m.f[Fields[t][j].name]
      BY <1>1, <3>1, FieldFacts
    <3> QED
      BY <1>1, <3>2
  <2> QED
    BY <2>1, <2>2
<1>5. [type |-> t, f |-> f, unknown |-> m.unknown] \in Messages(t)
  <2> HIDE DEF f
  <2> QED
    BY <1>1, <1>3, <1>4, MessageMade
<1>6. [m EXCEPT !.f[n] = v] = [type |-> t, f |-> f, unknown |-> m.unknown]
  <2> HIDE DEF n
  <2> QED
    BY <1>1
<1> QED
  BY <1>5, <1>6

LEMMA UnknownStored ==
  ASSUME NEW t \in Types, NEW m \in Messages(t), NEW u \in Unknown(t)
  PROVE  /\ [m EXCEPT !.unknown = Append(@, u)] \in Messages(t)
         /\ [m EXCEPT !.unknown = Append(@, u)]
              = [type |-> t, f |-> m.f, unknown |-> Append(m.unknown, u)]
<1>1. /\ m \in [type : {t}, f : [Names(t) -> Bytes],
                unknown : Seq(Unknown(t))]
      /\ m.type = t /\ m.f \in [Names(t) -> Bytes]
      /\ m.unknown \in Seq(Unknown(t))
      /\ \A j \in 1 .. Len(Fields[t]) :
           OfKind(Fields[t][j].kind, m.f[Fields[t][j].name])
  BY MessageFacts
<1>2. Append(m.unknown, u) \in Seq(Unknown(t))
  BY <1>1, AppendProperties
<1>3. [type |-> t, f |-> m.f, unknown |-> Append(m.unknown, u)] \in Messages(t)
  BY <1>1, <1>2, MessageMade
<1>4. [m EXCEPT !.unknown = Append(@, u)]
         = [type |-> t, f |-> m.f, unknown |-> Append(m.unknown, u)]
  <2>1. \A w : [m EXCEPT !.unknown = w] = [type |-> t, f |-> m.f, unknown |-> w]
    BY <1>1
  <2> QED
    BY <2>1, Zenon
<1> QED
  BY <1>3, <1>4

LEMMA StoredType ==
  ASSUME NEW t \in Types, NEW m \in Messages(t), NEW number \in 1 .. 15,
         NEW wt \in {0, 2}, NEW v,
         wt = 2 => IsText(v), wt = 0 => v \in Seq(Digit)
  PROVE  Stored(m, number, wt, v) \in Messages(t)
<1> DEFINE known == Known(t, number, wt)
<1>1. m.type = t
  BY MessageFacts
<1>2. ASSUME wt = 0, NEW kind
      PROVE  /\ kind = "uint32" => IsNumber(Truncated(kind, v), 5, 16)
             /\ kind # "uint32" => IsNumber(Truncated(kind, v), 10, 2)
  <2>1. /\ 5 \in Nat \ {0} /\ 10 \in Nat \ {0}
        /\ 2 \in 1 .. 128 /\ 16 \in 1 .. 128 /\ v \in Seq(Digit)
    BY <1>2
  <2>2. IsNumber(Low(v, 5, 16), 5, 16) /\ IsNumber(Low(v, 10, 2), 10, 2)
    BY <2>1, LowType, Zenon
  <2> QED
    BY <2>2 DEF Truncated
<1>3. CASE known = {}
  <2> DEFINE w == IF wt = 2 THEN v ELSE Truncated("uint64", v)
             u == [number |-> number, wt |-> wt, v |-> w]
  <2>1. OfKind(IF wt = 2 THEN "string" ELSE "uint64", w)
    <3>1. CASE wt = 2
      BY <3>1 DEF OfKind
    <3>2. CASE wt = 0
      BY <1>2, <3>2 DEF OfKind
    <3> QED
      BY <3>1, <3>2
  <2>2. w \in Bytes
    BY <2>1, KindValue DEF Kinds
  <2> HIDE DEF w
  <2>3. u \in Unknown(t)
    BY <1>3, <2>1, <2>2 DEF Unknown, Bytes
  <2> HIDE DEF u
  <2>4. Stored(m, number, wt, v) = [m EXCEPT !.unknown = Append(@, u)]
    BY <1>1, <1>3 DEF Stored, u, w
  <2> QED
    <3>1. [m EXCEPT !.unknown = Append(@, u)] \in Messages(t)
      BY <2>3, UnknownStored
    <3> QED
      BY <2>4, <3>1, Zenon
<1>4. CASE known # {}
  <2> DEFINE f == CHOOSE f \in known : TRUE
             w == IF wt = 2 THEN v ELSE Truncated(f.kind, v)
  <2>1. f \in known
    BY <1>4
  <2>2. Stored(m, number, wt, v) = [m EXCEPT !.f[f.name] = w]
    BY <1>1, <1>4 DEF Stored
  <2> HIDE DEF f
  <2>3. PICK i \in 1 .. Len(Fields[t]) : f = Fields[t][i]
    BY <2>1, FieldNames DEF Known
  <2>4. WireType(f.kind) = wt /\ f.kind \in Kinds
    BY <2>1, <2>3, FieldFacts DEF Known
  <2>5. OfKind(f.kind, w)
    <3>1. CASE wt = 2
      BY <2>4, <3>1 DEF OfKind, WireType
    <3>2. CASE wt = 0
      BY <1>2, <2>4, <3>2 DEF OfKind, WireType, Kinds
    <3> QED
      BY <3>1, <3>2
  <2> HIDE DEF w
  <2>6. [m EXCEPT !.f[Fields[t][i].name] = w] \in Messages(t)
    BY <2>3, <2>5, FieldStored, Zenon
  <2> QED
    BY <2>2, <2>3, <2>6, Zenon
<1> QED
  BY <1>3, <1>4

States(t) == [ok : BOOLEAN, msg : Messages(t), rest : Bytes]

LEMMA AdvanceType ==
  ASSUME NEW t \in Types, NEW s \in States(t)
  PROVE  /\ Advance(s) \in States(t)
         /\ (s.ok /\ s.rest # <<>> /\ Advance(s).ok)
              => Len(Advance(s).rest) < Len(s.rest)
<1> DEFINE number == s.rest[1] \div 8
           wt == s.rest[1] % 8
           r == ReadValue(wt, Tail(s.rest))
           refused == /\ wt = 2 /\ ~Utf8Valid(r.v)
                      /\ Known(s.msg.type, number, wt) # {}
<1>1. s.ok \in BOOLEAN /\ s.msg \in Messages(t) /\ s.rest \in Bytes
  BY DEF States
<1>2. CASE ~s.ok \/ s.rest = <<>>
  BY <1>2 DEF Advance
<1>3. CASE ~(~s.ok \/ s.rest = <<>>) /\ (number \notin 1 .. 15 \/ ~r.ok)
  <2>1. Advance(s) = [s EXCEPT !.ok = FALSE]
    BY <1>3 DEF Advance
  <2> QED
    BY <2>1 DEF States
<1>4. CASE ~(~s.ok \/ s.rest = <<>>) /\ ~(number \notin 1 .. 15 \/ ~r.ok)
  <2>1. Advance(s) = [ok |-> ~refused, msg |-> Stored(s.msg, number, wt, r.v),
                      rest |-> r.rest]
    BY <1>4 DEF Advance
  <2>2. Tail(s.rest) \in Bytes /\ Len(Tail(s.rest)) < Len(s.rest)
        /\ s.rest[1] \in 0 .. 255 /\ Len(s.rest) \in Nat
    <3>1. s.rest \in Seq(0 .. 255) /\ s.rest # <<>>
      BY <1>1, <1>4 DEF Bytes
    <3>2. 1 \in 1 .. Len(s.rest) /\ Len(s.rest) \in Nat
      BY <3>1
    <3>3. s.rest[1] \in 0 .. 255
      BY <3>1, <3>2, ElementOfSeq
    <3> QED
      BY <3>1, <3>2, <3>3, HeadTailProperties DEF Bytes
  <2>3. wt \in Nat /\ number \in 1 .. 15 /\ r.ok
    <3>1. \A b \in 0 .. 255 : b % 8 \in Nat
      OBVIOUS
    <3>2. wt \in Nat
      BY <2>2, <3>1, Zenon
    <3> HIDE DEF r, wt, number
    <3> QED
      BY <1>4, <3>2
  <2> HIDE DEF wt, number
  <2>4. /\ wt \in {0, 2}
        /\ wt = 2 => IsText(r.v)
        /\ wt = 0 => r.v \in Seq(Digit)
        /\ r.rest \in Bytes /\ Len(r.rest) < Len(Tail(s.rest))
    BY <2>2, <2>3, ReadValueType
  <2> HIDE DEF r, refused
  <2>5. Stored(s.msg, number, wt, r.v) \in Messages(t)
    BY <1>1, <2>3, <2>4, StoredType
  <2>6. (~refused) \in BOOLEAN
    BY DEF refused
  <2>7. Len(r.rest) \in Nat /\ Len(Tail(s.rest)) \in Nat
    BY <2>2, <2>4 DEF Bytes
  <2>8. Len(r.rest) < Len(s.rest)
    BY <2>2, <2>4, <2>7
  <2>9. Advance(s).rest = r.rest
    BY <2>1
  <2>10. Advance(s) \in States(t)
    BY <2>1, <2>4, <2>5, <2>6 DEF States
  <2> QED
    BY <2>8, <2>9, <2>10
<1> QED
  BY <1>2, <1>3, <1>4

LEMMA StartType ==
  ASSUME NEW t \in Types, NEW bytes \in Bytes
  PROVE  Start(t, bytes) \in States(t)
  BY DefaultType DEF Start, States

LEMMA ParsedType ==
  ASSUME NEW t \in Types, NEW bytes \in Bytes
  PROVE  Parsed(t, bytes) \in States(t)
<1>1. Start(t, bytes) \in States(t) /\ bytes \in Seq(0 .. 255)
  BY StartType DEF Bytes
<1>2. \A s \in States(t) : Advance(s) \in States(t) /\ s.rest \in Seq(0 .. 255)
  BY AdvanceType DEF States, Bytes
<1>3. \A s \in States(t) : (s.ok /\ s.rest # <<>> /\ Advance(s).ok)
                              => Len(Advance(s).rest) < Len(s.rest)
  BY AdvanceType
<1> QED
  BY <1>1, <1>2, <1>3, ParsedStays, Zenon

-----------------------------------------------------------------------------
(***************************************************************************)
(* What is written.                                                        *)
(***************************************************************************)
LEMMA RecordBytes ==
  ASSUME NEW number \in 1 .. 15, NEW wt \in {0, 2}, NEW v, Writable(wt, v)
  PROVE  /\ Record(number, wt, v) = <<8 * number + wt>> \o Body(wt, v)
         /\ Record(number, wt, v) \in Bytes
         /\ Len(Record(number, wt, v)) = 1 + Len(Body(wt, v))
         /\ <<8 * number + wt>> \in Bytes /\ 8 * number + wt \in 0 .. 255
<1>1. Record(number, wt, v) = <<8 * number + wt>> \o Body(wt, v)
  BY DEF Record, Body
<1>2. 8 * number + wt \in 0 .. 255
  OBVIOUS
<1>3. <<8 * number + wt>> \in Bytes /\ Len(<<8 * number + wt>>) = 1
  BY <1>2 DEF Bytes
<1>4. Body(wt, v) \in Bytes
  BY BodyBytes
<1> DEFINE x == <<8 * number + wt>>
           b == Body(wt, v)
<1> HIDE DEF x, b
<1>5. x \o b \in Bytes /\ Len(x \o b) = Len(x) + Len(b)
  BY <1>3, <1>4, ConcatProperties DEF x, b, Bytes
<1> QED
  BY <1>1, <1>2, <1>3, <1>5 DEF x, b

LEMMA UnknownFacts ==
  ASSUME NEW t, NEW u \in Unknown(t)
  PROVE  /\ u.number \in 1 .. 15 /\ u.wt \in {0, 2}
         /\ Writable(u.wt, u.v) /\ Known(t, u.number, u.wt) = {}
         /\ u = [number |-> u.number, wt |-> u.wt, v |-> u.v]
         /\ u.wt = 2 => IsText(u.v)
         /\ u.wt = 0 => IsNumber(u.v, 10, 2)
  BY DEF Unknown, OfKind, Writable

(* The bytes of a message: one piece for each field of the table and one   *)
(* for each unknown field.                                                 *)
LEMMA PiecesOf ==
  ASSUME NEW t \in Types, NEW m \in Messages(t)
  PROVE  /\ Pieces(m) \in Seq(Bytes)
         /\ Len(Fields[t]) \in Nat /\ Len(m.unknown) \in Nat
         /\ Len(Pieces(m)) = Len(Fields[t]) + Len(m.unknown)
         /\ \A i \in 1 .. Len(Fields[t]) :
              Pieces(m)[i] = FieldBytes(m, Fields[t][i])
         /\ \A i \in 1 .. Len(m.unknown) :
              Pieces(m)[Len(Fields[t]) + i]
                = Record(m.unknown[i].number, m.unknown[i].wt, m.unknown[i].v)
<1> DEFINE F == Len(Fields[t])
           U == Len(m.unknown)
           x == [i \in 1 .. F |-> FieldBytes(m, Fields[t][i])]
           y == [i \in 1 .. U |-> Record(m.unknown[i].number, m.unknown[i].wt,
                                         m.unknown[i].v)]
<1>1. /\ m.type = t /\ m.f \in [Names(t) -> Bytes]
      /\ m.unknown \in Seq(Unknown(t))
      /\ \A i \in 1 .. F : OfKind(Fields[t][i].kind, m.f[Fields[t][i].name])
  BY MessageFacts
<1>2. F \in Nat /\ U \in Nat
  BY <1>1, Tables
<1>3. ASSUME NEW i \in 1 .. F PROVE FieldBytes(m, Fields[t][i]) \in Bytes
  <2> DEFINE g == Fields[t][i]
  <2>1. g.kind \in Kinds /\ g.number \in 1 .. 15 /\ OfKind(g.kind, m.f[g.name])
    BY <1>1, FieldFacts
  <2>2. Writable(WireType(g.kind), m.f[g.name]) /\ WireType(g.kind) \in {0, 2}
    BY <2>1, KindValue, WireTypes
  <2> HIDE DEF g
  <2>3. Record(g.number, WireType(g.kind), m.f[g.name]) \in Bytes
    BY <2>1, <2>2, RecordBytes
  <2>4. <<>> \in Bytes
    BY DEF Bytes
  <2>5. FieldBytes(m, g) \in Bytes
    BY <2>3, <2>4 DEF FieldBytes
  <2> QED
    BY <2>5 DEF g
<1>4. ASSUME NEW i \in 1 .. U
      PROVE  Record(m.unknown[i].number, m.unknown[i].wt, m.unknown[i].v) \in Bytes
  <2>1. m.unknown[i] \in Unknown(t)
    BY <1>1, ElementOfSeq
  <2> DEFINE u == m.unknown[i]
  <2> HIDE DEF u
  <2>2. Record(u.number, u.wt, u.v) \in Bytes
    BY <2>1, UnknownFacts, RecordBytes DEF u
  <2> QED
    BY <2>2 DEF u
<1>5. Pieces(m) = x \o y
  BY <1>1 DEF Pieces
<1> HIDE DEF F, U
<1>6. x \in Seq(Bytes) /\ Len(x) = F
      /\ \A i \in 1 .. F : x[i] = FieldBytes(m, Fields[t][i])
  BY <1>2, <1>3
<1>7. y \in Seq(Bytes) /\ Len(y) = U
      /\ \A i \in 1 .. U : y[i] = Record(m.unknown[i].number, m.unknown[i].wt,
                                         m.unknown[i].v)
  BY <1>2, <1>4
<1> HIDE DEF x, y
<1>8. /\ x \o y \in Seq(Bytes) /\ Len(x \o y) = Len(x) + Len(y)
      /\ \A i \in 1 .. Len(x) + Len(y) :
           (x \o y)[i] = IF i <= Len(x) THEN x[i] ELSE y[i - Len(x)]
  BY <1>6, <1>7, ConcatProperties
<1>9. ASSUME NEW i \in 1 .. F PROVE (x \o y)[i] = FieldBytes(m, Fields[t][i])
  <2>1. i \in 1 .. Len(x) + Len(y) /\ i <= Len(x)
    BY <1>2, <1>6, <1>7
  <2> QED
    BY <1>6, <1>8, <2>1
<1>10. ASSUME NEW i \in 1 .. U
       PROVE  (x \o y)[F + i] = Record(m.unknown[i].number, m.unknown[i].wt,
                                       m.unknown[i].v)
  <2> DEFINE k == F + i
  <2>1. k \in 1 .. Len(x) + Len(y) /\ ~(k <= Len(x)) /\ k - Len(x) = i
    BY <1>2, <1>6, <1>7
  <2> HIDE DEF k
  <2>2. (x \o y)[k] = y[i]
    BY <1>8, <2>1
  <2> QED
    BY <1>7, <2>2 DEF k
<1> QED
  BY <1>2, <1>5, <1>6, <1>7, <1>8, <1>9, <1>10 DEF F, U

LEMMA SerializeType ==
  ASSUME NEW t \in Types, NEW m \in Messages(t)
  PROVE  Serialize(m) \in Bytes
<1>1. Pieces(m) \in Seq(Seq(0 .. 255))
  BY PiecesOf DEF Bytes
<1> QED
  BY <1>1, FlattenType DEF Serialize, Bytes

-----------------------------------------------------------------------------
(***************************************************************************)
(* The types of all objects.                                               *)
(***************************************************************************)
LEMMA MergedType ==
  ASSUME NEW t \in Types, NEW to \in Messages(t), NEW from \in Messages(t)
  PROVE  /\ Merged(to, from) \in Messages(t)
         /\ Merged(to, from)
              = [type |-> t,
                 f |-> [n \in Names(t) |-> IF from.f[n] # <<>> THEN from.f[n]
                                           ELSE to.f[n]],
                 unknown |-> to.unknown \o from.unknown]
<1> DEFINE f == [n \in Names(t) |-> IF from.f[n] # <<>> THEN from.f[n]
                                    ELSE to.f[n]]
           u == to.unknown \o from.unknown
<1>1. /\ to \in [type : {t}, f : [Names(t) -> Bytes],
                 unknown : Seq(Unknown(t))]
      /\ to.type = t /\ to.f \in [Names(t) -> Bytes]
      /\ to.unknown \in Seq(Unknown(t))
      /\ \A j \in 1 .. Len(Fields[t]) :
           OfKind(Fields[t][j].kind, to.f[Fields[t][j].name])
  BY MessageFacts
<1>2. /\ from.f \in [Names(t) -> Bytes]
      /\ from.unknown \in Seq(Unknown(t))
      /\ \A j \in 1 .. Len(Fields[t]) :
           OfKind(Fields[t][j].kind, from.f[Fields[t][j].name])
  BY MessageFacts
<1>3. f \in [Names(t) -> Bytes]
  BY <1>1, <1>2
<1>4. u \in Seq(Unknown(t))
  BY <1>1, <1>2, ConcatProperties
<1>5. ASSUME NEW j \in 1 .. Len(Fields[t])
      PROVE  OfKind(Fields[t][j].kind, f[Fields[t][j].name])
  <2>1. Fields[t][j].name \in Names(t)
    BY FieldFacts
  <2>2. f[Fields[t][j].name] \in {from.f[Fields[t][j].name],
                                  to.f[Fields[t][j].name]}
    BY <2>1
  <2> QED
    BY <1>1, <1>2, <2>2
<1>6. Merged(to, from) = [type |-> t, f |-> f, unknown |-> u]
  <2>1. DOMAIN to.f = Names(t)
    BY <1>1
  <2> QED
    BY <1>1, <2>1 DEF Merged
<1> HIDE DEF f, u
<1>7. [type |-> t, f |-> f, unknown |-> u] \in Messages(t)
  BY <1>3, <1>4, <1>5, MessageMade
<1> QED
  BY <1>6, <1>7 DEF f, u

LEMMA CopiedSame ==
  ASSUME NEW t \in Types, NEW to \in Messages(t), NEW from \in Messages(t)
  PROVE  Copied(to, from) = from
<1>1. to.type = t
  BY MessageFacts
<1>2. Copied(to, from) = Merged(Default(t), from)
  BY <1>1 DEF Copied, Cleared
<1>3. Default(t) \in Messages(t)
  BY DefaultType
<1>4. /\ \A n \in Names(t) : Default(t).f[n] = <<>>
      /\ Default(t).unknown = <<>>
  BY DEF Default
<1>5. /\ from \in [type : {t}, f : [Names(t) -> Bytes],
                   unknown : Seq(Unknown(t))]
      /\ from.type = t /\ from.f \in [Names(t) -> Bytes]
      /\ from.unknown \in Seq(Unknown(t))
  BY MessageFacts
<1> DEFINE f == [n \in Names(t) |-> IF from.f[n] # <<>> THEN from.f[n]
                                    ELSE Default(t).f[n]]
<1>6. Merged(Default(t), from)
        = [type |-> t, f |-> f, unknown |-> Default(t).unknown \o from.unknown]
  BY <1>3, MergedType
<1>7. f = from.f
  BY <1>4, <1>5
<1>8. Default(t).unknown \o from.unknown = from.unknown
  BY <1>4, <1>5, ConcatEmptySeq
<1> HIDE DEF f
<1>9. [type |-> t, f |-> from.f, unknown |-> from.unknown] = from
  BY <1>5
<1> QED
  BY <1>2, <1>6, <1>7, <1>8, <1>9

LEMMA PutType ==
  ASSUME TypeOK, NEW o \in Objects, NEW t \in Types, NEW m \in Messages(t),
         Put(o, m)
  PROVE  TypeOK'
<1>1. obj' = [obj EXCEPT ![o] = m] /\ Len(m.unknown) <= MaxUnknown
  BY DEF Put
<1>2. DOMAIN obj' = Objects /\ \A p \in Objects : obj'[p] = IF p = o THEN m ELSE obj[p]
  BY <1>1 DEF TypeOK
<1>3. m.type = t
  BY MessageFacts
<1>4. ASSUME NEW p \in Objects
      PROVE  /\ obj'[p].type \in Types
             /\ obj'[p] \in Messages(obj'[p].type)
             /\ Len(obj'[p].unknown) <= MaxUnknown
  <2>1. CASE p = o
    <3>1. obj'[p] = m
      BY <1>2, <2>1
    <3> QED
      BY <1>1, <1>3, <3>1
  <2>2. CASE p # o
    <3>1. obj'[p] = obj[p]
      BY <1>2, <2>2
    <3> QED
      BY <3>1 DEF TypeOK
  <2> QED
    BY <2>1, <2>2
<1> QED
  BY <1>2, <1>4 DEF TypeOK

LEMMA SetType ==
  ASSUME TypeOK, NEW o \in Objects, NEW t \in Types,
         NEW i \in 1 .. Len(Fields[t]), NEW values,
         \A v \in values : OfKind(Fields[t][i].kind, v),
         Set(o, t, Fields[t][i].name, values)
  PROVE  TypeOK'
<1> DEFINE m(v) == [obj[o] EXCEPT !.f[Fields[t][i].name] = v]
<1>1. obj[o].type = t /\ \E v \in values : Put(o, m(v))
  BY DEF Set
<1>2. obj[o] \in Messages(t)
  BY <1>1 DEF TypeOK
<1>3. PICK v \in values : Put(o, m(v))
  BY <1>1
<1>4. m(v) \in Messages(t)
  BY <1>2, FieldStored
<1> HIDE DEF m
<1> QED
  BY <1>3, <1>4, PutType

LEMMA FieldKinds ==
  /\ Len(Fields["CommandHeader"]) = 2
  /\ Fields["CommandHeader"][1] = Field(1, "command_type", "uint32")
  /\ Fields["CommandHeader"][2] = Field(2, "recipient", "string")
  /\ Len(Fields["CommandResponse"]) = 3
  /\ Fields["CommandResponse"][1] = Field(1, "status_code", "uint32")
  /\ Fields["CommandResponse"][2] = Field(2, "error_message", "string")
  /\ Fields["CommandResponse"][3] = Field(3, "response_type", "uint32")
  /\ Len(Fields["CreateStream"]) = 1
  /\ Fields["CreateStream"][1] = Field(1, "name", "string")
  /\ Len(Fields["EventHeader"]) = 2
  /\ Fields["EventHeader"][1] = Field(1, "timestamp", "uint64")
  /\ Fields["EventHeader"][2] = Field(2, "event_type", "uint32")
  BY DEF Fields, CommandHeader, CommandResponse, CreateStream, EventHeader

LEMMA SetFieldType ==
  ASSUME TypeOK, NEW o \in Objects, NEW t \in Types,
         NEW i \in 1 .. Len(Fields[t]), NEW n, NEW k, NEW kind, NEW values,
         Fields[t][i] = Field(k, n, kind),
         \A v \in values : OfKind(kind, v),
         Set(o, t, n, values)
  PROVE  TypeOK'
<1>1. Fields[t][i].name = n /\ Fields[t][i].kind = kind
  BY DEF Field
<1> QED
  BY <1>1, SetType

LEMMA NextType == TypeOK /\ [Next]_obj => TypeOK'
<1> SUFFICES ASSUME TypeOK, [Next]_obj PROVE TypeOK'
  OBVIOUS
<1> USE CqrsAssumption
<1>1. /\ \A v \in UInt32s : OfKind("uint32", v)
      /\ \A v \in UInt64s : OfKind("uint64", v)
      /\ \A v \in Strings : OfKind("string", v)
  BY DEF CqrsAssumption
<1>2. \A o \in Objects : obj[o].type \in Types /\ obj[o] \in Messages(obj[o].type)
  BY DEF TypeOK
<1>3. /\ "CommandHeader" \in Types /\ "CommandResponse" \in Types
      /\ "CreateStream" \in Types /\ "EventHeader" \in Types
  BY Classes
<1>4. ASSUME NEW o \in Objects, SetCommandHeader(o) PROVE TypeOK'
  <2>1. CASE Set(o, "CommandHeader", "command_type", UInt32s)
    <3>1. 1 \in 1 .. Len(Fields["CommandHeader"])
      BY FieldKinds
    <3>2. Fields["CommandHeader"][1] = Field(1, "command_type", "uint32")
      BY FieldKinds
    <3> QED
      BY <1>1, <1>3, <2>1, <3>1, <3>2, SetFieldType, Zenon
  <2>2. CASE Set(o, "CommandHeader", "recipient", Strings)
    <3>1. 2 \in 1 .. Len(Fields["CommandHeader"])
      BY FieldKinds
    <3>2. Fields["CommandHeader"][2] = Field(2, "recipient", "string")
      BY FieldKinds
    <3> QED
      BY <1>1, <1>3, <2>2, <3>1, <3>2, SetFieldType, Zenon
  <2> QED
    BY <1>4, <2>1, <2>2 DEF SetCommandHeader
<1>5. ASSUME NEW o \in Objects, SetCommandResponse(o) PROVE TypeOK'
  <2>1. CASE Set(o, "CommandResponse", "status_code", UInt32s)
    <3>1. 1 \in 1 .. Len(Fields["CommandResponse"])
      BY FieldKinds
    <3>2. Fields["CommandResponse"][1] = Field(1, "status_code", "uint32")
      BY FieldKinds
    <3> QED
      BY <1>1, <1>3, <2>1, <3>1, <3>2, SetFieldType, Zenon
  <2>2. CASE Set(o, "CommandResponse", "error_message", Strings)
    <3>1. 2 \in 1 .. Len(Fields["CommandResponse"])
      BY FieldKinds
    <3>2. Fields["CommandResponse"][2] = Field(2, "error_message", "string")
      BY FieldKinds
    <3> QED
      BY <1>1, <1>3, <2>2, <3>1, <3>2, SetFieldType, Zenon
  <2>3. CASE Set(o, "CommandResponse", "response_type", UInt32s)
    <3>1. 3 \in 1 .. Len(Fields["CommandResponse"])
      BY FieldKinds
    <3>2. Fields["CommandResponse"][3] = Field(3, "response_type", "uint32")
      BY FieldKinds
    <3> QED
      BY <1>1, <1>3, <2>3, <3>1, <3>2, SetFieldType, Zenon
  <2> QED
    BY <1>5, <2>1, <2>2, <2>3 DEF SetCommandResponse
<1>6. ASSUME NEW o \in Objects, SetCreateStream(o) PROVE TypeOK'
  <2>1. 1 \in 1 .. Len(Fields["CreateStream"])
    BY FieldKinds
  <2>2. Fields["CreateStream"][1] = Field(1, "name", "string")
    BY FieldKinds
  <2>3. Set(o, "CreateStream", "name", Strings)
    BY <1>6 DEF SetCreateStream
  <2> QED
    BY <1>1, <1>3, <2>1, <2>2, <2>3, SetFieldType, Zenon
<1>7. ASSUME NEW o \in Objects, SetEventHeader(o) PROVE TypeOK'
  <2>1. CASE Set(o, "EventHeader", "timestamp", UInt64s)
    <3>1. 1 \in 1 .. Len(Fields["EventHeader"])
      BY FieldKinds
    <3>2. Fields["EventHeader"][1] = Field(1, "timestamp", "uint64")
      BY FieldKinds
    <3> QED
      BY <1>1, <1>3, <2>1, <3>1, <3>2, SetFieldType, Zenon
  <2>2. CASE Set(o, "EventHeader", "event_type", UInt32s)
    <3>1. 2 \in 1 .. Len(Fields["EventHeader"])
      BY FieldKinds
    <3>2. Fields["EventHeader"][2] = Field(2, "event_type", "uint32")
      BY FieldKinds
    <3> QED
      BY <1>1, <1>3, <2>2, <3>1, <3>2, SetFieldType, Zenon
  <2> QED
    BY <1>7, <2>1, <2>2 DEF SetEventHeader
<1>8. ASSUME NEW o \in Objects, NEW t \in Types, Construct(o, t) PROVE TypeOK'
  BY <1>8, DefaultType, PutType DEF Construct
<1>9. ASSUME NEW o \in Objects, Clear(o) PROVE TypeOK'
  <2>1. Cleared(obj[o]) \in Messages(obj[o].type)
    BY <1>2, DefaultType DEF Cleared
  <2> QED
    BY <1>2, <1>9, <2>1, PutType DEF Clear
<1>10. ASSUME NEW o \in Objects, NEW p \in Objects, CopyConstruct(o, p)
       PROVE  TypeOK'
  BY <1>2, <1>10, PutType DEF CopyConstruct
<1>11. ASSUME NEW o \in Objects, NEW p \in Objects, CopyFrom(o, p)
       PROVE  TypeOK'
  <2>1. CASE o = p
    BY <1>11, <2>1 DEF CopyFrom, TypeOK
  <2>2. CASE o # p
    <3>1. obj[o].type = obj[p].type /\ Put(o, Copied(obj[o], obj[p]))
      BY <1>11, <2>2 DEF CopyFrom
    <3>2. Copied(obj[o], obj[p]) = obj[p]
      BY <1>2, <3>1, CopiedSame
    <3> QED
      BY <1>2, <3>1, <3>2, PutType
  <2> QED
    BY <2>1, <2>2
<1>12. ASSUME NEW o \in Objects, NEW p \in Objects, MergeFrom(o, p)
       PROVE  TypeOK'
  <2>1. obj[o].type = obj[p].type /\ Put(o, Merged(obj[o], obj[p]))
    BY <1>12 DEF MergeFrom
  <2>2. Merged(obj[o], obj[p]) \in Messages(obj[p].type)
    BY <1>2, <2>1, MergedType
  <2> QED
    BY <1>2, <2>1, <2>2, PutType
<1>13. ASSUME NEW o \in Objects, NEW p \in Objects, InternalSwap(o, p)
       PROVE  TypeOK'
  <2>1. /\ DOMAIN obj' = Objects
        /\ \A q \in Objects : \E r \in Objects : obj'[q] = obj[r]
    <3>1. obj' = [obj EXCEPT ![o] = obj[p], ![p] = obj[o]]
      BY <1>13 DEF InternalSwap
    <3>2. DOMAIN obj = Objects
      BY DEF TypeOK
    <3>3. /\ DOMAIN obj' = Objects
          /\ \A q \in Objects : obj'[q] = IF q = p THEN obj[o]
                                          ELSE IF q = o THEN obj[p] ELSE obj[q]
      BY <3>1, <3>2
    <3> QED
      BY <3>3
  <2> QED
    BY <2>1 DEF TypeOK
<1>14. ASSUME NEW o \in Objects, NEW p \in Objects, NEW t \in Types,
              Deserialize(o, p, t)
       PROVE  TypeOK'
  <2> DEFINE r == Parsed(t, Serialize(obj[p]))
  <2>1. Serialize(obj[p]) \in Bytes
    BY <1>2, SerializeType
  <2>2. r \in States(t)
    BY <2>1, ParsedType
  <2>3. r.msg \in Messages(t)
    BY <2>2 DEF States
  <2>4. IF r.ok THEN Put(o, r.msg) ELSE UNCHANGED obj
    BY <1>14 DEF Deserialize
  <2> HIDE DEF r
  <2>5. CASE r.ok
    BY <2>3, <2>4, <2>5, PutType
  <2>6. CASE ~r.ok
    BY <2>4, <2>6 DEF TypeOK
  <2> QED
    BY <2>5, <2>6
<1>15. CASE UNCHANGED obj
  BY <1>15 DEF TypeOK
<1> QED
  BY <1>4, <1>5, <1>6, <1>7, <1>8, <1>9, <1>10, <1>11, <1>12, <1>13, <1>14,
     <1>15 DEF Next

(* A field never holds a value wider than its type, whatever the classes   *)
(* of the objects whose bytes the parser is given.                         *)
THEOREM MessageTypes == Spec => []TypeOK
<1>1. Init => TypeOK
  <2> SUFFICES ASSUME Init PROVE TypeOK
    OBVIOUS
  <2>1. "CommandHeader" \in Types /\ MaxUnknown \in Nat
    BY Classes, CqrsAssumption DEF CqrsAssumption
  <2>2. /\ Default("CommandHeader") \in Messages("CommandHeader")
        /\ Default("CommandHeader").type = "CommandHeader"
        /\ Len(Default("CommandHeader").unknown) = 0
    BY <2>1, DefaultType
  <2>3. DOMAIN obj = Objects /\ \A o \in Objects : obj[o] = Default("CommandHeader")
    BY DEF Init
  <2> QED
    BY <2>1, <2>2, <2>3 DEF TypeOK
<1> QED
  BY <1>1, NextType, PTL DEF Spec

(* Nothing of the old object survives CopyFrom.                            *)
THEOREM CopiesAreExact == Spec => []CopyExact
<1>1. TypeOK => CopyExact
  BY CopiedSame DEF TypeOK, CopyExact
<1> QED
  BY <1>1, MessageTypes, PTL

-----------------------------------------------------------------------------
(***************************************************************************)
(* Sizes.                                                                  *)
(***************************************************************************)
LEMMA HighestBit ==
  ASSUME NEW top \in 1 .. 127
  PROVE  \E b \in 0 .. 6 : PowersOf2[b + 1] <= top /\ top < PowersOf2[b + 2]
<1> USE DEF PowersOf2
<1>1. /\ PowersOf2[1] = 1 /\ PowersOf2[2] = 2 /\ PowersOf2[3] = 4
      /\ PowersOf2[4] = 8 /\ PowersOf2[5] = 16 /\ PowersOf2[6] = 32
      /\ PowersOf2[7] = 64 /\ PowersOf2[8] = 128
  OBVIOUS
<1> HIDE DEF PowersOf2
<1>2. /\ PowersOf2[0 + 1] = 1 /\ PowersOf2[0 + 2] = 2
      /\ PowersOf2[1 + 1] = 2 /\ PowersOf2[1 + 2] = 4
      /\ PowersOf2[2 + 1] = 4 /\ PowersOf2[2 + 2] = 8
      /\ PowersOf2[3 + 1] = 8 /\ PowersOf2[3 + 2] = 16
      /\ PowersOf2[4 + 1] = 16 /\ PowersOf2[4 + 2] = 32
      /\ PowersOf2[5 + 1] = 32 /\ PowersOf2[5 + 2] = 64
      /\ PowersOf2[6 + 1] = 64 /\ PowersOf2[6 + 2] = 128
  BY <1>1
<1>3. /\ 0 \in 0 .. 6 /\ 1 \in 0 .. 6 /\ 2 \in 0 .. 6 /\ 3 \in 0 .. 6
      /\ 4 \in 0 .. 6 /\ 5 \in 0 .. 6 /\ 6 \in 0 .. 6
  OBVIOUS
<1>4. \/ 1 <= top /\ top < 2
      \/ 2 <= top /\ top < 4
      \/ 4 <= top /\ top < 8
      \/ 8 <= top /\ top < 16
      \/ 16 <= top /\ top < 32
      \/ 32 <= top /\ top < 64
      \/ 64 <= top /\ top < 128
  OBVIOUS
<1> DEFINE within(b) == PowersOf2[b + 1] <= top /\ top < PowersOf2[b + 2]
<1>5. within(0) \/ within(1) \/ within(2) \/ within(3) \/ within(4) \/ within(5) \/ within(6)
  BY <1>2, <1>4
<1> HIDE DEF within
<1>6. \E b \in 0 .. 6 : within(b)
  BY <1>3, <1>5, Zenon
<1> QED
  BY <1>6 DEF within

(* 9 / 64 of the highest bit is the number of 7-bit groups.                *)
LEMMA VarintSizes ==
  ASSUME NEW v, NEW digits \in 1 .. 10, NEW top, IsNumber(v, digits, top)
  PROVE  VarintSize(v) = Len(Varint(v)) /\ VarintSize(v) \in Nat
<1> DEFINE high == IF v = <<>> THEN 1 ELSE Last(v)
           low == CHOOSE b \in 0 .. 6 : /\ PowersOf2[b + 1] <= high
                                        /\ high < PowersOf2[b + 2]
           n == IF v = <<>> THEN 1 ELSE Len(v)
           log2 == low + IF v = <<>> THEN 0 ELSE 7 * (Len(v) - 1)
<1>1. /\ v \in Seq(Digit) /\ Len(Shown(v)) \in 1 .. 10
      /\ Len(Varint(v)) = Len(Shown(v))
  BY NumberDigits, VarintBytes
<1>2. Len(Shown(v)) = n
  <2>1. Len(<<0>>) = 1
    OBVIOUS
  <2> QED
    BY <2>1 DEF Shown
<1>3. high \in 1 .. 127
  <2>1. CASE v = <<>>
    BY <2>1
  <2>2. CASE v # <<>>
    <3>1. Len(v) \in 1 .. Len(v) /\ Last(v) # 0
      BY <1>1, <2>2 DEF IsNumber
    <3>2. v[Len(v)] \in Digit
      BY <1>1, <3>1, ElementOfSeq
    <3>3. Last(v) \in Digit
      BY <3>2 DEF Last
    <3>4. \A d \in Digit : d # 0 => d \in 1 .. 127
      BY DEF Digit
    <3> QED
      BY <2>2, <3>1, <3>3, <3>4, Zenon
  <2> QED
    BY <2>1, <2>2
<1>4. low \in 0 .. 6
  <2>1. \E b \in 0 .. 6 : PowersOf2[b + 1] <= high /\ high < PowersOf2[b + 2]
    BY <1>3, HighestBit, Zenon
  <2> HIDE DEF high
  <2> QED
    BY <2>1, Zenon
<1>5. VarintSize(v) = (log2 * 9 + 73) \div 64
  BY DEF VarintSize
<1> HIDE DEF low, high
<1>6. log2 = low + 7 * (n - 1)
  BY <1>4
<1>7. n \in 1 .. 10
  BY <1>1, <1>2
<1> HIDE DEF log2, n
<1>8. \A a \in 0 .. 6, k \in 1 .. 10 : ((a + 7 * (k - 1)) * 9 + 73) \div 64 = k
  <2> SUFFICES ASSUME NEW a \in 0 .. 6, NEW k \in 1 .. 10
               PROVE  ((a + 7 * (k - 1)) * 9 + 73) \div 64 = k
    OBVIOUS
  <2> DEFINE r == 9 * a + 10 - k
  <2>1. (a + 7 * (k - 1)) * 9 + 73 = 64 * k + r /\ r \in 0 .. 63
    OBVIOUS
  <2> HIDE DEF r
  <2>2. (64 * k + r) \div 64 = k
    BY <2>1
  <2> QED
    BY <2>1, <2>2
<1>9. VarintSize(v) = n
  BY <1>4, <1>5, <1>6, <1>7, <1>8
<1> QED
  BY <1>1, <1>2, <1>7, <1>9

LEMMA RecordSize ==
  ASSUME NEW number \in 1 .. 15, NEW wt \in {0, 2}, NEW v, Writable(wt, v)
  PROVE  /\ 1 + ValueSize(wt, v) = Len(Record(number, wt, v))
         /\ 1 + ValueSize(wt, v) \in Nat
<1>1. Len(Record(number, wt, v)) = 1 + Len(Body(wt, v))
  BY RecordBytes
<1>2. CASE wt = 0
  <2>1. PICK digits \in 1 .. 10, top \in {2, 16} : IsNumber(v, digits, top)
    BY <1>2, NumberKinds
  <2>2. VarintSize(v) = Len(Varint(v)) /\ VarintSize(v) \in Nat
    BY <2>1, VarintSizes, Zenon
  <2> QED
    BY <1>1, <1>2, <2>2 DEF ValueSize, Body
<1>3. CASE wt = 2
  <2> DEFINE d == Digits(Len(v))
  <2>1. v \in Bytes /\ Len(v) \in Nat /\ Len(v) < LengthLimit
    BY <1>3 DEF Writable, IsText, Bytes
  <2>2. IsNumber(d, 3, 128) /\ 3 \in 1 .. 10
    BY <2>1, DigitsOfLength
  <2> HIDE DEF d
  <2>3. VarintSize(d) = Len(Varint(d)) /\ VarintSize(d) \in Nat
    BY <2>2, VarintSizes
  <2>4. Varint(d) \in Bytes
    BY <2>2, VarintBytes
  <2> DEFINE x == Varint(d)
  <2> HIDE DEF x
  <2>5. Len(x \o v) = Len(x) + Len(v)
    BY <2>1, <2>4, ConcatProperties DEF Bytes, x
  <2>6. Len(Body(wt, v)) = VarintSize(d) + Len(v)
    BY <1>3, <2>3, <2>5 DEF Body, d, x
  <2>7. ValueSize(wt, v) = VarintSize(d) + Len(v)
    BY <1>3 DEF ValueSize, d
  <2> QED
    BY <1>1, <2>1, <2>3, <2>6, <2>7
<1> QED
  BY <1>2, <1>3

LEMMA SizeOfMessage ==
  ASSUME NEW t \in Types, NEW m \in Messages(t)
  PROVE  ByteSizeLong(m) = Len(Serialize(m))
<1> DEFINE F == Len(Fields[t])
           U == Len(m.unknown)
           x == [i \in 1 .. F |-> FieldSize(m, Fields[t][i])]
           y == [i \in 1 .. U |->
                   1 + ValueSize(m.unknown[i].wt, m.unknown[i].v)]
           P == Pieces(m)
<1>1. /\ m.type = t /\ m.unknown \in Seq(Unknown(t))
      /\ \A i \in 1 .. F : OfKind(Fields[t][i].kind, m.f[Fields[t][i].name])
  BY MessageFacts
<1>2. /\ P \in Seq(Bytes) /\ F \in Nat /\ U \in Nat /\ Len(P) = F + U
      /\ \A i \in 1 .. F : P[i] = FieldBytes(m, Fields[t][i])
      /\ \A i \in 1 .. U : P[F + i] = Record(m.unknown[i].number,
                                             m.unknown[i].wt, m.unknown[i].v)
  BY PiecesOf
<1>3. ASSUME NEW i \in 1 .. F
      PROVE  /\ FieldSize(m, Fields[t][i]) = Len(FieldBytes(m, Fields[t][i]))
             /\ FieldSize(m, Fields[t][i]) \in Nat
  <2> DEFINE g == Fields[t][i]
             v == m.f[g.name]
  <2>1. g.kind \in Kinds /\ g.number \in 1 .. 15 /\ OfKind(g.kind, v)
    BY <1>1, FieldFacts
  <2>2. Writable(WireType(g.kind), v) /\ WireType(g.kind) \in {0, 2}
    BY <2>1, KindValue, WireTypes
  <2> HIDE DEF g
  <2>3. /\ 1 + ValueSize(WireType(g.kind), v)
              = Len(Record(g.number, WireType(g.kind), v))
        /\ 1 + ValueSize(WireType(g.kind), v) \in Nat
    BY <2>1, <2>2, RecordSize
  <2>4. Len(<<>>) = 0 /\ 0 \in Nat
    OBVIOUS
  <2>5. FieldSize(m, g) = Len(FieldBytes(m, g)) /\ FieldSize(m, g) \in Nat
    BY <2>3, <2>4, Zenon DEF FieldBytes, FieldSize
  <2> QED
    BY <2>5 DEF g
<1>4. ASSUME NEW i \in 1 .. U
      PROVE  /\ 1 + ValueSize(m.unknown[i].wt, m.unknown[i].v)
                  = Len(Record(m.unknown[i].number, m.unknown[i].wt,
                               m.unknown[i].v))
             /\ 1 + ValueSize(m.unknown[i].wt, m.unknown[i].v) \in Nat
  <2>1. m.unknown[i] \in Unknown(t)
    BY <1>1, ElementOfSeq
  <2> DEFINE u == m.unknown[i]
  <2> HIDE DEF u
  <2>2. /\ 1 + ValueSize(u.wt, u.v) = Len(Record(u.number, u.wt, u.v))
        /\ 1 + ValueSize(u.wt, u.v) \in Nat
    <3>1. u.number \in 1 .. 15 /\ u.wt \in {0, 2} /\ Writable(u.wt, u.v)
      BY <2>1, UnknownFacts DEF u
    <3> QED
      BY <3>1, RecordSize
  <2> QED
    BY <2>2 DEF u
<1>5. ByteSizeLong(m) = Total(x \o y)
  BY <1>1 DEF ByteSizeLong
<1> HIDE DEF F, U, P
<1>6. x \in Seq(Nat) /\ Len(x) = F
      /\ \A i \in 1 .. F : x[i] = Len(P[i])
  BY <1>2, <1>3
<1>7. y \in Seq(Nat) /\ Len(y) = U
      /\ \A i \in 1 .. U : y[i] = Len(P[F + i])
  BY <1>2, <1>4
<1> HIDE DEF x, y
<1>8. /\ x \o y \in Seq(Nat) /\ Len(x \o y) = Len(x) + Len(y)
      /\ \A i \in 1 .. Len(x) + Len(y) :
           (x \o y)[i] = IF i <= Len(x) THEN x[i] ELSE y[i - Len(x)]
  <2>1. x \in Seq(Nat) /\ y \in Seq(Nat)
    BY <1>6, <1>7
  <2> QED
    BY <2>1, ConcatProperties
<1>9. ASSUME NEW i \in 1 .. Len(P) PROVE (x \o y)[i] = Len(P[i])
  <2>1. i \in 1 .. Len(x) + Len(y)
    BY <1>2, <1>6, <1>7
  <2>2. CASE i <= F
    <3>1. i \in 1 .. F
      BY <1>2, <2>2
    <3> QED
      BY <1>6, <1>8, <2>1, <2>2, <3>1
  <2>3. CASE ~(i <= F)
    <3> DEFINE k == i - F
    <3>1. k \in 1 .. U /\ F + k = i
      BY <1>2, <2>3
    <3>2. (x \o y)[i] = y[k]
      BY <1>6, <1>8, <2>1, <2>3
    <3> HIDE DEF k
    <3> QED
      BY <1>7, <3>1, <3>2
  <2> QED
    BY <2>2, <2>3
<1>10. Len(x \o y) = Len(P)
  BY <1>2, <1>6, <1>7, <1>8
<1>11. Total(x \o y) = Len(FlattenSeq(P))
  <2> DEFINE z == x \o y
  <2> HIDE DEF z
  <2>1. z \in Seq(Nat) /\ Len(z) = Len(P) /\ \A i \in 1 .. Len(P) : z[i] = Len(P[i])
    BY <1>8, <1>9, <1>10 DEF z
  <2>2. P \in Seq(Seq(0 .. 255))
    BY <1>2 DEF Bytes
  <2>3. Total(z) = Len(FlattenSeq(P))
    BY <2>1, <2>2, FlattenLength, Zenon
  <2> QED
    BY <2>3 DEF z
<1> QED
  BY <1>5, <1>11 DEF Serialize, P

(* The size of a message is the number of its bytes, for any message.      *)
THEOREM SizesAreExact == Spec => []SizeExact
<1>1. TypeOK => SizeExact
  BY SizeOfMessage DEF TypeOK, SizeExact
<1> QED
  BY <1>1, MessageTypes, PTL

-----------------------------------------------------------------------------
(***************************************************************************)
(* What is written is read.                                                *)
(***************************************************************************)
LEMMA TagFirst ==
  ASSUME NEW x \in 0 .. 255, NEW b \in Bytes
  PROVE  /\ <<x>> \o b # <<>> /\ (<<x>> \o b)[1] = x
         /\ Tail(<<x>> \o b) = b
<1> DEFINE a == <<x>>
           z == a \o b
<1>1. a \in Bytes /\ Len(a) = 1 /\ a[1] = x
  BY DEF Bytes
<1> HIDE DEF a
<1>2. b \in Bytes /\ Len(b) \in Nat
  BY DEF Bytes
<1>3. /\ z \in Bytes /\ Len(z) = Len(a) + Len(b)
      /\ \A i \in 1 .. Len(a) + Len(b) :
           z[i] = IF i <= Len(a) THEN a[i] ELSE b[i - Len(a)]
  BY <1>1, <1>2, BytesConcat
<1>4. SubSeq(z, Len(a) + 1, Len(z)) = b
  BY <1>1, <1>2, ConcatParts DEF Bytes
<1> HIDE DEF z
<1>5. z # <<>> /\ z[1] = x
  <2>1. 1 \in 1 .. Len(a) + Len(b) /\ 1 <= Len(a)
    BY <1>1, <1>2
  <2>2. z[1] = a[1]
    BY <1>3, <2>1
  <2>3. Len(z) > 0
    BY <1>1, <1>2, <1>3
  <2> QED
    BY <1>1, <1>3, <2>2, <2>3 DEF Bytes
<1>6. Tail(z) = b
  <2>1. Tail(z) = SubSeq(z, 2, Len(z))
    BY <1>3, <1>5, TailIsSubSeq DEF Bytes
  <2>2. Len(a) + 1 = 2
    BY <1>1
  <2> QED
    BY <1>4, <2>1, <2>2
<1> QED
  BY <1>5, <1>6 DEF z, a

LEMMA TagParts ==
  ASSUME NEW number \in 1 .. 15, NEW wt \in {0, 2}
  PROVE  (8 * number + wt) \div 8 = number /\ (8 * number + wt) % 8 = wt
  OBVIOUS

Refuses(t, number, wt, v) ==
  wt = 2 /\ ~Utf8Valid(v) /\ Known(t, number, wt) # {}

LEMMA AdvanceRecord ==
  ASSUME NEW t \in Types, NEW s \in States(t), s.ok,
         NEW number \in 1 .. 15, NEW wt \in {0, 2}, NEW v, Writable(wt, v),
         NEW rest \in Bytes, s.rest = Record(number, wt, v) \o rest
  PROVE  Advance(s) = [ok |-> ~Refuses(t, number, wt, v),
                       msg |-> Stored(s.msg, number, wt, ReadBack(wt, v)),
                       rest |-> rest]
<1> DEFINE x == 8 * number + wt
           b == Body(wt, v)
<1>1. Record(number, wt, v) = <<x>> \o b /\ x \in 0 .. 255 /\ <<x>> \in Bytes
  <2>1. Record(number, wt, v) = <<x>> \o b
    BY RecordBytes, Zenon
  <2>2. x \in 0 .. 255
    OBVIOUS
  <2>3. <<x>> \in Bytes
    BY RecordBytes, Zenon
  <2> QED
    BY <2>1, <2>2, <2>3, Zenon
<1>2. b \in Bytes
  BY BodyBytes
<1>3. x \div 8 = number /\ x % 8 = wt
  BY TagParts
<1>4. ReadValue(wt, b \o rest)
        = [ok |-> TRUE, v |-> ReadBack(wt, v), rest |-> rest]
  BY ReadValueBack
<1>5. s.msg.type = t /\ s.ok = TRUE
  BY MessageFacts DEF States
<1> HIDE DEF x, b
<1>6. b \o rest \in Bytes
  BY <1>2, BytesConcat
<1>7. s.rest = <<x>> \o (b \o rest)
  <2> DEFINE a == <<x>>
  <2> HIDE DEF a
  <2>1. a \in Bytes
    BY <1>1 DEF a
  <2>2. (a \o b) \o rest = a \o (b \o rest)
    BY <1>2, <2>1, BytesAssociative
  <2> QED
    BY <1>1, <2>2 DEF a
<1>8. s.rest # <<>> /\ s.rest[1] = x /\ Tail(s.rest) = b \o rest
  <2> DEFINE y == b \o rest
  <2> HIDE DEF y
  <2>1. y \in Bytes /\ s.rest = <<x>> \o y
    BY <1>6, <1>7 DEF y
  <2>2. /\ <<x>> \o y # <<>> /\ (<<x>> \o y)[1] = x
        /\ Tail(<<x>> \o y) = y
    BY <1>1, <2>1, TagFirst, Zenon
  <2>3. s.rest # <<>> /\ s.rest[1] = x /\ Tail(s.rest) = y
    BY <2>1, <2>2, Zenon
  <2> QED
    BY <2>3 DEF y
<1> DEFINE number2 == s.rest[1] \div 8
           wt2 == s.rest[1] % 8
           r == ReadValue(wt2, Tail(s.rest))
           refused == /\ wt2 = 2 /\ ~Utf8Valid(r.v)
                      /\ Known(s.msg.type, number2, wt2) # {}
<1>9. /\ number2 = number /\ wt2 = wt
      /\ r = [ok |-> TRUE, v |-> ReadBack(wt, v), rest |-> rest]
  BY <1>3, <1>4, <1>8
<1>10. r.ok /\ r.v = ReadBack(wt, v) /\ r.rest = rest
  <2> HIDE DEF r
  <2> QED
    BY <1>9
<1>11. ~(~s.ok \/ s.rest = <<>>)
  BY <1>8
<1>12. Advance(s) =
         IF number2 \notin 1 .. 15 \/ ~r.ok THEN [s EXCEPT !.ok = FALSE]
         ELSE [ok |-> ~refused, msg |-> Stored(s.msg, number2, wt2, r.v),
               rest |-> r.rest]
  BY <1>11 DEF Advance
<1>13. refused <=> Refuses(t, number, wt, v)
  BY <1>5, <1>9, <1>10 DEF Refuses, ReadBack
<1> HIDE DEF number2, wt2, r, refused
<1>14. Advance(s) = [ok |-> ~refused, msg |-> Stored(s.msg, number2, wt2, r.v),
                     rest |-> r.rest]
  BY <1>9, <1>10, <1>12
<1>15. (~refused) = (~Refuses(t, number, wt, v))
  BY <1>13
<1> QED
  BY <1>9, <1>10, <1>14, <1>15, Zenon

LEMMA AdvanceEarly ==
  ASSUME NEW t \in Types, NEW s \in States(t), s.ok, s.rest # <<>>,
         NEW number \in 1 .. 15, NEW wt \in {0, 2}, NEW v, Writable(wt, v),
         IsCut(s.rest, Record(number, wt, v)),
         Len(s.rest) < Len(Record(number, wt, v))
  PROVE  ~Advance(s).ok
<1> DEFINE x == 8 * number + wt
           b == Body(wt, v)
           c == s.rest
<1>1. /\ Record(number, wt, v) = <<x>> \o b /\ x \in 0 .. 255 /\ <<x>> \in Bytes
      /\ Len(Record(number, wt, v)) = 1 + Len(b)
  <2>1. Record(number, wt, v) = <<x>> \o b
    BY RecordBytes, Zenon
  <2>2. x \in 0 .. 255
    OBVIOUS
  <2>3. <<x>> \in Bytes
    BY RecordBytes, Zenon
  <2>4. Len(Record(number, wt, v)) = 1 + Len(b)
    BY RecordBytes, Zenon
  <2> QED
    BY <2>1, <2>2, <2>3, <2>4, Zenon
<1>2. b \in Bytes
  BY BodyBytes
<1>3. x \div 8 = number /\ x % 8 = wt
  BY TagParts
<1>4. c \in Bytes
  BY DEF IsCut
<1> HIDE DEF x, b, c
<1>5. PICK r : c = <<x>> \o r /\ IsCut(r, b)
  <2>1. \/ Len(c) < Len(<<x>>) /\ IsCut(c, <<x>>)
        \/ \E r : c = <<x>> \o r /\ IsCut(r, b)
    <3>1. IsCut(c, <<x>> \o b)
      BY <1>1 DEF c
    <3> QED
      BY <1>1, <1>2, <3>1, CutParts, Zenon
  <2>2. ~(Len(c) < Len(<<x>>))
    <3>1. c \in Seq(0 .. 255) /\ c # <<>>
      BY <1>4 DEF Bytes, c
    <3>2. Len(c) \in Nat /\ Len(c) # 0
      BY <3>1
    <3>3. Len(<<x>>) = 1
      OBVIOUS
    <3> QED
      BY <3>2, <3>3
  <2> QED
    BY <2>1, <2>2, Zenon
<1>6. r \in Bytes
  BY <1>5 DEF IsCut
<1>7. c[1] = x /\ Tail(c) = r
  BY <1>1, <1>5, <1>6, TagFirst
<1>8. Len(r) < Len(b)
  <2> DEFINE a == <<x>>
  <2>1. Len(a) = 1 /\ a \in Bytes
    BY <1>1
  <2> HIDE DEF a
  <2>2. Len(a \o r) = Len(a) + Len(r)
    BY <1>6, <2>1, BytesConcat
  <2>3. Len(c) = 1 + Len(r)
    BY <1>5, <2>1, <2>2 DEF a
  <2>4. Len(c) < 1 + Len(b) /\ Len(r) \in Nat /\ Len(b) \in Nat
    BY <1>1, <1>2, <1>6 DEF c, Bytes
  <2> QED
    BY <2>3, <2>4
<1>9. ReadValue(wt, r) = Bad
  BY <1>5, <1>8, ReadValueEarly DEF b
<1>10. ~ReadValue(c[1] % 8, Tail(c)).ok
  <2>1. c[1] % 8 = wt
    BY <1>3, <1>7
  <2>2. ReadValue(c[1] % 8, Tail(c)) = Bad
    BY <1>7, <1>9, <2>1, Zenon
  <2> QED
    BY <2>2 DEF Bad
<1>11. Advance(s) = [s EXCEPT !.ok = FALSE]
  BY <1>10 DEF Advance, c
<1> QED
  BY <1>11 DEF States

(* The bytes of the pieces after the first j.                              *)
Rest(P, j) == FlattenSeq(SubSeq(P, j + 1, Len(P)))

LEMMA RestOfPieces ==
  ASSUME NEW P \in Seq(Bytes)
  PROVE  /\ Rest(P, 0) = FlattenSeq(P) /\ Rest(P, Len(P)) = <<>>
         /\ \A j \in 0 .. Len(P) : Rest(P, j) \in Bytes
         /\ \A j, k \in 0 .. Len(P) :
              k = j + 1 => Rest(P, j) = P[k] \o Rest(P, k)
<1>1. Len(P) \in Nat
  OBVIOUS
<1>2. Rest(P, 0) = FlattenSeq(P)
  <2>1. SubSeq(P, 1, Len(P)) = P
    BY SubSeqFull
  <2>2. 0 + 1 = 1
    OBVIOUS
  <2> QED
    BY <2>1, <2>2, Zenon DEF Rest
<1>3. Rest(P, Len(P)) = <<>>
  <2>1. Len(P) + 1 \in Int /\ Len(P) \in Int /\ Len(P) < Len(P) + 1
    BY <1>1
  <2>2. SubSeq(P, Len(P) + 1, Len(P)) = <<>>
    BY <2>1, SubSeqEmpty
  <2> QED
    BY <2>2, FlattenEmpty DEF Rest
<1>4. ASSUME NEW j \in 0 .. Len(P)
      PROVE  SubSeq(P, j + 1, Len(P)) \in Seq(Bytes)
  <2>1. j + 1 \in Int /\ Len(P) \in Int
        /\ \A i \in j + 1 .. Len(P) : i \in 1 .. Len(P)
    BY <1>1
  <2>2. \A i \in j + 1 .. Len(P) : P[i] \in Bytes
    BY <2>1, ElementOfSeq
  <2> QED
    BY <2>1, <2>2, SubSeqProperties
<1>5. ASSUME NEW j \in 0 .. Len(P) PROVE Rest(P, j) \in Bytes
  BY <1>4, FlattenType DEF Rest, Bytes
<1>6. ASSUME NEW j \in 0 .. Len(P), NEW k \in 0 .. Len(P), k = j + 1
      PROVE  Rest(P, j) = P[k] \o Rest(P, k)
  <2> DEFINE q == SubSeq(P, k, Len(P))
  <2>1. k \in 1 .. Len(P) /\ Len(P) \in k .. Len(P) /\ k \in Int
        /\ Len(P) \in Int /\ k <= Len(P)
    BY <1>1, <1>6
  <2>2. Head(q) = P[k] /\ Tail(q) = SubSeq(P, k + 1, Len(P))
    BY <2>1, HeadTailOfSubSeq
  <2>3. q \in Seq(Bytes)
    BY <1>4, <1>6
  <2>4. q # <<>>
    <3>1. \A i \in k .. Len(P) : P[i] \in Bytes
      <4>1. \A i \in k .. Len(P) : i \in 1 .. Len(P)
        BY <2>1
      <4> QED
        BY <4>1, ElementOfSeq
    <3>2. Len(q) = Len(P) - k + 1
      BY <2>1, <3>1, SubSeqProperties
    <3> HIDE DEF q
    <3>3. Len(q) > 0
      BY <2>1, <3>2
    <3> QED
      BY <2>3, <3>3
  <2> HIDE DEF q
  <2>5. FlattenSeq(q) = q[1] \o FlattenSeq(Tail(q))
    <3>1. q \in Seq(Seq(0 .. 255))
      BY <2>3 DEF Bytes
    <3> QED
      BY <2>4, <3>1, FlattenFirst
  <2>6. q[1] = P[k]
    BY <2>2, <2>3, <2>4
  <2>7. Rest(P, j) = FlattenSeq(q)
    BY <1>6 DEF Rest, q
  <2>8. Rest(P, k) = FlattenSeq(Tail(q))
    BY <2>2 DEF Rest
  <2> QED
    BY <2>5, <2>6, <2>7, <2>8
<1> QED
  BY <1>2, <1>3, <1>5, <1>6

(* A piece that takes a message from m to m2: nothing, or a value that is  *)
(* stored, and accepted or refused.                                        *)
Takes(t, piece, good, m, m2) ==
  \/ piece = <<>> /\ good /\ m2 = m
  \/ \E v : \E number \in 1 .. 15, wt \in {0, 2} :
       /\ Writable(wt, v) /\ piece = Record(number, wt, v)
       /\ m2 = Stored(m, number, wt, ReadBack(wt, v))
       /\ good <=> ~Refuses(t, number, wt, v)

Trace(t, P, msg, good) ==
  /\ P \in Seq(Bytes) /\ msg \in [0 .. Len(P) -> Messages(t)]
  /\ msg[0] = Default(t)
  /\ \A j, k \in 0 .. Len(P) :
       k = j + 1 => Takes(t, P[k], k \in good, msg[j], msg[k])

(* A state of the parser that has read the first j pieces.                 *)
Reached(s, j, P, msg, good, all) ==
  /\ j \in 0 .. Len(P)
  /\ s.msg = msg[j] /\ IsCut(s.rest, Rest(P, j))
  /\ \A i \in 1 .. j : i \in good
  /\ all => s.rest = Rest(P, j)

LEMMA ReachedFurthest ==
  ASSUME NEW t, NEW P, NEW msg, NEW good, Trace(t, P, msg, good),
         NEW all, NEW s, \E j : Reached(s, j, P, msg, good, all)
  PROVE  \E j : /\ Reached(s, j, P, msg, good, all)
                /\ \A k \in 0 .. Len(P) : k = j + 1 => P[k] # <<>>
<1>1. P \in Seq(Bytes) /\ Len(P) \in Nat
      /\ \A j, k \in 0 .. Len(P) :
           k = j + 1 => Takes(t, P[k], k \in good, msg[j], msg[k])
  BY DEF Trace
<1> DEFINE T == {j \in 0 .. Len(P) : Reached(s, j, P, msg, good, all)}
<1>2. T \subseteq 0 .. Len(P) /\ T # {}
  BY DEF Reached
<1>3. PICK j \in T : \A k \in T : k <= j
  BY <1>1, <1>2, GreatestNat, Zenon
<1>4. ASSUME NEW k \in 0 .. Len(P), k = j + 1, P[k] = <<>> PROVE FALSE
  <2>1. j \in 0 .. Len(P) /\ Reached(s, j, P, msg, good, all)
    OBVIOUS
  <2>2. Takes(t, P[k], k \in good, msg[j], msg[k])
    BY <1>1, <1>4, <2>1
  <2>3. k \in good /\ msg[k] = msg[j]
    <3>1. ASSUME NEW number \in 1 .. 15, NEW wt \in {0, 2}, NEW v,
                 Writable(wt, v), P[k] = Record(number, wt, v)
          PROVE  FALSE
      <4>1. Len(Record(number, wt, v)) = 1 + Len(Body(wt, v))
            /\ Body(wt, v) \in Bytes
        BY <3>1, RecordBytes, BodyBytes
      <4>2. Len(Body(wt, v)) \in Nat
        BY <4>1 DEF Bytes
      <4>3. Len(<<>>) = 0
        OBVIOUS
      <4>4. Len(<<>>) = 1 + Len(Body(wt, v))
        BY <1>4, <3>1, <4>1, Zenon
      <4> QED
        BY <4>2, <4>3, <4>4
    <3> QED
      BY <2>2, <3>1, Zenon DEF Takes
  <2>4. Rest(P, j) = Rest(P, k)
    <3>1. Rest(P, j) = P[k] \o Rest(P, k) /\ Rest(P, k) \in Bytes
      BY <1>1, <1>4, <2>1, RestOfPieces
    <3>2. <<>> \o Rest(P, k) = Rest(P, k)
      BY <3>1, ConcatEmptySeq DEF Bytes
    <3> QED
      BY <1>4, <3>1, <3>2, Zenon
  <2>5. \A i \in 1 .. k : i \in 1 .. j \/ i = k
    BY <1>4, <2>1
  <2>6. Reached(s, k, P, msg, good, all)
    BY <2>1, <2>3, <2>4, <2>5, Zenon DEF Reached
  <2>7. k <= j
    BY <1>3, <2>6
  <2> QED
    BY <1>4, <2>1, <2>7
<1>5. Reached(s, j, P, msg, good, all)
  OBVIOUS
<1> HIDE DEF T
<1> QED
  BY <1>4, <1>5, Zenon

LEMMA CutOfWhole ==
  ASSUME NEW s \in Bytes
  PROVE  IsCut(s, s)
<1>1. Len(s) \in Nat
  BY DEF Bytes
<1> QED
  BY <1>1 DEF IsCut

LEMMA CutOfNothing ==
  ASSUME NEW c, IsCut(c, <<>>)
  PROVE  c = <<>>
<1>1. c \in Seq(0 .. 255) /\ Len(c) <= 0
  BY DEF IsCut, Bytes
<1> QED
  BY <1>1

(* The parser gets from piece to piece.                                    *)
LEMMA ReachedStep ==
  ASSUME NEW t \in Types, NEW P, NEW msg, NEW good, Trace(t, P, msg, good),
         NEW all, NEW s \in States(t), s.ok, s.rest # <<>>,
         \E j : Reached(s, j, P, msg, good, all)
  PROVE  /\ Advance(s).ok => \E j : Reached(Advance(s), j, P, msg, good, all)
         /\ all /\ (\A i \in 1 .. Len(P) : i \in good) => Advance(s).ok
<1>1. P \in Seq(Bytes) /\ Len(P) \in Nat /\ msg \in [0 .. Len(P) -> Messages(t)]
      /\ \A j, k \in 0 .. Len(P) :
           k = j + 1 => Takes(t, P[k], k \in good, msg[j], msg[k])
  BY DEF Trace
<1>2. PICK j : /\ Reached(s, j, P, msg, good, all)
               /\ \A k \in 0 .. Len(P) : k = j + 1 => P[k] # <<>>
  BY ReachedFurthest, Zenon
<1>3. /\ j \in 0 .. Len(P)
      /\ s.msg = msg[j] /\ IsCut(s.rest, Rest(P, j))
      /\ \A i \in 1 .. j : i \in good
      /\ all => s.rest = Rest(P, j)
  BY <1>2, Zenon DEF Reached
<1>4. j # Len(P)
  BY <1>1, <1>3, RestOfPieces, CutOfNothing
<1>5. PICK k \in 0 .. Len(P) : k = j + 1 /\ k \in 1 .. Len(P)
  BY <1>1, <1>3, <1>4
<1>6. /\ Rest(P, j) = P[k] \o Rest(P, k) /\ Rest(P, k) \in Bytes
      /\ Takes(t, P[k], k \in good, msg[j], msg[k]) /\ P[k] # <<>>
  BY <1>1, <1>2, <1>3, <1>5, RestOfPieces
<1>12. PICK v : \E number \in 1 .. 15, wt \in {0, 2} :
        /\ Writable(wt, v) /\ P[k] = Record(number, wt, v)
        /\ msg[k] = Stored(msg[j], number, wt, ReadBack(wt, v))
        /\ k \in good <=> ~Refuses(t, number, wt, v)
  BY <1>6, Zenon DEF Takes
<1>7. PICK number \in 1 .. 15, wt \in {0, 2} :
        /\ Writable(wt, v) /\ P[k] = Record(number, wt, v)
        /\ msg[k] = Stored(msg[j], number, wt, ReadBack(wt, v))
        /\ k \in good <=> ~Refuses(t, number, wt, v)
  BY <1>12, Zenon
<1> DEFINE R == Record(number, wt, v)
<1>8. R \in Bytes
  BY <1>7, RecordBytes
<1>9. IsCut(s.rest, R \o Rest(P, k)) /\ (all => s.rest = R \o Rest(P, k))
  BY <1>3, <1>6, <1>7, Zenon
<1> HIDE DEF R
<1>10. CASE Len(s.rest) < Len(R) /\ IsCut(s.rest, R)
  <2>1. ~Advance(s).ok
    BY <1>7, <1>10, AdvanceEarly DEF R
  <2>2. ~all
    <3>1. Len(R \o Rest(P, k)) = Len(R) + Len(Rest(P, k))
          /\ Len(R) \in Nat /\ Len(Rest(P, k)) \in Nat
      BY <1>6, <1>8, BytesConcat
    <3>2. ASSUME s.rest = R \o Rest(P, k) PROVE FALSE
      <4>1. Len(s.rest) = Len(R) + Len(Rest(P, k))
        BY <3>1, <3>2
      <4> QED
        BY <1>10, <3>1, <4>1
    <3> QED
      BY <1>9, <3>2
  <2> QED
    BY <2>1, <2>2
<1>11. CASE \E r : s.rest = R \o r /\ IsCut(r, Rest(P, k))
  <2>1. PICK r : s.rest = R \o r /\ IsCut(r, Rest(P, k))
    BY <1>11
  <2>2. r \in Bytes
    BY <2>1 DEF IsCut
  <2>3. Advance(s) = [ok |-> ~Refuses(t, number, wt, v),
                      msg |-> Stored(s.msg, number, wt, ReadBack(wt, v)),
                      rest |-> r]
    BY <1>7, <2>1, <2>2, AdvanceRecord DEF R
  <2>4. /\ Advance(s).ok <=> k \in good
        /\ Advance(s).msg = msg[k] /\ Advance(s).rest = r
    <3>1. /\ Advance(s).ok = ~Refuses(t, number, wt, v)
          /\ Advance(s).msg = Stored(s.msg, number, wt, ReadBack(wt, v))
          /\ Advance(s).rest = r
      BY <2>3
    <3> QED
      BY <1>3, <1>7, <3>1, Zenon
  <2>5. all => r = Rest(P, k)
    <3>1. ASSUME all PROVE r = Rest(P, k)
      <4>1. R \o r = R \o Rest(P, k)
        BY <1>9, <2>1, <3>1
      <4>2. /\ SubSeq(R \o r, Len(R) + 1, Len(R \o r)) = r
            /\ SubSeq(R \o Rest(P, k), Len(R) + 1, Len(R \o Rest(P, k)))
                 = Rest(P, k)
        BY <1>6, <1>8, <2>2, ConcatParts DEF Bytes
      <4> QED
        BY <4>1, <4>2, Zenon
    <3> QED
      BY <3>1
  <2>6. \A i \in 1 .. k : i \in 1 .. j \/ i = k
    BY <1>3, <1>5
  <2>7. Advance(s).ok => Reached(Advance(s), k, P, msg, good, all)
    BY <1>3, <2>1, <2>4, <2>5, <2>6, Zenon DEF Reached
  <2> QED
    BY <1>5, <2>4, <2>7, Zenon
<1> QED
  <2> DEFINE c == s.rest
             q == Rest(P, k)
  <2>1. IsCut(c, R \o q) /\ R \in Bytes /\ q \in Bytes
    BY <1>6, <1>8, <1>9
  <2> HIDE DEF c, q
  <2>2. \/ Len(c) < Len(R) /\ IsCut(c, R)
        \/ \E r : c = R \o r /\ IsCut(r, q)
    BY <2>1, CutParts, Zenon
  <2> QED
    BY <1>10, <1>11, <2>2 DEF c, q

(* The whole of the pieces is read as all of them; what is cut, as some.   *)
LEMMA ParsedTrace ==
  ASSUME NEW t \in Types, NEW P, NEW msg, NEW good, Trace(t, P, msg, good),
         NEW c, IsCut(c, FlattenSeq(P))
  PROVE  /\ Parsed(t, c).ok => \E j \in 0 .. Len(P) : Parsed(t, c).msg = msg[j]
         /\ c = FlattenSeq(P) =>
              /\ Parsed(t, c).ok <=> \A i \in 1 .. Len(P) : i \in good
              /\ Parsed(t, c).ok => Parsed(t, c).msg = msg[Len(P)]
<1> DEFINE all == c = FlattenSeq(P)
           fine == \A i \in 1 .. Len(P) : i \in good
           Q == {s \in States(t) :
                   /\ s.ok => \E j : Reached(s, j, P, msg, good, all)
                   /\ all /\ fine => s.ok}
           r == Parsed(t, c)
<1>1. /\ P \in Seq(Bytes) /\ Len(P) \in Nat /\ c \in Bytes
      /\ msg \in [0 .. Len(P) -> Messages(t)] /\ msg[0] = Default(t)
  BY DEF Trace, IsCut
<1> HIDE DEF all, fine
<1>2. Start(t, c) \in Q
  <2>1. Start(t, c) \in States(t)
    BY <1>1, StartType
  <2>2. Start(t, c).ok /\ Start(t, c).msg = Default(t) /\ Start(t, c).rest = c
    BY DEF Start
  <2>3. 0 \in 0 .. Len(P) /\ \A i \in 1 .. 0 : FALSE
    BY <1>1
  <2>4. Rest(P, 0) = FlattenSeq(P)
    BY <1>1, RestOfPieces
  <2>5. Reached(Start(t, c), 0, P, msg, good, all)
    BY <1>1, <2>2, <2>3, <2>4, Zenon DEF Reached, all
  <2> QED
    BY <2>1, <2>2, <2>5, Zenon
<1>3. ASSUME NEW s \in Q PROVE Advance(s) \in Q /\ s.rest \in Seq(0 .. 255)
  <2>1. s \in States(t) /\ Advance(s) \in States(t)
    BY AdvanceType
  <2>2. s.rest \in Seq(0 .. 255)
    BY <2>1 DEF States, Bytes
  <2>3. CASE ~s.ok \/ s.rest = <<>>
    <3>1. Advance(s) = s
      BY <2>3 DEF Advance
    <3> QED
      BY <2>2, <3>1
  <2>4. CASE s.ok /\ s.rest # <<>>
    <3>1. \E j : Reached(s, j, P, msg, good, all)
      BY <2>4
    <3>2. /\ Advance(s).ok => \E j : Reached(Advance(s), j, P, msg, good, all)
          /\ all /\ fine => Advance(s).ok
      BY <2>1, <2>4, <3>1, ReachedStep DEF fine
    <3> QED
      BY <2>1, <2>2, <3>2, Zenon
  <2> QED
    BY <2>3, <2>4
<1>4. ASSUME NEW s \in Q, s.ok, s.rest # <<>>, Advance(s).ok
      PROVE  Len(Advance(s).rest) < Len(s.rest)
  BY <1>4, AdvanceType
<1>5. r \in Q /\ (r.ok => r.rest = <<>>)
  <2>1. c \in Seq(0 .. 255)
    BY <1>1 DEF Bytes
  <2> HIDE DEF Q
  <2> QED
    BY <1>2, <1>3, <1>4, <2>1, ParsedStays, Zenon
<1> HIDE DEF r
<1>6. (r.ok => \E j : Reached(r, j, P, msg, good, all)) /\ (all /\ fine => r.ok)
  BY <1>5
<1> HIDE DEF Q
<1>7. ASSUME r.ok PROVE \E j \in 0 .. Len(P) : r.msg = msg[j]
  BY <1>6, <1>7, Zenon DEF Reached
<1>8. ASSUME r.ok, all PROVE fine /\ r.msg = msg[Len(P)]
  <2>1. PICK j : /\ Reached(r, j, P, msg, good, all)
                 /\ \A k \in 0 .. Len(P) : k = j + 1 => P[k] # <<>>
    BY <1>6, <1>8, ReachedFurthest, Zenon
  <2>2. /\ j \in 0 .. Len(P) /\ r.msg = msg[j]
        /\ \A i \in 1 .. j : i \in good
        /\ r.rest = Rest(P, j) /\ r.rest = <<>>
    BY <1>5, <1>8, <2>1, Zenon DEF Reached
  <2>3. ASSUME j # Len(P) PROVE FALSE
    <3>1. PICK k \in 0 .. Len(P) : k = j + 1 /\ k \in 1 .. Len(P)
      BY <1>1, <2>2, <2>3
    <3>2. Rest(P, j) = P[k] \o Rest(P, k) /\ Rest(P, k) \in Bytes
      BY <1>1, <2>2, <3>1, RestOfPieces
    <3>3. P[k] \in Bytes
      BY <1>1, <3>1, ElementOfSeq
    <3>4. P[k] \o Rest(P, k) = <<>>
      BY <2>2, <3>2
    <3>5. P[k] = <<>>
      BY <3>2, <3>3, <3>4, ConcatEqualIffEmpty DEF Bytes
    <3> QED
      BY <2>1, <3>1, <3>5
  <2> QED
    BY <2>2, <2>3 DEF fine
<1> QED
  BY <1>6, <1>7, <1>8 DEF r, all, fine

-----------------------------------------------------------------------------
(***************************************************************************)
(* A message read over another one.                                        *)
(***************************************************************************)
OverlayFields(t, m0, m, j) ==
  [n \in Names(t) |->
     IF m.f[n] # <<>> /\ \E i \in 1 .. Len(Fields[t]) :
                           i <= j /\ Fields[t][i].name = n
     THEN m.f[n] ELSE m0.f[n]]

OverlayUnknown(t, m0, m, j) ==
  m0.unknown \o SubSeq(m.unknown, 1, j - Len(Fields[t]))

(* m0 after the first j pieces of m.                                       *)
Overlay(t, m0, m, j) ==
  [type |-> t, f |-> OverlayFields(t, m0, m, j),
   unknown |-> OverlayUnknown(t, m0, m, j)]

(* The pieces of m that are not refused.                                   *)
Accepted(t, m) ==
  {i \in Nat : i \in 1 .. Len(Fields[t]) /\ Fields[t][i].kind = "string"
                 => Utf8Valid(m.f[Fields[t][i].name])}

LEMMA OverlayFieldsType ==
  ASSUME NEW t \in Types, NEW m0 \in Messages(t), NEW m \in Messages(t),
         NEW j \in Nat
  PROVE  /\ OverlayFields(t, m0, m, j) \in [Names(t) -> Bytes]
         /\ \A i \in 1 .. Len(Fields[t]) :
              OfKind(Fields[t][i].kind,
                     OverlayFields(t, m0, m, j)[Fields[t][i].name])
<1> DEFINE f == OverlayFields(t, m0, m, j)
<1>1. /\ m.f \in [Names(t) -> Bytes] /\ m0.f \in [Names(t) -> Bytes]
      /\ \A i \in 1 .. Len(Fields[t]) :
              /\ OfKind(Fields[t][i].kind, m.f[Fields[t][i].name])
              /\ OfKind(Fields[t][i].kind, m0.f[Fields[t][i].name])
  BY MessageFacts
<1>2. \A n \in Names(t) : f[n] \in {m.f[n], m0.f[n]}
  BY DEF OverlayFields
<1>3. f = [n \in Names(t) |-> f[n]]
  BY DEF OverlayFields
<1> HIDE DEF f
<1>4. \A n \in Names(t) : f[n] \in Bytes
  BY <1>1, <1>2
<1>5. f \in [Names(t) -> Bytes]
  BY <1>3, <1>4
<1>6. ASSUME NEW i \in 1 .. Len(Fields[t])
      PROVE  OfKind(Fields[t][i].kind, f[Fields[t][i].name])
  <2>1. Fields[t][i].name \in Names(t)
    BY FieldFacts
  <2>2. \/ f[Fields[t][i].name] = m.f[Fields[t][i].name]
        \/ f[Fields[t][i].name] = m0.f[Fields[t][i].name]
    BY <1>2, <2>1
  <2> QED
    BY <1>1, <2>2
<1> QED
  BY <1>5, <1>6 DEF f

LEMMA OverlayUnknownFacts ==
  ASSUME NEW t \in Types, NEW m0 \in Messages(t), NEW m \in Messages(t),
         NEW j \in 0 .. Len(Fields[t]) + Len(m.unknown)
  PROVE  /\ OverlayUnknown(t, m0, m, j) \in Seq(Unknown(t))
         /\ SubSeq(m.unknown, 1, j - Len(Fields[t])) \in Seq(Unknown(t))
         /\ j <= Len(Fields[t]) => OverlayUnknown(t, m0, m, j) = m0.unknown
<1> DEFINE F == Len(Fields[t])
           U == Len(m.unknown)
           u == SubSeq(m.unknown, 1, j - F)
<1>1. m.unknown \in Seq(Unknown(t)) /\ m0.unknown \in Seq(Unknown(t))
  BY MessageFacts
<1>2. F \in Nat /\ U \in Nat /\ j \in 0 .. F + U
  <2>1. F \in Nat /\ U \in Nat
    BY <1>1, Tables
  <2> QED
    BY <2>1, Zenon
<1>3. \A i \in 1 .. j - F : i \in 1 .. U
  <2> HIDE DEF F, U
  <2> QED
    BY <1>2
<1>4. \A i \in 1 .. j - F : m.unknown[i] \in Unknown(t)
  BY <1>1, <1>3, ElementOfSeq
<1>5. 1 \in Int /\ j - F \in Int
  BY <1>2
<1>6. u \in Seq(Unknown(t))
  BY <1>4, <1>5, SubSeqProperties
<1>7. OverlayUnknown(t, m0, m, j) = m0.unknown \o u
  BY DEF OverlayUnknown
<1>8. ASSUME j <= F PROVE u = <<>>
  <2>1. j - F < 1
    BY <1>2, <1>8
  <2> QED
    BY <1>5, <2>1, SubSeqEmpty
<1> HIDE DEF u
<1>9. m0.unknown \o u \in Seq(Unknown(t))
  BY <1>1, <1>6, ConcatProperties
<1>10. m0.unknown \o <<>> = m0.unknown
  BY <1>1, ConcatEmptySeq
<1> QED
  BY <1>6, <1>7, <1>8, <1>9, <1>10 DEF u

LEMMA OverlayType ==
  ASSUME NEW t \in Types, NEW m0 \in Messages(t), NEW m \in Messages(t),
         NEW j \in 0 .. Len(Fields[t]) + Len(m.unknown)
  PROVE  Overlay(t, m0, m, j) \in Messages(t)
<1>1. j \in Nat
  BY PiecesOf
<1> QED
  BY <1>1, OverlayFieldsType, OverlayUnknownFacts, MessageMade, Zenon DEF Overlay

(* Before the first piece, and after the last one.                         *)
LEMMA OverlayEnds ==
  ASSUME NEW t \in Types, NEW m0 \in Messages(t), NEW m \in Messages(t)
  PROVE  /\ Overlay(t, m0, m, 0) = m0
         /\ Overlay(t, m0, m, Len(Pieces(m))) = Merged(m0, m)
<1> DEFINE F == Len(Fields[t])
           U == Len(m.unknown)
           N == F + U
<1>1. /\ m0 \in [type : {t}, f : [Names(t) -> Bytes],
                 unknown : Seq(Unknown(t))]
      /\ m0.type = t /\ m0.f \in [Names(t) -> Bytes]
      /\ m0.unknown \in Seq(Unknown(t))
      /\ m.f \in [Names(t) -> Bytes] /\ m.unknown \in Seq(Unknown(t))
  BY MessageFacts
<1>2. F \in Nat /\ U \in Nat /\ Len(Pieces(m)) = N
  BY PiecesOf
<1>3. Overlay(t, m0, m, 0) = m0
  <2>1. 0 \in 0 .. F + U /\ 0 <= F
    <3> HIDE DEF F, U
    <3> QED
      BY <1>2
  <2>2. OverlayUnknown(t, m0, m, 0) = m0.unknown
    BY <2>1, OverlayUnknownFacts
  <2>3. \A i \in 1 .. F : ~(i <= 0)
    BY <1>2
  <2>4. OverlayFields(t, m0, m, 0) = [n \in Names(t) |-> m0.f[n]]
    BY <2>3 DEF OverlayFields
  <2>5. OverlayFields(t, m0, m, 0) = m0.f
    BY <1>1, <2>4
  <2>6. m0 = [type |-> t, f |-> m0.f, unknown |-> m0.unknown]
    BY <1>1
  <2> QED
    BY <2>2, <2>5, <2>6, Zenon DEF Overlay
<1>4. Overlay(t, m0, m, N) = Merged(m0, m)
  <2>1. N - F = U /\ \A i \in 1 .. F : i <= N
    <3> HIDE DEF F, U
    <3> QED
      BY <1>2
  <2>2. SubSeq(m.unknown, 1, U) = m.unknown
    BY <1>1, SubSeqFull
  <2>3. OverlayUnknown(t, m0, m, N) = m0.unknown \o m.unknown
    BY <2>1, <2>2, Zenon DEF OverlayUnknown
  <2>4. \A n \in Names(t) : \E i \in 1 .. F : i <= N /\ Fields[t][i].name = n
    BY <2>1, FieldNames
  <2>5. OverlayFields(t, m0, m, N)
          = [n \in Names(t) |-> IF m.f[n] # <<>> THEN m.f[n] ELSE m0.f[n]]
    <3> HIDE DEF N
    <3> QED
      BY <2>4, Zenon DEF OverlayFields
  <2>6. DOMAIN m0.f = Names(t)
    BY <1>1
  <2> QED
    BY <1>1, <2>3, <2>5, <2>6, Zenon DEF Overlay, Merged
<1> QED
  BY <1>2, <1>3, <1>4

(* What a value is read back as is stored as the value.                    *)
LEMMA KindStored ==
  ASSUME NEW kind \in Kinds, NEW v, OfKind(kind, v)
  PROVE  (IF WireType(kind) = 2 THEN ReadBack(WireType(kind), v)
          ELSE Truncated(kind, ReadBack(WireType(kind), v))) = v
<1>1. 5 \in 1 .. 10 /\ 10 \in 1 .. 10 /\ 16 \in {2, 16} /\ 2 \in {2, 16}
  OBVIOUS
<1>2. CASE kind = "uint32"
  <2>1. IsNumber(v, 5, 16) /\ WireType(kind) = 0
    BY <1>2 DEF OfKind, WireType
  <2>2. Low(Shown(v), 5, 16) = v
    BY <1>1, <2>1, LowSame, Zenon
  <2> QED
    BY <1>2, <2>1, <2>2 DEF ReadBack, Truncated
<1>3. CASE kind = "uint64"
  <2>1. IsNumber(v, 10, 2) /\ WireType(kind) = 0
    BY <1>3 DEF OfKind, WireType
  <2>2. Low(Shown(v), 10, 2) = v
    BY <1>1, <2>1, LowSame, Zenon
  <2> QED
    BY <1>3, <2>1, <2>2 DEF ReadBack, Truncated
<1>4. CASE kind = "string"
  BY <1>4 DEF WireType, ReadBack
<1> QED
  BY <1>2, <1>3, <1>4 DEF Kinds

LEMMA FieldPiece ==
  ASSUME NEW t \in Types, NEW m0 \in Messages(t), NEW m \in Messages(t),
         NEW k \in 1 .. Len(Fields[t]), NEW j \in Nat, k = j + 1
  PROVE  Takes(t, Pieces(m)[k], k \in Accepted(t, m),
               Overlay(t, m0, m, j), Overlay(t, m0, m, k))
<1> DEFINE F == Len(Fields[t])
           g == Fields[t][k]
           v == m.f[g.name]
           wt == WireType(g.kind)
           a == Overlay(t, m0, m, j)
           b == Overlay(t, m0, m, k)
<1>1. /\ m.type = t /\ m.f \in [Names(t) -> Bytes] /\ OfKind(g.kind, v)
      /\ m0.type = t /\ m0.f \in [Names(t) -> Bytes]
      /\ m0.unknown \in Seq(Unknown(t))
  BY MessageFacts
<1>2. F \in Nat /\ k <= F /\ j <= F /\ k \in Nat
      /\ j \in 0 .. F + Len(m.unknown) /\ k \in 0 .. F + Len(m.unknown)
  <2>1. F \in Nat /\ Len(m.unknown) \in Nat /\ k \in 1 .. F
    BY PiecesOf
  <2> HIDE DEF F
  <2> QED
    BY <2>1
<1>3. /\ g.kind \in Kinds /\ g.number \in 1 .. 15 /\ g.name \in Names(t)
      /\ wt \in {0, 2} /\ (wt = 2 <=> g.kind = "string")
      /\ Writable(wt, v)
  BY <1>1, FieldFacts, WireTypes, KindValue
<1>4. Pieces(m)[k] = IF v = <<>> THEN <<>> ELSE Record(g.number, wt, v)
  BY PiecesOf DEF FieldBytes
<1>5. a \in Messages(t) /\ b \in Messages(t)
  BY <1>2, OverlayType
<1>6. /\ a = [type |-> t, f |-> OverlayFields(t, m0, m, j), unknown |-> m0.unknown]
      /\ b = [type |-> t, f |-> OverlayFields(t, m0, m, k), unknown |-> m0.unknown]
  BY <1>2, OverlayUnknownFacts, Zenon DEF Overlay
<1>7. k \in Accepted(t, m) <=> (g.kind = "string" => Utf8Valid(v))
  BY <1>2 DEF Accepted
(* Only the field of number k changes. *)
<1>8. \A n \in Names(t) \ {g.name} :
        OverlayFields(t, m0, m, k)[n] = OverlayFields(t, m0, m, j)[n]
  <2> SUFFICES ASSUME NEW n \in Names(t), n # g.name
               PROVE  OverlayFields(t, m0, m, k)[n]
                        = OverlayFields(t, m0, m, j)[n]
    OBVIOUS
  <2>1. \A i \in 1 .. F : i <= k <=> i <= j \/ i = k
    BY <1>2
  <2>2. (\E i \in 1 .. F : i <= k /\ Fields[t][i].name = n)
          <=> \E i \in 1 .. F : i <= j /\ Fields[t][i].name = n
    BY <2>1, Zenon
  <2> QED
    BY <2>2 DEF OverlayFields
<1>9. OverlayFields(t, m0, m, k)[g.name] = IF v # <<>> THEN v ELSE m0.f[g.name]
  <2>1. k <= k /\ k \in 1 .. F
    BY <1>2
  <2>2. \E i \in 1 .. F : i <= k /\ Fields[t][i].name = g.name
    BY <2>1, Zenon
  <2> QED
    BY <1>3, <2>2 DEF OverlayFields
<1>10. OverlayFields(t, m0, m, j)[g.name] = m0.f[g.name]
  <2>1. ASSUME NEW i \in 1 .. F, i <= j, Fields[t][i].name = g.name PROVE FALSE
    <3>1. i # k
      BY <1>2, <2>1
    <3> QED
      BY <2>1, <3>1, Tables
  <2> QED
    BY <1>3, <2>1 DEF OverlayFields
<1> DEFINE fj == OverlayFields(t, m0, m, j)
           fk == OverlayFields(t, m0, m, k)
<1>11. fj = [n \in Names(t) |-> fj[n]] /\ fk = [n \in Names(t) |-> fk[n]]
  BY DEF OverlayFields
<1>12. CASE v = <<>>
  <2>1. \A n \in Names(t) : fk[n] = fj[n]
    BY <1>8, <1>9, <1>10, <1>12
  <2>2. fk = fj
    <3> HIDE DEF fj, fk
    <3> QED
      BY <1>11, <2>1
  <2>3. Utf8Valid(v)
    <3>1. DOMAIN v = {}
      BY <1>12
    <3> QED
      BY <3>1, Zenon DEF Utf8Valid
  <2>4. k \in Accepted(t, m) /\ b = a /\ Pieces(m)[k] = <<>>
    BY <1>4, <1>6, <1>7, <1>12, <2>2, <2>3
  <2> HIDE DEF a, b
  <2> QED
    BY <2>4, Zenon DEF Takes, a, b
<1>13. CASE v # <<>>
  <2>1. fk = [fj EXCEPT ![g.name] = v]
    <3>1. fk[g.name] = v /\ \A n \in Names(t) \ {g.name} : fk[n] = fj[n]
      BY <1>8, <1>9, <1>13
    <3> HIDE DEF fj, fk, g
    <3> QED
      BY <1>3, <1>11, <3>1
  <2>2. [a EXCEPT !.f[g.name] = v] = b
    <3>1. [a EXCEPT !.f[g.name] = v]
            = [type |-> t, f |-> [a.f EXCEPT ![g.name] = v],
               unknown |-> a.unknown]
      <4> HIDE DEF a
      <4>1. a \in Messages(t) /\ OfKind(g.kind, v)
        BY <1>1, <1>5
      <4> QED
        BY <4>1, FieldStored
    <3>2. a.f = fj /\ a.unknown = m0.unknown
      BY <1>6
    <3> QED
      BY <1>6, <2>1, <3>1, <3>2
  <2>3. Known(t, g.number, wt) = {g}
    BY KnownField
  <2>4. Stored(a, g.number, wt, ReadBack(wt, v)) = [a EXCEPT !.f[g.name] = v]
    <3> DEFINE w == ReadBack(wt, v)
    <3>1. (IF wt = 2 THEN w ELSE Truncated(g.kind, w)) = v
      BY <1>1, <1>3, KindStored
    <3>2. a.type = t
      BY <1>6
    <3> HIDE DEF a, wt, w
    <3>3. (CHOOSE f \in {g} : TRUE) = g
      OBVIOUS
    <3>4. Stored(a, g.number, wt, w)
            = [a EXCEPT !.f[g.name] = IF wt = 2 THEN w ELSE Truncated(g.kind, w)]
      BY <2>3, <3>2, <3>3 DEF Stored
    <3> QED
      BY <3>1, <3>4 DEF w
  <2>5. Refuses(t, g.number, wt, v) <=> wt = 2 /\ ~Utf8Valid(v)
    BY <2>3 DEF Refuses
  <2>6. k \in Accepted(t, m) <=> ~Refuses(t, g.number, wt, v)
    BY <1>3, <1>7, <2>5
  <2>7. b = Stored(a, g.number, wt, ReadBack(wt, v))
    BY <2>2, <2>4
  <2>8. Pieces(m)[k] = Record(g.number, wt, v)
    BY <1>4, <1>13
  <2> HIDE DEF a, b, wt, v, g
  <2>9. Takes(t, Pieces(m)[k], k \in Accepted(t, m), a, b)
    BY <1>3, <2>6, <2>7, <2>8, Zenon DEF Takes
  <2> QED
    BY <2>9 DEF a, b
<1> QED
  BY <1>12, <1>13

LEMMA AppendAfter ==
  ASSUME NEW S, NEW x \in Seq(S), NEW y \in Seq(S), NEW e \in S
  PROVE  x \o (y \o <<e>>) = Append(x \o y, e)
<1>1. (x \o y) \o <<e>> = x \o (y \o <<e>>)
  BY ConcatAssociative
<1>2. x \o y \in Seq(S)
  BY ConcatProperties
<1>3. Append(x \o y, e) = (x \o y) \o <<e>>
  BY <1>2, AppendIsConcat
<1> QED
  BY <1>1, <1>3, Zenon

LEMMA UnknownPiece ==
  ASSUME NEW t \in Types, NEW m0 \in Messages(t), NEW m \in Messages(t),
         NEW i \in 1 .. Len(m.unknown), NEW j \in Nat, NEW k \in Nat,
         k = Len(Fields[t]) + i, k = j + 1
  PROVE  Takes(t, Pieces(m)[k], k \in Accepted(t, m),
               Overlay(t, m0, m, j), Overlay(t, m0, m, k))
<1> DEFINE F == Len(Fields[t])
           u == m.unknown[i]
           w == ReadBack(u.wt, u.v)
           a == Overlay(t, m0, m, j)
           b == Overlay(t, m0, m, k)
           s == SubSeq(m.unknown, 1, j - F)
<1>1. /\ m.unknown \in Seq(Unknown(t)) /\ m0.unknown \in Seq(Unknown(t))
  BY MessageFacts
<1>2. /\ F \in Nat /\ Len(m.unknown) \in Nat /\ k - F = i /\ j - F = i - 1
      /\ j \in 0 .. F + Len(m.unknown) /\ k \in 0 .. F + Len(m.unknown)
      /\ ~(k <= F) /\ F <= j
  <2>1. F \in Nat /\ Len(m.unknown) \in Nat /\ k = F + i
    BY PiecesOf
  <2> HIDE DEF F
  <2> QED
    BY <2>1
<1>3. u \in Unknown(t)
  BY <1>1, ElementOfSeq
<1>4. /\ u.number \in 1 .. 15 /\ u.wt \in {0, 2}
      /\ Writable(u.wt, u.v) /\ Known(t, u.number, u.wt) = {}
      /\ u = [number |-> u.number, wt |-> u.wt, v |-> u.v]
      /\ u.wt = 0 => IsNumber(u.v, 10, 2)
  <2> HIDE DEF u
  <2> QED
    BY <1>3, UnknownFacts
<1>5. Pieces(m)[k] = Record(u.number, u.wt, u.v)
  BY PiecesOf
<1>6. k \in Accepted(t, m)
  BY <1>2 DEF Accepted
<1>7. ~Refuses(t, u.number, u.wt, u.v)
  BY <1>4 DEF Refuses
<1>8. a \in Messages(t) /\ a.type = t
  BY <1>2, OverlayType DEF Overlay
<1>9. OverlayFields(t, m0, m, k) = OverlayFields(t, m0, m, j)
  <2>1. \A n \in 1 .. F : n <= k /\ n <= j
    BY <1>2
  <2> QED
    BY <2>1 DEF OverlayFields
<1>10. OverlayUnknown(t, m0, m, k) = Append(OverlayUnknown(t, m0, m, j), u)
  <2>1. 1 \in 1 .. Len(m.unknown) /\ i \in 1 .. Len(m.unknown)
    BY <1>2
  <2>2. SubSeq(m.unknown, 1, i) = SubSeq(m.unknown, 1, i - 1) \o <<u>>
    BY <1>1, <2>1, SubSeqRecursiveSecond
  <2>3. s \in Seq(Unknown(t))
    BY <1>2, OverlayUnknownFacts
  <2>4. SubSeq(m.unknown, 1, k - F) = s \o <<u>>
    BY <1>2, <2>2
  <2> DEFINE S == Unknown(t)
             x == m0.unknown
  <2>5. x \in Seq(S) /\ s \in Seq(S) /\ u \in S
    BY <1>1, <1>3, <2>3
  <2> HIDE DEF s, u, x, S
  <2>6. x \o (s \o <<u>>) = Append(x \o s, u)
    BY <2>5, AppendAfter
  <2> QED
    BY <2>4, <2>6 DEF OverlayUnknown, s, x
<1>11. Stored(a, u.number, u.wt, w) = [a EXCEPT !.unknown = Append(@, u)]
  <2>1. (IF u.wt = 2 THEN w ELSE Truncated("uint64", w)) = u.v
    <3>1. CASE u.wt = 2
      BY <3>1 DEF ReadBack
    <3>2. CASE u.wt = 0
      <4>1. 10 \in 1 .. 10 /\ 2 \in {2, 16}
        OBVIOUS
      <4>2. Low(Shown(u.v), 10, 2) = u.v
        BY <1>4, <3>2, <4>1, LowSame, Zenon
      <4> QED
        BY <3>2, <4>2 DEF ReadBack, Truncated
    <3> QED
      BY <1>4, <3>1, <3>2
  <2> HIDE DEF a, u, w
  <2>2. Stored(a, u.number, u.wt, w)
          = [a EXCEPT !.unknown = Append(@,
               [number |-> u.number, wt |-> u.wt,
                v |-> IF u.wt = 2 THEN w ELSE Truncated("uint64", w)])]
    BY <1>4, <1>8 DEF Stored
  <2> QED
    BY <1>4, <2>1, <2>2, Zenon
<1>12. b = Stored(a, u.number, u.wt, w)
  <2>1. [a EXCEPT !.unknown = Append(@, u)]
          = [type |-> t, f |-> a.f, unknown |-> Append(a.unknown, u)]
    <3> HIDE DEF a, u
    <3> QED
      BY <1>3, <1>8, UnknownStored
  <2>2. /\ a.f = OverlayFields(t, m0, m, j)
        /\ a.unknown = OverlayUnknown(t, m0, m, j)
    BY DEF Overlay
  <2>3. b = [type |-> t, f |-> OverlayFields(t, m0, m, k),
             unknown |-> OverlayUnknown(t, m0, m, k)]
    BY DEF Overlay
  <2> HIDE DEF a, b, u, w
  <2> QED
    BY <1>9, <1>10, <1>11, <2>1, <2>2, <2>3, Zenon
<1> HIDE DEF a, b, u, w
<1>13. Takes(t, Pieces(m)[k], k \in Accepted(t, m), a, b)
  BY <1>4, <1>5, <1>6, <1>7, <1>12, Zenon DEF Takes, w
<1> QED
  BY <1>13 DEF a, b

LEMMA PieceTaken ==
  ASSUME NEW t \in Types, NEW m0 \in Messages(t), NEW m \in Messages(t),
         NEW j \in 0 .. Len(Pieces(m)), NEW k \in 0 .. Len(Pieces(m)),
         k = j + 1
  PROVE  Takes(t, Pieces(m)[k], k \in Accepted(t, m),
               Overlay(t, m0, m, j), Overlay(t, m0, m, k))
<1> DEFINE F == Len(Fields[t])
           U == Len(m.unknown)
<1>1. F \in Nat /\ U \in Nat /\ Len(Pieces(m)) = F + U
  BY PiecesOf
<1>2. j \in Nat /\ k \in Nat
  BY <1>1
<1>3. CASE k <= F
  <2>1. k \in 1 .. F
    BY <1>1, <1>2, <1>3
  <2> QED
    BY <1>2, <2>1, FieldPiece
<1>4. CASE ~(k <= F)
  <2> DEFINE i == k - F
  <2>1. i \in 1 .. U /\ k = F + i
    <3> HIDE DEF F, U
    <3> QED
      BY <1>1, <1>2, <1>4
  <2> HIDE DEF i
  <2> QED
    BY <1>2, <2>1, UnknownPiece
<1> QED
  BY <1>3, <1>4

-----------------------------------------------------------------------------
(***************************************************************************)
(* Round trips.                                                            *)
(***************************************************************************)
LEMMA AllAccepted ==
  ASSUME NEW t \in Types, NEW m \in Messages(t)
  PROVE  Readable(m) <=> \A i \in 1 .. Len(Pieces(m)) : i \in Accepted(t, m)
<1> DEFINE F == Len(Fields[t])
           good(i) == Fields[t][i].kind = "string"
                        => Utf8Valid(m.f[Fields[t][i].name])
<1>1. m.type = t
  BY MessageFacts
<1>2. F \in Nat /\ Len(Pieces(m)) \in Nat /\ F <= Len(Pieces(m))
  <2>1. F \in Nat /\ Len(m.unknown) \in Nat
        /\ Len(Pieces(m)) = F + Len(m.unknown)
    BY PiecesOf
  <2> HIDE DEF F
  <2> QED
    BY <2>1
<1>3. Readable(m) <=> \A i \in 1 .. F : good(i)
  <2>1. Readable(m) <=> \A f \in ToSet(Fields[t]) :
                          f.kind = "string" => Utf8Valid(m.f[f.name])
    BY <1>1 DEF Readable
  <2>2. ToSet(Fields[t]) = {Fields[t][i] : i \in 1 .. F}
    BY FieldNames
  <2> QED
    BY <2>1, <2>2
<1>4. \A i \in Nat : i \in Accepted(t, m) <=> (i \in 1 .. F => good(i))
  BY DEF Accepted
<1> HIDE DEF F, good
<1>5. /\ \A i \in 1 .. F : i \in 1 .. Len(Pieces(m))
      /\ \A i \in 1 .. Len(Pieces(m)) : i \in Nat
      /\ \A i \in 1 .. F : i \in Nat
  BY <1>2
<1> QED
  BY <1>3, <1>4, <1>5, Zenon

LEMMA MessageTrace ==
  ASSUME NEW t \in Types, NEW m \in Messages(t)
  PROVE  Trace(t, Pieces(m),
               [j \in 0 .. Len(Pieces(m)) |-> Overlay(t, Default(t), m, j)],
               Accepted(t, m))
<1> DEFINE N == Len(Pieces(m))
           msg == [j \in 0 .. N |-> Overlay(t, Default(t), m, j)]
<1>1. Pieces(m) \in Seq(Bytes) /\ N \in Nat
  <2>1. Pieces(m) \in Seq(Bytes)
    BY PiecesOf
  <2> QED
    BY <2>1, LenProperties
<1>2. Default(t) \in Messages(t)
  BY DefaultType
<1>3. \A j \in 0 .. N : Overlay(t, Default(t), m, j) \in Messages(t)
  <2>1. N = Len(Fields[t]) + Len(m.unknown)
    BY PiecesOf
  <2> QED
    BY <1>2, <2>1, OverlayType
<1>4. \A j, k \in 0 .. N : k = j + 1 =>
        Takes(t, Pieces(m)[k], k \in Accepted(t, m),
              Overlay(t, Default(t), m, j), Overlay(t, Default(t), m, k))
  BY <1>2, PieceTaken
<1>5. Overlay(t, Default(t), m, 0) = Default(t)
  BY <1>2, OverlayEnds
<1> HIDE DEF N
<1>6. 0 \in 0 .. N
  BY <1>1
<1>7. msg \in [0 .. N -> Messages(t)] /\ msg[0] = Default(t)
  BY <1>3, <1>5, <1>6
<1>8. \A j \in 0 .. N : msg[j] = Overlay(t, Default(t), m, j)
  OBVIOUS
<1> HIDE DEF msg
<1>9. \A j, k \in 0 .. N : k = j + 1 =>
        Takes(t, Pieces(m)[k], k \in Accepted(t, m), msg[j], msg[k])
  BY <1>4, <1>8
<1>10. Trace(t, Pieces(m), msg, Accepted(t, m))
  BY <1>1, <1>7, <1>9 DEF Trace, N
<1> QED
  BY <1>10 DEF msg, N

LEMMA OverlayAll ==
  ASSUME NEW t \in Types, NEW m \in Messages(t)
  PROVE  Overlay(t, Default(t), m, Len(Pieces(m))) = m
<1>1. Default(t) \in Messages(t) /\ Default(t).type = t
  BY DefaultType
<1>2. Merged(Default(t), m) = m
  <2>1. Copied(Default(t), m) = m
    BY <1>1, CopiedSame
  <2> QED
    BY <1>1, <2>1 DEF Copied, Cleared
<1> QED
  BY <1>1, <1>2, OverlayEnds

LEMMA ParsedBack ==
  ASSUME NEW t \in Types, NEW m \in Messages(t)
  PROVE  /\ Parsed(t, Serialize(m)).ok <=> Readable(m)
         /\ Parsed(t, Serialize(m)).ok => Parsed(t, Serialize(m)).msg = m
<1> DEFINE N == Len(Pieces(m))
           msg == [j \in 0 .. N |-> Overlay(t, Default(t), m, j)]
           c == Serialize(m)
<1>1. Trace(t, Pieces(m), msg, Accepted(t, m))
  BY MessageTrace
<1>2. IsCut(c, FlattenSeq(Pieces(m))) /\ c = FlattenSeq(Pieces(m))
  BY SerializeType, CutOfWhole DEF Serialize
<1>3. msg[N] = m
  <2>1. N \in 0 .. N
    BY PiecesOf
  <2> QED
    BY <2>1, OverlayAll
<1> HIDE DEF msg, c
<1>4. /\ Parsed(t, c).ok <=> \A i \in 1 .. Len(Pieces(m)) : i \in Accepted(t, m)
      /\ Parsed(t, c).ok => Parsed(t, c).msg = msg[Len(Pieces(m))]
  BY <1>1, <1>2, ParsedTrace
<1> QED
  BY <1>3, <1>4, AllAccepted DEF c, N

(* What is written is read back as it was, unless a string is not UTF-8:   *)
(* that is always refused.                                                 *)
THEOREM WrittenIsRead == Spec => []RoundTrip
<1>1. TypeOK => RoundTrip
  <2> SUFFICES ASSUME TypeOK, NEW o \in Objects
               PROVE  LET r == Parsed(obj[o].type, Serialize(obj[o]))
                      IN  IF Readable(obj[o]) THEN r.ok /\ r.msg = obj[o]
                          ELSE ~r.ok
    BY DEF RoundTrip
  <2>1. obj[o].type \in Types /\ obj[o] \in Messages(obj[o].type)
    BY DEF TypeOK
  <2> QED
    BY <2>1, ParsedBack
<1> QED
  BY <1>1, MessageTypes, PTL

LEMMA CutOfMessage ==
  ASSUME NEW t \in Types, NEW m \in Messages(t), NEW k \in 0 .. Len(Serialize(m)),
         Parsed(t, SubSeq(Serialize(m), 1, k)).ok
  PROVE  \E j \in 0 .. Len(Pieces(m)) :
           Parsed(t, SubSeq(Serialize(m), 1, k)).msg
             = Overlay(t, Default(t), m, j)
<1> DEFINE N == Len(Pieces(m))
           msg == [j \in 0 .. N |-> Overlay(t, Default(t), m, j)]
           s == Serialize(m)
           c == SubSeq(s, 1, k)
<1>1. Trace(t, Pieces(m), msg, Accepted(t, m))
  BY MessageTrace
<1>2. s \in Bytes /\ s = FlattenSeq(Pieces(m))
  BY SerializeType DEF Serialize
<1>3. k \in 0 .. Len(s)
  OBVIOUS
<1>4. \A j \in 0 .. N : msg[j] = Overlay(t, Default(t), m, j)
  OBVIOUS
<1>5. Parsed(t, c).ok
  OBVIOUS
<1> HIDE DEF msg, s
<1>6. IsCut(c, s)
  <2>1. s \in Seq(0 .. 255) /\ Len(s) \in Nat
    BY <1>2 DEF Bytes
  <2>2. \A i \in 1 .. k : i \in 1 .. Len(s)
    BY <1>3, <2>1
  <2>3. \A i \in 1 .. k : s[i] \in 0 .. 255
    BY <2>1, <2>2, ElementOfSeq
  <2>4. /\ c \in Seq(0 .. 255) /\ Len(c) = IF 1 <= k THEN k - 1 + 1 ELSE 0
        /\ \A i \in 1 .. k - 1 + 1 : c[i] = s[1 + i - 1]
    BY <1>3, <2>1, <2>3, SubSeqProperties
  <2> HIDE DEF c
  <2>5. Len(c) = k /\ k <= Len(s)
    BY <1>3, <2>1, <2>4
  <2>6. \A i \in 1 .. k : c[i] = s[i]
    <3>1. \A i \in 1 .. k : i \in 1 .. k - 1 + 1 /\ 1 + i - 1 = i
      BY <1>3, <2>1
    <3> QED
      BY <2>4, <3>1
  <2> QED
    BY <2>4, <2>5, <2>6 DEF IsCut, Bytes
<1> HIDE DEF c
<1>7. \E j \in 0 .. N : Parsed(t, c).msg = msg[j]
  BY <1>1, <1>2, <1>5, <1>6, ParsedTrace
<1> QED
  BY <1>4, <1>7 DEF c, s

(* Whatever is cut off at the end, a field that is read has its value.     *)
THEOREM CutsNeverAlter == Spec => []CutNeverAlters
<1>1. TypeOK => CutNeverAlters
  <2> SUFFICES ASSUME TypeOK, NEW o \in Objects,
                      NEW k \in 0 .. Len(Serialize(obj[o])),
                      Parsed(obj[o].type, SubSeq(Serialize(obj[o]), 1, k)).ok
               PROVE  LET m == obj[o]
                          r == Parsed(m.type, SubSeq(Serialize(m), 1, k))
                      IN  /\ \A n \in DOMAIN m.f : r.msg.f[n] \in {<<>>, m.f[n]}
                          /\ IsPrefix(r.msg.unknown, m.unknown)
    BY DEF CutNeverAlters
  <2> DEFINE m == obj[o]
             t == m.type
             r == Parsed(t, SubSeq(Serialize(m), 1, k))
  <2>1. t \in Types /\ m \in Messages(t)
    BY DEF TypeOK
  <2>2. k \in 0 .. Len(Serialize(m)) /\ r.ok
    OBVIOUS
  <2> HIDE DEF m, t
  <2>3. PICK j \in 0 .. Len(Pieces(m)) : r.msg = Overlay(t, Default(t), m, j)
    BY <2>1, <2>2, CutOfMessage
  <2> HIDE DEF r
  <2>4. DOMAIN m.f = Names(t) /\ m.unknown \in Seq(Unknown(t))
    BY <2>1, MessageFacts
  <2>5. /\ \A n \in Names(t) : Default(t).f[n] = <<>>
        /\ Default(t).unknown = <<>> /\ Default(t) \in Messages(t)
    BY <2>1, DefaultType DEF Default
  <2>6. \A n \in Names(t) : r.msg.f[n] \in {<<>>, m.f[n]}
    BY <2>3, <2>5 DEF Overlay, OverlayFields
  <2> DEFINE F == Len(Fields[t])
             U == Len(m.unknown)
             u == SubSeq(m.unknown, 1, j - F)
  <2>7. F \in Nat /\ U \in Nat /\ j \in 0 .. F + U
    BY <2>1, PiecesOf
  <2>8. u \in Seq(Unknown(t))
    BY <2>1, <2>5, <2>7, OverlayUnknownFacts
  <2>9. r.msg.unknown = u
    <3>1. r.msg.unknown = <<>> \o u
      BY <2>3, <2>5 DEF Overlay, OverlayUnknown
    <3> HIDE DEF u
    <3> QED
      BY <2>8, <3>1, ConcatEmptySeq
  <2>10. IsPrefix(u, m.unknown)
    <3>1. \A i \in 1 .. j - F : m.unknown[i] \in Unknown(t)
      <4>1. \A i \in 1 .. j - F : i \in 1 .. U
        <5> HIDE DEF F, U
        <5> QED
          BY <2>7
      <4> QED
        BY <2>4, <4>1, ElementOfSeq
    <3>2. Len(u) = IF 1 <= j - F THEN j - F - 1 + 1 ELSE 0
      <4>1. 1 \in Int /\ j - F \in Int
        BY <2>7
      <4> QED
        BY <3>1, <4>1, SubSeqProperties
    <3>3. CASE 1 <= j - F
      <4>1. Len(u) = j - F /\ Len(u) <= U
        <5> HIDE DEF F, U, u
        <5> QED
          BY <2>7, <3>2, <3>3
      <4>2. SubSeq(u, 1, Len(u)) = u
        <5> HIDE DEF u
        <5> QED
          BY <2>8, SubSeqFull
      <4> QED
        BY <4>1, <4>2 DEF IsPrefix
    <3>4. CASE ~(1 <= j - F)
      <4>1. Len(u) = 0
        BY <3>2, <3>4
      <4> HIDE DEF u
      <4>2. SubSeq(u, 1, 0) = <<>> /\ SubSeq(m.unknown, 1, 0) = <<>>
        BY SubSeqEmpty
      <4> QED
        BY <2>7, <4>1, <4>2 DEF IsPrefix
    <3> QED
      BY <3>3, <3>4
  <2> HIDE DEF u
  <2> QED
    BY <2>4, <2>6, <2>9, <2>10 DEF m, t, r
<1> QED
  BY <1>1, MessageTypes, PTL

-----------------------------------------------------------------------------
(***************************************************************************)
(* Merging.                                                                *)
(***************************************************************************)
LEMMA PiecesJoined ==
  ASSUME NEW a \in Seq(Bytes), NEW b \in Seq(Bytes)
  PROVE  FlattenSeq(a \o b) = FlattenSeq(a) \o FlattenSeq(b)
<1> DEFINE P == a \o b
           N == Len(a)
           B == FlattenSeq(b)
           T == {n \in Nat : n <= N => Rest(P, N - n) = Rest(a, N - n) \o B}
<1>1. /\ P \in Seq(Bytes) /\ N \in Nat /\ Len(b) \in Nat
      /\ Len(P) = N + Len(b)
      /\ \A i \in 1 .. N + Len(b) : P[i] = IF i <= N THEN a[i] ELSE b[i - N]
  BY ConcatProperties
<1>2. B \in Bytes
  BY FlattenType DEF Bytes
<1>3. Rest(P, N) = B
  <2>1. SubSeq(P, N + 1, Len(P)) = b
    BY ConcatParts
  <2> QED
    BY <2>1 DEF Rest
<1>4. Rest(a, N) = <<>>
  BY RestOfPieces
<1> HIDE DEF P, N, B
<1>5. 0 \in T
  <2>1. N - 0 = N
    BY <1>1
  <2>2. <<>> \o B = B
    BY <1>2, ConcatEmptySeq DEF Bytes
  <2> QED
    BY <1>3, <1>4, <2>1, <2>2
<1>6. ASSUME NEW n \in Nat, n \in T PROVE n + 1 \in T
  <2> SUFFICES ASSUME n + 1 <= N
               PROVE  Rest(P, N - (n + 1)) = Rest(a, N - (n + 1)) \o B
    OBVIOUS
  <2> DEFINE j == N - (n + 1)
             k == N - n
  <2>1. /\ j \in 0 .. N /\ k \in 0 .. N /\ k = j + 1 /\ k \in 1 .. N
        /\ j \in 0 .. Len(P) /\ k \in 0 .. Len(P) /\ k \in 1 .. N + Len(b)
        /\ n <= N /\ k <= N
    BY <1>1
  <2>2. Rest(P, k) = Rest(a, k) \o B
    BY <1>6, <2>1
  <2> HIDE DEF j, k
  <2>3. Rest(P, j) = P[k] \o Rest(P, k)
    BY <1>1, <2>1, RestOfPieces
  <2>4. Rest(a, j) = a[k] \o Rest(a, k) /\ Rest(a, k) \in Bytes
    BY <2>1, RestOfPieces DEF N
  <2>5. P[k] = a[k]
    BY <1>1, <2>1
  <2>6. a[k] \in Bytes
    BY <2>1, ElementOfSeq DEF N
  <2>7. (a[k] \o Rest(a, k)) \o B = a[k] \o (Rest(a, k) \o B)
    BY <1>2, <2>4, <2>6, BytesAssociative
  <2>8. Rest(P, j) = Rest(a, j) \o B
    BY <2>2, <2>3, <2>4, <2>5, <2>7
  <2> QED
    BY <2>8 DEF j
<1>7. N \in T
  <2> HIDE DEF T
  <2> QED
    BY <1>1, <1>5, <1>6, SetInduction, Zenon
<1>8. Rest(P, 0) = Rest(a, 0) \o B
  <2>1. N - N = 0 /\ N <= N
    BY <1>1
  <2> QED
    BY <1>7, <2>1
<1>9. Rest(P, 0) = FlattenSeq(P) /\ Rest(a, 0) = FlattenSeq(a)
  BY <1>1, RestOfPieces
<1> QED
  BY <1>8, <1>9 DEF P, B

(* The pieces of two messages of a class, one message after the other.     *)
LEMMA MergeTrace ==
  ASSUME NEW t \in Types, NEW a \in Messages(t), NEW b \in Messages(t),
         Readable(a), Readable(b)
  PROVE  Trace(t, Pieces(a) \o Pieces(b),
               [j \in 0 .. Len(Pieces(a) \o Pieces(b)) |->
                  IF j <= Len(Pieces(a)) THEN Overlay(t, Default(t), a, j)
                  ELSE Overlay(t, a, b, j - Len(Pieces(a)))],
               Nat)
<1> DEFINE x == Pieces(a)
           y == Pieces(b)
           P == x \o y
           A == Len(x)
           B == Len(y)
           front(j) == Overlay(t, Default(t), a, j)
           back(j) == Overlay(t, a, b, j)
           msg == [j \in 0 .. Len(P) |->
                     IF j <= A THEN front(j) ELSE back(j - A)]
<1>1. x \in Seq(Bytes) /\ y \in Seq(Bytes)
  BY PiecesOf
<1>2. /\ P \in Seq(Bytes) /\ A \in Nat /\ B \in Nat /\ Len(P) = A + B
      /\ \A i \in 1 .. A + B : P[i] = IF i <= A THEN x[i] ELSE y[i - A]
  <2> HIDE DEF x, y
  <2> QED
    BY <1>1, ConcatProperties
<1>3. Default(t) \in Messages(t)
  BY DefaultType
<1>4. /\ \A j \in 0 .. A : front(j) \in Messages(t)
      /\ \A j \in 0 .. B : back(j) \in Messages(t)
  <2>1. A = Len(Fields[t]) + Len(a.unknown)
        /\ B = Len(Fields[t]) + Len(b.unknown)
    BY PiecesOf
  <2> QED
    BY <1>3, <2>1, OverlayType
<1>5. /\ \A j, k \in 0 .. A : k = j + 1 =>
           Takes(t, x[k], k \in Accepted(t, a), front(j), front(k))
      /\ \A j, k \in 0 .. B : k = j + 1 =>
           Takes(t, y[k], k \in Accepted(t, b), back(j), back(k))
  BY <1>3, PieceTaken
<1>6. front(0) = Default(t)
  BY <1>3, OverlayEnds
<1>7. front(A) = back(0)
  <2>1. front(A) = a
    BY OverlayAll
  <2>2. back(0) = a
    BY OverlayEnds
  <2> QED
    BY <2>1, <2>2
<1>8. /\ \A i \in 1 .. A : i \in Accepted(t, a)
      /\ \A i \in 1 .. B : i \in Accepted(t, b)
  BY AllAccepted
<1>9. \A j \in 0 .. Len(P) : msg[j] = IF j <= A THEN front(j) ELSE back(j - A)
  OBVIOUS
<1> HIDE DEF x, y, A, B, P, front, back
<1>10. msg \in [0 .. Len(P) -> Messages(t)]
  <2>1. \A j \in 0 .. Len(P) : IF j <= A THEN j \in 0 .. A ELSE j - A \in 0 .. B
    BY <1>2
  <2> QED
    BY <1>4, <2>1
<1> HIDE DEF msg
<1>11. msg[0] = Default(t)
  BY <1>2, <1>6, <1>9
<1>12. ASSUME NEW j \in 0 .. Len(P), NEW k \in 0 .. Len(P), k = j + 1
       PROVE  Takes(t, P[k], k \in Nat, msg[j], msg[k])
  <2>1. k \in Nat /\ k \in 1 .. A + B
    BY <1>2, <1>12
  <2>2. CASE k <= A
    <3>1. j \in 0 .. A /\ k \in 0 .. A /\ k \in 1 .. A /\ j <= A
      BY <1>2, <1>12, <2>1, <2>2
    <3>2. P[k] = x[k] /\ msg[j] = front(j) /\ msg[k] = front(k)
      BY <1>2, <1>9, <2>1, <2>2, <3>1
    <3>3. Takes(t, x[k], k \in Accepted(t, a), front(j), front(k))
          /\ k \in Accepted(t, a)
      BY <1>5, <1>8, <1>12, <3>1
    <3> QED
      BY <2>1, <3>2, <3>3, Zenon DEF Takes
  <2>3. CASE ~(k <= A)
    <3> DEFINE i == j - A
               l == k - A
    <3>1. i \in 0 .. B /\ l \in 0 .. B /\ l = i + 1 /\ l \in 1 .. B
      BY <1>2, <1>12, <2>1, <2>3
    <3>2. P[k] = y[l] /\ msg[k] = back(l)
      BY <1>2, <1>9, <2>1, <2>3
    <3>3. msg[j] = back(i)
      <4>1. CASE j <= A
        <5>1. j = A /\ i = 0
          BY <1>2, <1>12, <2>1, <2>3, <4>1
        <5>2. msg[j] = front(j)
          BY <1>9, <4>1
        <5> HIDE DEF i
        <5> QED
          BY <1>7, <5>1, <5>2
      <4>2. CASE ~(j <= A)
        BY <1>9, <4>2
      <4> QED
        BY <4>1, <4>2
    <3> HIDE DEF i, l
    <3>4. Takes(t, y[l], l \in Accepted(t, b), back(i), back(l))
          /\ l \in Accepted(t, b)
      BY <1>5, <1>8, <3>1
    <3> QED
      BY <2>1, <3>2, <3>3, <3>4, Zenon DEF Takes
  <2> QED
    BY <2>2, <2>3
<1>13. Trace(t, P, msg, Nat)
  BY <1>2, <1>10, <1>11, <1>12, Zenon DEF Trace
<1> QED
  BY <1>13 DEF msg, P, A, B, x, y, front, back

LEMMA MergeParsed ==
  ASSUME NEW t \in Types, NEW a \in Messages(t), NEW b \in Messages(t),
         Readable(a), Readable(b)
  PROVE  Parsed(t, Serialize(a) \o Serialize(b)).msg = Merged(a, b)
<1> DEFINE x == Pieces(a)
           y == Pieces(b)
           P == x \o y
           msg == [j \in 0 .. Len(P) |->
                     IF j <= Len(x) THEN Overlay(t, Default(t), a, j)
                     ELSE Overlay(t, a, b, j - Len(x))]
           c == Serialize(a) \o Serialize(b)
<1>1. Trace(t, P, msg, Nat)
  BY MergeTrace
<1>2. x \in Seq(Bytes) /\ y \in Seq(Bytes)
  BY PiecesOf
<1>3. c = FlattenSeq(P)
  <2>1. FlattenSeq(x \o y) = FlattenSeq(x) \o FlattenSeq(y)
    BY <1>2, PiecesJoined
  <2> QED
    BY <2>1 DEF Serialize
<1>4. c \in Bytes
  BY SerializeType, BytesConcat
<1>5. Len(x) \in Nat /\ Len(y) \in Nat /\ Len(P) = Len(x) + Len(y)
  <2> HIDE DEF x, y
  <2> QED
    BY <1>2, ConcatProperties
<1>6. msg[Len(P)] = Merged(a, b)
  <2>1. Overlay(t, a, b, Len(y)) = Merged(a, b)
    BY OverlayEnds
  <2>2. Overlay(t, Default(t), a, Len(x)) = a
    BY OverlayAll
  <2>3. Overlay(t, a, b, 0) = a
    BY OverlayEnds
  <2> HIDE DEF x, y, P
  <2>4. Len(P) \in 0 .. Len(P) /\ Len(P) - Len(x) = Len(y)
    BY <1>5
  <2>5. CASE Len(P) <= Len(x)
    <3>1. Len(P) = Len(x) /\ Len(y) = 0
      BY <1>5, <2>5
    <3>2. msg[Len(P)] = Overlay(t, Default(t), a, Len(x))
      BY <2>4, <2>5, <3>1
    <3> HIDE DEF msg
    <3> QED
      BY <2>1, <2>2, <2>3, <3>1, <3>2
  <2>6. CASE ~(Len(P) <= Len(x))
    <3>1. msg[Len(P)] = Overlay(t, a, b, Len(P) - Len(x))
      BY <2>4, <2>6
    <3> HIDE DEF msg
    <3> QED
      BY <2>1, <2>4, <3>1
  <2> QED
    BY <2>5, <2>6
<1> HIDE DEF msg, c
<1>7. \A i \in 1 .. Len(P) : i \in Nat
  BY <1>5
<1> HIDE DEF P
<1>8. IsCut(c, FlattenSeq(P))
  BY <1>3, <1>4, CutOfWhole
<1>9. Parsed(t, c).ok /\ Parsed(t, c).msg = msg[Len(P)]
  BY <1>1, <1>3, <1>7, <1>8, ParsedTrace
<1> QED
  BY <1>6, <1>9 DEF c

(* Two messages read one after the other are the merge of the two.         *)
THEOREM ConcatenationsMerge == Spec => []MergeIsConcatenation
<1>1. TypeOK => MergeIsConcatenation
  <2> SUFFICES ASSUME TypeOK, NEW o \in Objects, NEW p \in Objects,
                      obj[o].type = obj[p].type,
                      Readable(obj[o]), Readable(obj[p])
               PROVE  Parsed(obj[o].type,
                             Serialize(obj[o]) \o Serialize(obj[p])).msg
                        = Merged(obj[o], obj[p])
    BY DEF MergeIsConcatenation
  <2>1. /\ obj[o].type \in Types /\ obj[o] \in Messages(obj[o].type)
        /\ obj[p] \in Messages(obj[o].type)
    BY DEF TypeOK
  <2> QED
    BY <2>1, MergeParsed
<1> QED
  BY <1>1, MessageTypes, PTL
=============================================================================
