----------------------------- MODULE Recursion -----------------------------
(***************************************************************************)
(* Induction over the natural numbers and the existence of functions that  *)
(* are defined by recursion, in a form without operator parameters: a      *)
(* property is a set, the step of a recursion a function.  The loops of    *)
(* the models are such functions, and so is the filtering of a list.       *)
(***************************************************************************)
EXTENDS Integers, Sequences, Lists, WellFoundedInduction, TLAPS

\* The order of the natural numbers as a set of pairs.
NatLess == {ss \in Nat \X Nat : ss[1] < ss[2]}

\* Step G of a recursion of length N over D; g is what it computes from b.
IsStep(G, N, D) == G \in [1 .. N -> [D -> D]]
Iterates(g, N, D, b, G) ==
    /\ g \in [0 .. N -> D]
    /\ g[0] = b
    /\ \A n \in 1 .. N : g[n] = G[n][g[n - 1]]

\* The same for a recursion without end.
IsNatStep(G, D) == G \in [Nat -> [D -> D]]
NatIterates(g, D, b, G) ==
    /\ g \in [Nat -> D]
    /\ g[0] = b
    /\ \A n \in Nat \ {0} : g[n] = G[n][g[n - 1]]

-----------------------------------------------------------------------------
\* A set that contains 0 and with every number the next one contains them all.
LEMMA NatSetInduction ==
  ASSUME NEW T, 0 \in T, \A n \in Nat : n \in T => n + 1 \in T
  PROVE  \A n \in Nat : n \in T
<1> SUFFICES ASSUME NEW z \in Nat, z \notin T PROVE FALSE
  OBVIOUS
<1> DEFINE S == Nat \ T
<1>1. IsWellFoundedOn(NatLess, Nat)
  BY NatLessThanWellFounded DEF OpToRel, NatLess
<1>2. \E x \in S : \A y \in S : ~(<<y, x>> \in NatLess)
  <2>1. S \subseteq Nat /\ S # {}
    OBVIOUS
  <2> HIDE DEF S
  <2> QED
    BY <1>1, <2>1, WFMin
<1>3. PICK x \in S : \A y \in S : ~(y < x)
  BY <1>2 DEF NatLess
<1>4. x # 0 /\ x - 1 \in Nat
  OBVIOUS
<1>5. x - 1 \in T
  BY <1>3, <1>4
<1> QED
  BY <1>4, <1>5

\* A set of natural numbers that is not empty has a least element.
LEMMA NatMinimum ==
  ASSUME NEW I \in SUBSET Nat, I # {}
  PROVE  \E x \in I : \A y \in I : x <= y
<1>1. IsWellFoundedOn(NatLess, Nat)
  BY NatLessThanWellFounded DEF OpToRel, NatLess
<1>2. \E x \in I : \A y \in I : ~(<<y, x>> \in NatLess)
  BY <1>1, WFMin
<1>3. PICK x \in I : \A y \in I : ~(y < x)
  BY <1>2 DEF NatLess
<1>4. \A y \in I : x <= y
  BY <1>3
<1> QED
  BY <1>4

\* What holds at 0 and is handed on from each number up to N holds up to N.
LEMMA IntervalInduction ==
  ASSUME NEW N \in Nat, NEW D, NEW f, f[0] \in D,
         \A n \in 1 .. N : f[n - 1] \in D => f[n] \in D
  PROVE  \A n \in 0 .. N : f[n] \in D
<1> DEFINE T == {n \in Nat : n <= N => f[n] \in D}
<1>1. 0 \in T
  OBVIOUS
<1>2. \A n \in Nat : n \in T => n + 1 \in T
  <2> TAKE n \in Nat
  <2>1. n + 1 - 1 = n
    OBVIOUS
  <2> QED
    BY <2>1
<1>3. \A n \in Nat : n \in T
  <2> HIDE DEF T
  <2> QED
    BY <1>1, <1>2, NatSetInduction
<1> QED
  BY <1>3

\* A recursion of length N defines a function.
LEMMA RecursionExists ==
  ASSUME NEW N \in Nat, NEW D, NEW b \in D, NEW G, IsStep(G, N, D)
  PROVE  \E g : Iterates(g, N, D, b, G)
<1> USE DEF IsStep, Iterates
<1> DEFINE P(k) == \E g \in [0 .. k -> D] :
                      g[0] = b /\ \A n \in 1 .. k : g[n] = G[n][g[n - 1]]
           T == {k \in Nat : k <= N => P(k)}
<1>1. 0 \in T
  <2> DEFINE g == [n \in 0 .. 0 |-> b]
  <2>1. g \in [0 .. 0 -> D] /\ g[0] = b /\ \A n \in 1 .. 0 : g[n] = G[n][g[n - 1]]
    OBVIOUS
  <2> QED
    BY <2>1
<1>2. ASSUME NEW k \in Nat, k \in T PROVE k + 1 \in T
  <2> SUFFICES ASSUME k + 1 <= N PROVE P(k + 1)
    OBVIOUS
  <2>1. PICK g \in [0 .. k -> D] :
                g[0] = b /\ \A n \in 1 .. k : g[n] = G[n][g[n - 1]]
    BY <1>2
  <2> DEFINE h == [n \in 0 .. k + 1 |-> IF n = k + 1 THEN G[k + 1][g[k]] ELSE g[n]]
  <2>2. h \in [0 .. k + 1 -> D]
    BY <2>1
  <2>3. h[0] = b
    BY <2>1
  <2>4. ASSUME NEW n \in 1 .. k + 1 PROVE h[n] = G[n][h[n - 1]]
    BY <2>1
  <2> HIDE DEF h
  <2> QED
    BY <2>2, <2>3, <2>4
<1>3. N \in T
  <2> HIDE DEF T
  <2> QED
    BY <1>1, <1>2, NatSetInduction
<1> QED
  BY <1>3

\* Two functions that recursions with the same step compute agree as far as
\* both go.
LEMMA RecursionUnique ==
  ASSUME NEW N \in Nat, NEW M \in Nat, N <= M, NEW D, NEW b, NEW G, NEW g, NEW h,
         Iterates(g, N, D, b, G), Iterates(h, M, D, b, G)
  PROVE  \A n \in 0 .. N : g[n] = h[n]
<1> USE DEF Iterates
<1> DEFINE T == {n \in Nat : n <= N => g[n] = h[n]}
<1>1. 0 \in T
  OBVIOUS
<1>2. \A n \in Nat : n \in T => n + 1 \in T
  <2> SUFFICES ASSUME NEW n \in Nat, n \in T, n + 1 <= N PROVE g[n + 1] = h[n + 1]
    OBVIOUS
  <2>1. n + 1 - 1 = n /\ g[n] = h[n] /\ n + 1 \in 1 .. N /\ n + 1 \in 1 .. M
    OBVIOUS
  <2> QED
    BY <2>1
<1>3. \A n \in Nat : n \in T
  <2> HIDE DEF T
  <2> QED
    BY <1>1, <1>2, NatSetInduction
<1> QED
  BY <1>3

\* A recursion without end defines a function too.
LEMMA NatRecursionExists ==
  ASSUME NEW D, NEW b \in D, NEW G, IsNatStep(G, D)
  PROVE  \E g : NatIterates(g, D, b, G)
<1> DEFINE c(n) == CHOOSE g : Iterates(g, n, D, b, G)
           f == [n \in Nat |-> c(n)[n]]
<1>1. ASSUME NEW n \in Nat PROVE Iterates(c(n), n, D, b, G)
  <2> DEFINE H == [k \in 1 .. n |-> G[k]]
  <2>1. IsStep(H, n, D)
    BY DEF IsNatStep, IsStep
  <2>2. \E g : Iterates(g, n, D, b, H)
    <3> HIDE DEF H
    <3> QED
      BY <2>1, RecursionExists
  <2>3. PICK g : Iterates(g, n, D, b, H)
    BY <2>2
  <2>4. Iterates(g, n, D, b, G)
    BY <2>3 DEF Iterates
  <2> QED
    BY <2>4, Zenon
<1> HIDE DEF c
<1>2. f \in [Nat -> D]
  BY <1>1 DEF Iterates
<1>3. f[0] = b
  BY <1>1 DEF Iterates
<1>4. ASSUME NEW n \in Nat \ {0} PROVE f[n] = G[n][f[n - 1]]
  <2> DEFINE m == n - 1
             g == c(m)
             h == c(n)
  <2>1. m \in Nat /\ n \in Nat /\ m <= n /\ m \in 0 .. m /\ n \in 1 .. n
    OBVIOUS
  <2>2. Iterates(g, m, D, b, G) /\ Iterates(h, n, D, b, G)
    BY <1>1, <2>1
  <2>3. g[m] = f[m] /\ h[n] = f[n]
    BY <2>1
  <2>4. h[n] = G[n][h[m]]
    BY <2>1, <2>2 DEF Iterates
  <2> HIDE DEF g, h, m
  <2>5. \A k \in 0 .. m : g[k] = h[k]
    BY <2>1, <2>2, RecursionUnique
  <2> QED
    BY <2>1, <2>3, <2>4, <2>5 DEF m
<1> HIDE DEF f
<1>5. NatIterates(f, D, b, G)
  BY <1>2, <1>3, <1>4 DEF NatIterates
<1> QED
  BY <1>5
-----------------------------------------------------------------------------
\* K has the elements of the list that are in S and no others, each from a
\* place of its own.
Filters(K, list, S) ==
    /\ \A i \in DOMAIN K : K[i] \in S
    /\ \A i \in DOMAIN K : \E a \in DOMAIN list : K[i] = list[a]
    /\ \A a \in DOMAIN list : list[a] \in S => \E i \in DOMAIN K : K[i] = list[a]
    /\ \A i, j \in DOMAIN K : i # j =>
          \E a, b \in DOMAIN list : a # b /\ K[i] = list[a] /\ K[j] = list[b]

\* What Keep returns.
LEMMA KeepElements ==
  ASSUME NEW E, NEW list \in Seq(E), NEW S
  PROVE  Keep(list, S) \in Seq(E) /\ Filters(Keep(list, S), list, S)
<1> DEFINE N == Len(list)
           D == Seq(E)
           Step(n, y) == IF list[n] \in S THEN Append(y, list[n]) ELSE y
           kept[n \in 0 .. N] ==
              IF n = 0 THEN <<>>
              ELSE IF list[n] \in S THEN Append(kept[n - 1], list[n])
              ELSE kept[n - 1]
           G == [n \in 1 .. N |-> [y \in D |-> Step(n, y)]]
<1>1. N \in Nat /\ DOMAIN list = 1 .. N /\ <<>> \in D
  OBVIOUS
<1>2. \A n \in 1 .. N, y \in D : Step(n, y) \in D
  BY <1>1
<1>3. Keep(list, S) = kept[N]
  BY DEF Keep
<1>4. IsStep(G, N, D)
  <2> HIDE DEF D, Step, N
  <2> QED
    BY <1>2 DEF IsStep
<1>5. PICK g : Iterates(g, N, D, <<>>, G)
  <2> HIDE DEF D, G, N
  <2> QED
    BY <1>1, <1>4, RecursionExists, Zenon
<1>6. g \in [0 .. N -> D] /\ g[0] = <<>>
  BY <1>5, Zenon DEF Iterates
<1>7. ASSUME NEW n \in 1 .. N PROVE g[n] = Step(n, g[n - 1])
  <2> HIDE DEF D, Step, N
  <2>1. g[n] = G[n][g[n - 1]] /\ g[n - 1] \in D
    BY <1>1, <1>5, <1>6 DEF Iterates
  <2> QED
    BY <2>1
<1>8. \E f : f = [n \in 0 .. N |-> IF n = 0 THEN <<>>
                              ELSE IF list[n] \in S THEN Append(f[n - 1], list[n])
                              ELSE f[n - 1]]
  <2>1. ASSUME NEW n \in 0 .. N
        PROVE g[n] = IF n = 0 THEN <<>>
                     ELSE IF list[n] \in S THEN Append(g[n - 1], list[n])
                     ELSE g[n - 1]
    <3>1. CASE n = 0
      BY <1>6, <3>1
    <3>2. CASE n # 0
      <4>1. n \in 1 .. N
        BY <1>1, <3>2
      <4> QED
        BY <1>7, <3>2, <4>1
    <3> QED
      BY <3>1, <3>2
  <2> HIDE DEF N, D
  <2>2. g = [n \in 0 .. N |-> IF n = 0 THEN <<>>
                              ELSE IF list[n] \in S THEN Append(g[n - 1], list[n])
                              ELSE g[n - 1]]
    BY <1>6, <2>1
  <2> QED
    BY <2>2, Zenon
<1>9. kept = [n \in 0 .. N |-> IF n = 0 THEN <<>>
                               ELSE IF list[n] \in S THEN Append(kept[n - 1], list[n])
                               ELSE kept[n - 1]]
  BY <1>8, Zenon DEF kept
<1> HIDE DEF kept, G
<1>10. kept[0] = <<>> /\ \A n \in 1 .. N : kept[n] = Step(n, kept[n - 1])
  <2> HIDE DEF N
  <2>1. \A n \in 0 .. N : kept[n] = IF n = 0 THEN <<>>
                               ELSE IF list[n] \in S THEN Append(kept[n - 1], list[n])
                               ELSE kept[n - 1]
    BY <1>9, Zenon
  <2> QED
    BY <1>1, <2>1
<1>11. \A n \in 0 .. N : kept[n] \in D
  <2>1. \A n \in 1 .. N : kept[n - 1] \in D => kept[n] \in D
    BY <1>2, <1>10, Zenon
  <2>2. kept[0] \in D
    BY <1>1, <1>10
  <2> HIDE DEF D, N
  <2> QED
    BY <1>1, <2>1, <2>2, IntervalInduction, Zenon
<1> HIDE DEF D
<1> DEFINE P(n, K) ==
      /\ \A i \in DOMAIN K : K[i] \in S
      /\ \A i \in DOMAIN K : \E a \in 1 .. n : K[i] = list[a]
      /\ \A a \in 1 .. n : list[a] \in S => \E i \in DOMAIN K : K[i] = list[a]
      /\ \A i, j \in DOMAIN K : i # j =>
            \E a, b \in 1 .. n : a # b /\ K[i] = list[a] /\ K[j] = list[b]
           T == {n \in Nat : n <= N => P(n, kept[n])}
<1>12. 0 \in T
  <2>1. P(0, <<>>)
    OBVIOUS
  <2> QED
    BY <1>10, <2>1
<1> HIDE DEF P
<1>13. \A n \in Nat : n \in T => n + 1 \in T
  <2> SUFFICES ASSUME NEW n \in Nat, n \in T, n + 1 <= N PROVE P(n + 1, kept[n + 1])
    OBVIOUS
  <2> DEFINE m == n + 1
             y == kept[n]
             K == kept[m]
  <2>1. m \in 1 .. N /\ m - 1 = n /\ n \in 0 .. N /\ P(n, y)
    BY <1>1
  <2>2. y \in Seq(E) /\ K = Step(m, y) /\ list[m] \in E
    BY <1>10, <1>11, <2>1 DEF D
  <2>3. CASE list[m] \notin S
    <3>1. K = y
      BY <2>2, <2>3
    <3> HIDE DEF K, y
    <3>2. /\ \A a \in 1 .. m : a = m \/ a \in 1 .. n
          /\ 1 .. n \subseteq 1 .. m
      OBVIOUS
    <3> HIDE DEF m
    <3>3. P(m, y)
      <4>1. \A i \in DOMAIN y : y[i] \in S /\ \E a \in 1 .. m : y[i] = list[a]
        BY <2>1, <3>2 DEF P
      <4>2. \A a \in 1 .. m : list[a] \in S => \E i \in DOMAIN y : y[i] = list[a]
        BY <2>1, <2>3, <3>2 DEF P
      <4>3. \A i, j \in DOMAIN y : i # j =>
               \E a, b \in 1 .. m : a # b /\ y[i] = list[a] /\ y[j] = list[b]
        <5> SUFFICES ASSUME NEW i \in DOMAIN y, NEW j \in DOMAIN y, i # j
                     PROVE  \E a, b \in 1 .. m : a # b /\ y[i] = list[a] /\ y[j] = list[b]
          OBVIOUS
        <5>1. PICK a \in 1 .. n, b \in 1 .. n : a # b /\ y[i] = list[a] /\ y[j] = list[b]
          BY <2>1 DEF P
        <5> QED
          BY <3>2, <5>1
      <4> QED
        BY <4>1, <4>2, <4>3, Zenon DEF P
    <3> QED
      BY <3>1, <3>3 DEF m, K
  <2>4. CASE list[m] \in S
    <3>1. K = Append(y, list[m])
      BY <2>2, <2>4
    <3> HIDE DEF K, y
    <3> DEFINE l == Len(y)
    <3>2. /\ l \in Nat /\ DOMAIN y = 1 .. l /\ DOMAIN K = 1 .. l + 1
          /\ K[l + 1] = list[m] /\ \A i \in 1 .. l : K[i] = y[i]
      BY <2>2, <3>1
    <3> HIDE DEF l
    <3>3. \A i \in DOMAIN K : i = l + 1 \/ i \in DOMAIN y
      BY <3>2
    <3>4. \A a \in 1 .. m : a = m \/ a \in 1 .. n
      OBVIOUS
    <3>5. 1 .. n \subseteq 1 .. m /\ m \in 1 .. m /\ m \notin 1 .. n
      OBVIOUS
    <3> HIDE DEF m
    <3>6. \A i \in DOMAIN K : K[i] \in S
      BY <2>1, <2>4, <3>2, <3>3 DEF P
    <3>7. \A i \in DOMAIN K : \E a \in 1 .. m : K[i] = list[a]
      BY <2>1, <3>2, <3>3, <3>5 DEF P
    <3>8. \A a \in 1 .. m : list[a] \in S => \E i \in DOMAIN K : K[i] = list[a]
      <4> SUFFICES ASSUME NEW a \in 1 .. m, list[a] \in S
                   PROVE  \E i \in DOMAIN K : K[i] = list[a]
        OBVIOUS
      <4>1. CASE a = m
        BY <3>2, <4>1
      <4>2. CASE a \in 1 .. n
        <5>1. PICK i \in DOMAIN y : y[i] = list[a]
          BY <2>1, <4>2 DEF P
        <5> QED
          BY <3>2, <5>1
      <4> QED
        BY <3>4, <4>1, <4>2
    <3>9. ASSUME NEW i \in DOMAIN K, NEW j \in DOMAIN K, i # j
          PROVE  \E a, b \in 1 .. m : a # b /\ K[i] = list[a] /\ K[j] = list[b]
      <4>1. CASE i \in DOMAIN y /\ j \in DOMAIN y
        <5>1. PICK a \in 1 .. n, b \in 1 .. n : a # b /\ y[i] = list[a] /\ y[j] = list[b]
          BY <2>1, <3>9, <4>1 DEF P
        <5> QED
          BY <3>2, <3>5, <4>1, <5>1
      <4>2. CASE i = l + 1 /\ j \in DOMAIN y
        <5>1. PICK b \in 1 .. n : y[j] = list[b]
          BY <2>1, <4>2 DEF P
        <5> QED
          BY <3>2, <3>5, <4>2, <5>1
      <4>3. CASE j = l + 1 /\ i \in DOMAIN y
        <5>1. PICK b \in 1 .. n : y[i] = list[b]
          BY <2>1, <4>3 DEF P
        <5> QED
          BY <3>2, <3>5, <4>3, <5>1
      <4> QED
        BY <3>3, <3>9, <4>1, <4>2, <4>3
    <3>10. P(m, K)
      BY <3>6, <3>7, <3>8, <3>9, Zenon DEF P
    <3> QED
      BY <3>10 DEF m, K
  <2> QED
    BY <2>3, <2>4
<1>14. N \in T
  <2> HIDE DEF T, N
  <2> QED
    BY <1>1, <1>12, <1>13, NatSetInduction
<1>15. P(N, kept[N]) /\ kept[N] \in Seq(E)
  BY <1>1, <1>11, <1>14, 0 .. N = 0 .. N DEF D
<1> HIDE DEF N
<1> DEFINE M == Keep(list, S)
           R == 1 .. N
<1>16. M \in Seq(E) /\ DOMAIN list = R /\ P(N, M)
  BY <1>1, <1>3, <1>15
<1>17. /\ \A i \in DOMAIN M : M[i] \in S
       /\ \A i \in DOMAIN M : \E a \in R : M[i] = list[a]
       /\ \A a \in R : list[a] \in S => \E i \in DOMAIN M : M[i] = list[a]
       /\ \A i, j \in DOMAIN M : i # j =>
             \E a, b \in R : a # b /\ M[i] = list[a] /\ M[j] = list[b]
  BY <1>16, Zenon DEF P
<1> HIDE DEF R, N
<1> QED
  BY <1>16, <1>17, Zenon DEF Filters
=============================================================================
