------------------------------ MODULE MemoriaProofs ------------------------------
(***************************************************************************)
(* Theorems about Memoria: the memory is shared out between segments and   *)
(* holes, address by address, while the sorting by list_sort and the       *)
(* accesses of the CPU have left the heap sane; a compaction that follows  *)
(* a request always makes the room that request needs; no process finds in *)
(* its segments what it did not write there; and with FIRST the module     *)
(* does what Segmentacion promises.                                        *)
(*                                                                         *)
(* The argument has four parts.  Facts about lists: what a list of holes   *)
(* covers, and what a sum over it is, when elements are put in, taken out, *)
(* changed or sorted.  Facts about each operation of memoria.c over those  *)
(* lists: asignar, liberar with its two kinds of joining, compactar.  The  *)
(* inductive invariant MemoriaInv, with one lemma per action.  And the     *)
(* mapping of each action to one of Segmentacion's.                        *)
(***************************************************************************)
EXTENDS Memoria, FiniteSetTheorems, SequenceTheorems, WellFoundedInduction, TLAPS

-----------------------------------------------------------------------------
(* Numbers and finite sets.                                                    *)

\* What is not empty has a least element: induction, for a set.
LEMMA Primero ==
    ASSUME NEW S \in SUBSET Nat, S # {}
    PROVE  \E m \in S : \A k \in S : m <= k
<1> DEFINE R == OpToRel(<, Nat)
<1>1. IsWellFoundedOn(R, Nat)
  BY NatLessThanWellFounded
<1>2. \A x, y \in Nat : <<y, x>> \in R <=> y < x
  BY DEF OpToRel
<1> HIDE DEF R
<1>3. PICK m \in S : \A k \in S : ~(<<k, m>> \in R)
  BY <1>1, WFMin
<1>4. \A k \in S : ~(k < m)
  <2>1. \A k \in S : k \in Nat /\ m \in Nat
    OBVIOUS
  <2> QED BY <1>2, <1>3, <2>1
<1>5. \A k \in S : k \in Int /\ m \in Int
  OBVIOUS
<1> QED BY <1>4, <1>5

\* Min is the least element.
LEMMA MenorDe ==
    ASSUME NEW S \in SUBSET Nat, S # {}
    PROVE  Min(S) \in S /\ \A k \in S : Min(S) <= k
BY Primero DEF Min

\* Places in a list of N.
LEMMA MayorDe ==
    ASSUME NEW N \in Nat, NEW s \in SUBSET (1 .. N), s # {}
    PROVE  Max(s) \in s /\ \A k \in s : Max(s) >= k
<1> DEFINE T == {N - k : k \in s}
<1>1. T \in SUBSET Nat /\ T # {}
  <2>1. \A k \in s : k \in 1 .. N
    OBVIOUS
  <2>2. \A k \in 1 .. N : N - k \in Nat
    OBVIOUS
  <2> QED BY <2>1, <2>2
<1> HIDE DEF T
<1>2. PICK m \in T : \A k \in T : m <= k
  BY <1>1, Primero
<1>3. PICK x \in s : m = N - x
  BY DEF T
<1>4. \A k \in s : N - k \in T
  BY DEF T
<1>5. \A k \in s : x >= k
  BY <1>2, <1>3, <1>4
<1> QED BY <1>5 DEF Max

\* Max of the first N numbers is N.
LEMMA MayorPrimeros ==
    ASSUME NEW N \in Nat \ {0}
    PROVE  Max(1 .. N) = N /\ (1 .. N) \ {Max(1 .. N)} = 1 .. N - 1
<1>1. Max(1 .. N) \in 1 .. N /\ Max(1 .. N) >= N
  <2>1. 1 .. N \in SUBSET (1 .. N) /\ N \in 1 .. N
    OBVIOUS
  <2> HIDE <2>1
  <2> QED BY <2>1, MayorDe
<1>2. Max(1 .. N) = N
  BY <1>1
<1> QED BY <1>2

\* There are N numbers from 1 to N.
LEMMA Finitos ==
    ASSUME NEW N \in Nat
    PROVE  IsFiniteSet(1 .. N) /\ Cardinality(1 .. N) = N
BY FS_Interval

\* Two functions on the subsets of a finite set agree when they agree on the
\* empty one, and on each one if they do on what some element leaves.
Concuerdan(S, g, h) ==
    /\ g[{}] = h[{}]
    /\ \A s \in SUBSET S : s # {} =>
          \E x \in s : g[s \ {x}] = h[s \ {x}] => g[s] = h[s]

\* Two folds over sets that obey the same equations are the same.
LEMMA Iguales ==
    ASSUME NEW S, IsFiniteSet(S), NEW g, NEW h, Concuerdan(S, g, h)
    PROVE  \A s \in SUBSET S : g[s] = h[s]
<1> DEFINE Malos == {s \in SUBSET S : g[s] # h[s]}
           T == {Cardinality(s) : s \in Malos}
<1> SUFFICES ASSUME Malos # {} PROVE FALSE
  OBVIOUS
<1>1. \A s \in SUBSET S : IsFiniteSet(s) /\ Cardinality(s) \in Nat
  BY FS_Subset, FS_CardinalityType
<1>2. T \in SUBSET Nat /\ T # {}
  BY <1>1
<1>3. PICK m \in T : \A k \in T : m <= k
  <2> HIDE DEF T
  <2> QED BY <1>2, Primero
<1>4. PICK s \in Malos : m = Cardinality(s)
  OBVIOUS
<1>5. s \in SUBSET S /\ g[s] # h[s] /\ s # {}
  BY <1>4 DEF Concuerdan
<1>6. PICK x \in s : g[s \ {x}] = h[s \ {x}] => g[s] = h[s]
  BY <1>5 DEF Concuerdan
<1>7. s \ {x} \in Malos
  BY <1>5, <1>6
<1>8. Cardinality(s \ {x}) = Cardinality(s) - 1
  BY <1>1, <1>5, <1>6, FS_RemoveElement
<1>9. m <= Cardinality(s \ {x})
  BY <1>3, <1>7
<1> QED BY <1>1, <1>4, <1>5, <1>8, <1>9

-----------------------------------------------------------------------------
(* Folds.  FoldLeft chooses a function on the sets of places of the list: that *)
(* there is one is shown here once, for steps given by a function F on V.      *)

EsPliegue(h, N, V, b, F) ==
    /\ h \in [SUBSET (1 .. N) -> V]
    /\ h[{}] = b
    /\ \A s \in SUBSET (1 .. N) : s # {} => h[s] = F[Max(s)][h[s \ {Max(s)}]]

\* There is a function that obeys the equations of the fold.
LEMMA HayPliegue ==
    ASSUME NEW V, NEW b \in V, NEW N \in Nat, NEW F \in [1 .. N -> [V -> V]]
    PROVE  \E h : EsPliegue(h, N, V, b, F)
<1> DEFINE Malos == {n \in 0 .. N : ~\E h : EsPliegue(h, n, V, b, F)}
<1>1. SUFFICES ASSUME Malos # {} PROVE FALSE
  OBVIOUS
<1>2. PICK n \in Malos : \A k \in Malos : n <= k
  <2>1. Malos \in SUBSET Nat
    OBVIOUS
  <2> HIDE DEF Malos
  <2> QED BY <1>1, <2>1, Primero
<1>3. n # 0
  <2> DEFINE h0 == [s \in SUBSET (1 .. 0) |-> b]
  <2>1. 1 .. 0 = {} /\ SUBSET {} = {{}}
    OBVIOUS
  <2>2. EsPliegue(h0, 0, V, b, F)
    BY <2>1 DEF EsPliegue
  <2> QED BY <2>2
<1>4. n \in Nat /\ n \in 1 .. N /\ n - 1 \in 0 .. N /\ n - 1 \notin Malos
  BY <1>2, <1>3
<1>5. PICK h : EsPliegue(h, n - 1, V, b, F)
  BY <1>4
<1> DEFINE D == SUBSET (1 .. n)
           h1 == [s \in D |-> IF n \in s THEN F[n][h[s \ {n}]] ELSE h[s]]
<1>6. \A s \in D : s \ {n} \in SUBSET (1 .. n - 1) /\ (n \notin s => s \in SUBSET (1 .. n - 1))
  BY <1>4
<1>7. h \in [SUBSET (1 .. n - 1) -> V] /\ h[{}] = b
  BY <1>5 DEF EsPliegue
<1>8. h1 \in [D -> V]
  <2>1. ASSUME NEW s \in D PROVE (IF n \in s THEN F[n][h[s \ {n}]] ELSE h[s]) \in V
    <3>1. h[s \ {n}] \in V /\ (n \notin s => h[s] \in V)
      BY <1>6, <1>7
    <3>2. F[n] \in [V -> V]
      BY <1>4, <3>1
    <3> QED BY <3>1, <3>2
  <2> QED BY <2>1
<1>9. h1[{}] = b
  BY <1>7
<1>10. ASSUME NEW s \in D, s # {}
       PROVE  h1[s] = F[Max(s)][h1[s \ {Max(s)}]]
  <2>1. Max(s) \in s /\ \A k \in s : Max(s) >= k
    BY <1>4, <1>10, MayorDe
  <2>2. CASE n \in s
    <3>1. Max(s) = n
      <4>1. Max(s) \in 1 .. n
        BY <2>1
      <4> QED BY <1>4, <2>1, <2>2, <4>1
    <3>2. h1[s \ {n}] = h[s \ {n}]
      OBVIOUS
    <3> QED BY <2>2, <3>1, <3>2
  <2>3. CASE n \notin s
    <3>1. s \in SUBSET (1 .. n - 1)
      BY <1>6, <2>3
    <3>2. h[s] = F[Max(s)][h[s \ {Max(s)}]]
      BY <1>5, <1>10, <3>1 DEF EsPliegue
    <3>3. h1[s] = h[s] /\ h1[s \ {Max(s)}] = h[s \ {Max(s)}]
      BY <2>3
    <3> QED BY <3>2, <3>3
  <2> QED BY <2>2, <2>3
<1>11. EsPliegue(h1, n, V, b, F)
  BY <1>8, <1>9, <1>10 DEF EsPliegue
<1> QED BY <1>2, <1>11

\* ... and its values on the first k places are those of a loop.  (Names for
\* what is said of 1 .. N keep the interval out of the provers' way.)
ConcuerdanHasta(N, g, h) == Concuerdan(1 .. N, g, h)
Recorre(it, N, V, b, F, g) ==
    /\ it \in [0 .. N -> V]
    /\ it[0] = b
    /\ \A k \in 1 .. N : it[k] = F[k][it[k - 1]]
    /\ it[N] = g[1 .. N]

\* The fold over 1 .. N goes through N steps, one for each element.
LEMMA PasosPliegue ==
    ASSUME NEW V, NEW b \in V, NEW N \in Nat, NEW F \in [1 .. N -> [V -> V]],
           NEW h, EsPliegue(h, N, V, b, F), NEW g, ConcuerdanHasta(N, g, h)
    PROVE  \E it : Recorre(it, N, V, b, F, g)
<1> DEFINE it == [k \in 0 .. N |-> h[1 .. k]]
<1>1. h \in [SUBSET (1 .. N) -> V] /\ h[{}] = b
  BY DEF EsPliegue
<1>2. \A k \in 0 .. N : 1 .. k \in SUBSET (1 .. N)
  <2>1. ASSUME NEW k \in 0 .. N PROVE 1 .. k \subseteq 1 .. N
    <3>1. k \in Int /\ N \in Int /\ k <= N
      OBVIOUS
    <3> QED BY <3>1
  <2> QED BY <2>1
<1>3. it \in [0 .. N -> V]
  BY <1>1, <1>2
<1>4. it[0] = b
  <2>1. 1 .. 0 = {} /\ 0 \in 0 .. N
    OBVIOUS
  <2> QED BY <1>1, <2>1
<1>5. ASSUME NEW k \in 1 .. N PROVE it[k] = F[k][it[k - 1]]
  <2>1. k \in Int /\ N \in Int /\ k >= 1 /\ k <= N /\ 1 \in 1 .. k
    OBVIOUS
  <2>2. k \in Nat \ {0} /\ k \in 0 .. N /\ k - 1 \in 0 .. N
    BY <2>1
  <2>3. 1 .. k \in SUBSET (1 .. N) /\ 1 .. k # {}
    BY <1>2, <2>1, <2>2
  <2>4. Max(1 .. k) = k /\ (1 .. k) \ {Max(1 .. k)} = 1 .. k - 1
    BY <2>2, MayorPrimeros
  <2>5. h[1 .. k] = F[k][h[1 .. k - 1]]
    BY <2>3, <2>4 DEF EsPliegue
  <2> QED BY <2>2, <2>5
<1>6. it[N] = g[1 .. N]
  <2>1. PICK S : S = 1 .. N
    OBVIOUS
  <2>2. IsFiniteSet(S) /\ Concuerdan(S, g, h)
    BY <2>1, Finitos DEF ConcuerdanHasta
  <2>3. \A s \in SUBSET S : g[s] = h[s]
    BY <2>2, Iguales
  <2> QED BY <2>1, <2>3
<1>7. Recorre(it, N, V, b, F, g)
  BY <1>3, <1>4, <1>5, <1>6 DEF Recorre
<1> QED BY <1>7

-----------------------------------------------------------------------------
(* Lists of holes, or of segments: the addresses they cover, and their sum.    *)

Cubre(l) == UNION {Hasta(l[i]) : i \in DOMAIN l}
Separados(l) == \A i, k \in DOMAIN l : i # k => Hasta(l[i]) \cap Hasta(l[k]) = {}
Piezas(l) == \A i \in DOMAIN l : l[i].base \in Nat /\ l[i].tam \in Nat

\* What a hole or a segment covers has as many addresses as its size.
LEMMA CuantoCubre ==
    ASSUME NEW x, x.base \in Nat, x.tam \in Nat
    PROVE  IsFiniteSet(Hasta(x)) /\ Cardinality(Hasta(x)) = x.tam
<1>1. PICK a \in Nat, t \in Nat : a = x.base /\ t = x.tam
  OBVIOUS
<1>2. IsFiniteSet(a .. a + t - 1) /\ Cardinality(a .. a + t - 1) = t
  <2>1. PICK z \in Int : z = a + t - 1
    OBVIOUS
  <2>2. a \in Int
    OBVIOUS
  <2>3. IsFiniteSet(a .. z) /\ Cardinality(a .. z) = IF a > z THEN 0 ELSE z - a + 1
    BY ONLY <2>2, z \in Int, FS_Interval
  <2>4. t = IF a > z THEN 0 ELSE z - a + 1
    BY ONLY a \in Nat, t \in Nat, z = a + t - 1, <2>1
  <2> QED BY <2>1, <2>3, <2>4
<1> QED BY <1>1, <1>2 DEF Hasta

\* The sum of the sizes counts the addresses, when no two pieces share one.
LEMMA SumaCuenta ==
    ASSUME NEW N \in Nat, NEW l, DOMAIN l = 1 .. N, Piezas(l), Separados(l),
           NEW M \in Nat, Cubre(l) \subseteq 0 .. M
    PROVE  SumaDe(l) = Cardinality(Cubre(l)) /\ IsFiniteSet(Cubre(l)) /\ SumaDe(l) \in Nat
<1> DEFINE P == SUBSET (1 .. N)
           Los(s) == UNION {Hasta(l[i]) : i \in s}
           h == [s \in P |-> Cardinality(Los(s))]
           g == CHOOSE g : g = [s \in P |-> IF s = {} THEN 0
                                            ELSE g[s \ {Max(s)}] + l[Max(s)].tam]
<1>1. SumaDe(l) = g[1 .. N]
  BY DEF SumaDe, FoldLeft, MapThenFoldSet
<1>2. \A s \in P : IsFiniteSet(Los(s)) /\ Cardinality(Los(s)) \in Nat
  <2>1. \A s \in P : Los(s) \in SUBSET (0 .. M)
    BY DEF Cubre
  <2>2. IsFiniteSet(0 .. M)
    BY FS_Interval
  <2> HIDE DEF Los
  <2>3. \A s \in P : IsFiniteSet(Los(s))
    BY <2>1, <2>2, FS_Subset
  <2> QED BY <2>3, FS_CardinalityType
<1>3. ASSUME NEW s \in P, NEW m \in s
      PROVE  h[s] = h[s \ {m}] + l[m].tam
  <2>1. Los(s) = Los(s \ {m}) \union Hasta(l[m])
    OBVIOUS
  <2>2. Los(s \ {m}) \cap Hasta(l[m]) = {}
    BY DEF Separados
  <2>3. s \ {m} \in P /\ m \in 1 .. N
    OBVIOUS
  <2>4. IsFiniteSet(Hasta(l[m])) /\ Cardinality(Hasta(l[m])) = l[m].tam /\ l[m].tam \in Nat
    BY <2>3, CuantoCubre DEF Piezas
  <2> HIDE DEF Los
  <2>5. Cardinality(Los(s)) = Cardinality(Los(s \ {m})) + l[m].tam - 0
    <3>1. Cardinality(Los(s \ {m}) \cap Hasta(l[m])) = 0
      BY <2>2, FS_EmptySet
    <3>2. IsFiniteSet(Los(s \ {m}))
      BY <1>2, <2>3
    <3> QED BY <2>1, <2>4, <3>1, <3>2, FS_Union
  <2>6. Cardinality(Los(s \ {m})) \in Nat
    BY <1>2, <2>3
  <2> QED BY <2>3, <2>4, <2>5, <2>6
<1>4. h[{}] = 0
  BY FS_EmptySet
<1>5. \A s \in P : s # {} => Max(s) \in s
  BY MayorDe
<1>6. h = [s \in P |-> IF s = {} THEN 0 ELSE h[s \ {Max(s)}] + l[Max(s)].tam]
  <2> HIDE DEF Los
  <2>1. \A s \in P : h[s] = IF s = {} THEN 0 ELSE h[s \ {Max(s)}] + l[Max(s)].tam
    BY <1>3, <1>4, <1>5
  <2> DEFINE c(s) == Cardinality(Los(s))
  <2>2. h = [s \in P |-> h[s]]
    OBVIOUS
  <2> HIDE DEF h
  <2> QED BY <2>1, <2>2
<1>7. g = [s \in P |-> IF s = {} THEN 0 ELSE g[s \ {Max(s)}] + l[Max(s)].tam]
  <2> HIDE DEF h
  <2> QED BY <1>6
<1> HIDE DEF g
<1>8. g[1 .. N] = h[1 .. N]
  <2>1. g[{}] = h[{}]
    BY <1>4, <1>7
  <2>2. \A s \in SUBSET (1 .. N) : s # {} =>
           \E x \in s : g[s \ {x}] = h[s \ {x}] => g[s] = h[s]
    <3> SUFFICES ASSUME NEW s \in SUBSET (1 .. N), s # {}
                 PROVE  \E x \in s : g[s \ {x}] = h[s \ {x}] => g[s] = h[s]
      OBVIOUS
    <3>1. Max(s) \in s
      BY <1>5
    <3>2. h[s] = h[s \ {Max(s)}] + l[Max(s)].tam
      BY <1>3, <3>1
    <3>3. g[s] = g[s \ {Max(s)}] + l[Max(s)].tam
      BY <1>7
    <3> QED BY <3>1, <3>2, <3>3
  <2> HIDE DEF h
  <2>3. IsFiniteSet(1 .. N)
    BY Finitos
  <2>4. \A s \in SUBSET (1 .. N) : g[s] = h[s]
    <3>1. PICK S : S = 1 .. N
      OBVIOUS
    <3>2. IsFiniteSet(S) /\ Concuerdan(S, g, h)
      BY <2>1, <2>2, <2>3, <3>1 DEF Concuerdan
    <3>3. \A s \in SUBSET S : g[s] = h[s]
      BY <3>2, Iguales
    <3> QED BY <3>1, <3>3
  <2> QED BY <2>4
<1>9. h[1 .. N] = Cardinality(Cubre(l)) /\ Cubre(l) = Los(1 .. N)
  BY DEF Cubre
<1> QED BY <1>1, <1>2, <1>8, <1>9

-----------------------------------------------------------------------------
(* What the operations on the list of holes do to the addresses it covers.     *)

HuecoR == [base : 0 .. TamMemoria, tam : Nat]

\* A sequence is a function on 1 .. Len.
LEMMA ListaDe ==
    ASSUME NEW R, NEW l \in Seq(R)
    PROVE  /\ Len(l) \in Nat /\ DOMAIN l = 1 .. Len(l) /\ l \in [1 .. Len(l) -> R]
           /\ \A i \in 1 .. Len(l) : l[i] \in R
BY LenProperties, ElementOfSeq

\* A function on 1 .. n is a sequence.
LEMMA EsLista ==
    ASSUME NEW R, NEW n \in Nat, NEW l \in [1 .. n -> R]
    PROVE  l \in Seq(R) /\ Len(l) = n
OBVIOUS

\* A hole more at the end.
LEMMA UnoMas ==
    ASSUME NEW R, NEW l \in Seq(R), NEW x \in R, Separados(l), Cubre(l) \cap Hasta(x) = {}
    PROVE  /\ Append(l, x) \in Seq(R) /\ Len(Append(l, x)) = Len(l) + 1
           /\ Separados(Append(l, x))
           /\ Cubre(Append(l, x)) = Cubre(l) \union Hasta(x)
<1> DEFINE m == Append(l, x)
           n == Len(l)
<1>1. /\ m \in Seq(R) /\ Len(m) = n + 1 /\ DOMAIN m = 1 .. n + 1
      /\ \A i \in 1 .. n : m[i] = l[i]
      /\ m[n + 1] = x
  BY AppendProperties, LenProperties
<1>2. n \in Nat /\ DOMAIN l = 1 .. n
  BY ListaDe
<1> HIDE DEF m, n
<1>3. 1 .. n + 1 = (1 .. n) \union {n + 1}
  BY <1>2
<1>4. Cubre(m) = Cubre(l) \union Hasta(x)
  <2>1. Cubre(m) = UNION {Hasta(m[i]) : i \in (1 .. n) \union {n + 1}}
    BY <1>1, <1>3 DEF Cubre
  <2>2. Cubre(l) = UNION {Hasta(m[i]) : i \in 1 .. n}
    BY <1>1, <1>2 DEF Cubre
  <2> QED BY <1>1, <2>1, <2>2
<1>5. ASSUME NEW i \in 1 .. n + 1, NEW k \in 1 .. n + 1, i # k
      PROVE  Hasta(m[i]) \cap Hasta(m[k]) = {}
  <2>1. \A j \in 1 .. n : Hasta(m[j]) \subseteq Cubre(l)
    BY <1>1, <1>2 DEF Cubre
  <2>2. CASE i \in 1 .. n /\ k \in 1 .. n
    BY <1>1, <1>2, <1>5, <2>2 DEF Separados
  <2>3. CASE i = n + 1 /\ k \in 1 .. n
    BY <1>1, <2>1, <2>3
  <2>4. CASE k = n + 1 /\ i \in 1 .. n
    BY <1>1, <2>1, <2>4
  <2> QED BY <1>3, <1>5, <2>2, <2>3, <2>4
<1> QED BY <1>1, <1>4, <1>5 DEF Separados, m, n

\* The same holes in another order.
LEMMA Ordenado ==
    ASSUME NEW R, NEW l \in Seq(R), Separados(l), NEW o \in Ordenamientos(l)
    PROVE  /\ o \in Seq(R) /\ Len(o) = Len(l)
           /\ Separados(o) /\ Cubre(o) = Cubre(l)
<1> DEFINE D == DOMAIN l
<1>1. PICK f \in Bijection(D, D) : o = [i \in D |-> l[f[i]]]
  BY DEF Ordenamientos
<1>2. f \in [D -> D] /\ \A i, k \in D : i # k => f[i] # f[k]
  BY <1>1 DEF Bijection, Injection, IsInjective
<1>3. \A k \in D : \E i \in D : f[i] = k
  BY <1>1 DEF Bijection, Surjection
<1>4. D = 1 .. Len(l) /\ Len(l) \in Nat /\ \A i \in D : l[i] \in R
  BY ListaDe
<1>5. o \in [1 .. Len(l) -> R]
  BY <1>1, <1>2, <1>4
<1>6. o \in Seq(R) /\ Len(o) = Len(l) /\ DOMAIN o = D
  BY <1>1, <1>4, <1>5, EsLista
<1>7. \A i \in D : o[i] = l[f[i]]
  BY <1>1
<1>8. Cubre(o) = Cubre(l)
  <2>1. \A a : a \in Cubre(o) <=> \E i \in D : a \in Hasta(l[f[i]])
    BY <1>6, <1>7 DEF Cubre
  <2>2. \A a : a \in Cubre(l) <=> \E i \in D : a \in Hasta(l[i])
    BY DEF Cubre
  <2>3. ASSUME NEW a PROVE (\E i \in D : a \in Hasta(l[f[i]])) <=> \E i \in D : a \in Hasta(l[i])
    BY <1>2, <1>3
  <2> HIDE DEF D
  <2> QED BY <2>1, <2>2, <2>3
<1>9. Separados(o)
  BY <1>2, <1>6, <1>7 DEF Separados
<1> QED BY <1>6, <1>8, <1>9

\* A segment taken from the start of a hole.
LEMMA Ocupado ==
    ASSUME NEW l \in Seq(HuecoR), Separados(l), NEW i \in DOMAIN l, NEW tam \in Nat \ {0},
           tam <= l[i].tam, Cubre(l) \subseteq 0 .. TamMemoria - 1
    PROVE  LET o == Ocupar(l, i, tam)
               s == l[i].base .. l[i].base + tam - 1
           IN  /\ o \in Seq(HuecoR) /\ Len(o) = Len(l)
               /\ Separados(o)
               /\ s \subseteq Cubre(l) /\ Cubre(o) = Cubre(l) \ s
<1>0. l[i] \in HuecoR
  BY ListaDe
<1>1. PICK b \in 0 .. TamMemoria, t \in Nat : b = l[i].base /\ t = l[i].tam /\ tam <= t
  BY <1>0 DEF HuecoR
<1>2. TamMemoria \in Nat
  BY TamaniosAssumption
<1>3. Hasta(l[i]) = b .. b + t - 1 /\ Hasta(l[i]) \subseteq Cubre(l)
  BY <1>1 DEF Hasta, Cubre
<1>4. b + tam \in 0 .. TamMemoria
  <2>1. b + tam - 1 \in b .. b + t - 1
    BY <1>1
  <2>2. b + tam - 1 \in 0 .. TamMemoria - 1
    BY <1>3, <2>1
  <2> QED BY <1>1, <1>2, <2>2
<1> DEFINE x == Hueco(b + tam, t - tam)
           o == [l EXCEPT ![i] = x]
<1>5. Ocupar(l, i, tam) = o
  BY <1>1 DEF Ocupar
<1>6. x \in HuecoR
  BY <1>1, <1>4 DEF Hueco, HuecoR
<1>7. Hasta(x) = b + tam .. b + t - 1
  <2>1. (b + tam) + (t - tam) - 1 = b + t - 1
    BY ONLY b \in 0 .. TamMemoria, t \in Nat, tam \in Nat \ {0}, TamMemoria \in Nat, <1>2
  <2> QED BY <2>1 DEF Hasta, Hueco
<1>8. o \in Seq(HuecoR) /\ Len(o) = Len(l) /\ DOMAIN o = DOMAIN l
  BY <1>6, ListaDe, EsLista
<1>9. o[i] = x /\ \A k \in DOMAIN l \ {i} : o[k] = l[k]
  BY ListaDe
<1> HIDE DEF x, o
<1>10. Hasta(x) \subseteq Hasta(l[i]) /\ Hasta(x) = Hasta(l[i]) \ (b .. b + tam - 1)
       /\ b .. b + tam - 1 \subseteq Hasta(l[i])
  <2>1. /\ b + tam .. b + t - 1 = (b .. b + t - 1) \ (b .. b + tam - 1)
        /\ b .. b + tam - 1 \subseteq b .. b + t - 1
    <3>1. b \in Int /\ t \in Int /\ tam \in Int /\ tam >= 0 /\ tam <= t
      BY <1>1, <1>2, TamaniosAssumption
    <3> QED BY ONLY <3>1
  <2>2. Hasta(l[i]) = b .. b + t - 1
    BY <1>3
  <2>3. b + tam .. b + t - 1 \subseteq b .. b + t - 1
    BY <2>1
  <2> QED BY ONLY <1>7, <2>1, <2>2, <2>3
<1>11. Separados(o)
  <2>1. \A k \in DOMAIN l : Hasta(o[k]) \subseteq Hasta(l[k])
    BY <1>9, <1>10
  <2> QED BY <1>8, <2>1 DEF Separados
<1>12. Cubre(o) = Cubre(l) \ (b .. b + tam - 1)
  <2>1. \A a : a \in Cubre(o) <=> \E k \in DOMAIN l : a \in Hasta(o[k])
    BY <1>8 DEF Cubre
  <2>2. \A a : a \in Cubre(l) <=> \E k \in DOMAIN l : a \in Hasta(l[k])
    BY DEF Cubre
  <2>3. \A k \in DOMAIN l \ {i} : Hasta(l[k]) \cap Hasta(l[i]) = {}
    BY DEF Separados
  <2>4. ASSUME NEW a PROVE a \in Cubre(o) <=> a \in Cubre(l) /\ a \notin b .. b + tam - 1
    <3>1. CASE a \in Hasta(l[i])
      <4>1. \A k \in DOMAIN l \ {i} : a \notin Hasta(l[k])
        BY <2>3, <3>1
      <4> QED BY <1>9, <1>10, <2>1, <2>2, <3>1, <4>1
    <3>2. CASE a \notin Hasta(l[i])
      BY <1>9, <1>10, <2>1, <2>2, <3>2
    <3> QED BY <3>1, <3>2
  <2> QED BY <2>4
<1> QED BY <1>1, <1>3, <1>5, <1>8, <1>10, <1>11, <1>12

-----------------------------------------------------------------------------
(* combinar_huecos_libres.                                                     *)

\* One hole after those already joined.
Unir(hechos, h) ==
    IF hechos # <<>> /\ Last(hechos).base + Last(hechos).tam = h.base
    THEN Front(hechos) \o <<Hueco(Last(hechos).base, Last(hechos).tam + h.tam)>>
    ELSE Append(hechos, h)

\* To put x in place of the last element is to change the last element.
LEMMA OtroUltimo ==
    ASSUME NEW R, NEW c \in Seq(R), c # <<>>, NEW x \in R
    PROVE  /\ Len(c) \in 1 .. Len(c)
           /\ Front(c) \o <<x>> = [c EXCEPT ![Len(c)] = x]
<1>1. PICK n \in Nat : n = Len(c) /\ n # 0 /\ c \in [1 .. n -> R]
  BY ListaDe, EmptySeq
<1>2. Front(c) = [i \in 1 .. n - 1 |-> c[i]] /\ Front(c) \in Seq(R) /\ Len(Front(c)) = n - 1
  <2>1. Front(c) = SubSeq(c, 1, n - 1)
    BY <1>1 DEF Front
  <2>2. \A i \in 1 .. n - 1 : i \in 1 .. n
    BY <1>1
  <2>3. SubSeq(c, 1, n - 1) = [i \in 1 .. n - 1 |-> c[i]]
    BY <1>1
  <2>4. [i \in 1 .. n - 1 |-> c[i]] \in [1 .. n - 1 -> R]
    BY <1>1, <2>2
  <2> QED BY <1>1, <2>1, <2>3, <2>4, EsLista
<1>3. <<x>> \in Seq(R) /\ Len(<<x>>) = 1 /\ <<x>>[1] = x
  OBVIOUS
<1> DEFINE d == Front(c) \o <<x>>
           e == [c EXCEPT ![n] = x]
<1>4. /\ d \in Seq(R) /\ Len(d) = n - 1 + 1
      /\ \A i \in 1 .. n - 1 + 1 : d[i] = IF i <= n - 1 THEN Front(c)[i] ELSE <<x>>[i - (n - 1)]
  <2>0. PICK f, u : f = Front(c) /\ u = <<x>>
    OBVIOUS
  <2>1. \A s, t \in Seq(R) : /\ s \o t \in Seq(R) /\ Len(s \o t) = Len(s) + Len(t)
           /\ \A i \in 1 .. Len(s) + Len(t) : (s \o t)[i] = IF i <= Len(s) THEN s[i] ELSE t[i - Len(s)]
    BY ConcatProperties
  <2>2. f \in Seq(R) /\ u \in Seq(R) /\ Len(f) = n - 1 /\ Len(u) = 1 /\ d = f \o u
    BY <1>2, <1>3, <2>0
  <2> HIDE DEF d
  <2>3. /\ f \o u \in Seq(R) /\ Len(f \o u) = Len(f) + Len(u)
        /\ \A i \in 1 .. Len(f) + Len(u) :
              (f \o u)[i] = IF i <= Len(f) THEN f[i] ELSE u[i - Len(f)]
    BY <2>1, <2>2, Zenon
  <2>4. /\ d \in Seq(R) /\ Len(d) = n - 1 + 1
        /\ \A i \in 1 .. n - 1 + 1 : d[i] = IF i <= n - 1 THEN f[i] ELSE u[i - (n - 1)]
    BY <2>2, <2>3, Zenon
  <2> QED BY <2>0, <2>4, Zenon
<1>5. n - 1 + 1 = n /\ \A i \in 1 .. n : i <= n - 1 => i \in 1 .. n - 1
  BY <1>1
<1>6. d \in [1 .. n -> R] /\ \A i \in 1 .. n : d[i] = e[i]
  <2>1. d \in [1 .. n -> R]
    BY <1>4, <1>5, ListaDe
  <2>2. ASSUME NEW i \in 1 .. n PROVE d[i] = e[i]
    <3>0. i \in Int /\ n \in Int /\ i >= 1 /\ i <= n
      BY <1>1
    <3>1. CASE i <= n - 1
      <4>1. i # n /\ i \in 1 .. n - 1
        BY <3>0, <3>1
      <4> HIDE DEF d
      <4>2. d[i] = c[i]
        BY <1>2, <1>4, <1>5, <3>1, <4>1
      <4> QED BY <1>1, <4>1, <4>2
    <3>2. CASE ~(i <= n - 1)
      <4>1. i = n /\ i - (n - 1) = 1
        BY <3>0, <3>2
      <4> HIDE DEF d
      <4>2. d[i] = x
        BY <1>3, <1>4, <1>5, <3>2, <4>1
      <4> QED BY <1>1, <4>1, <4>2
    <3> QED BY <3>1, <3>2
  <2> QED BY <2>1, <2>2
<1>7. e \in [1 .. n -> R]
  BY <1>1
<1> HIDE DEF d, e
<1>8. d = e
  BY <1>6, <1>7
<1>9. Len(c) \in 1 .. Len(c) /\ e = [c EXCEPT ![Len(c)] = x]
  BY <1>1 DEF e
<1> QED BY <1>8, <1>9 DEF d

\* A step of combinar_huecos_libres covers what there was and the new hole.
LEMMA Unido ==
    ASSUME NEW c \in Seq(HuecoR), NEW h \in HuecoR
    PROVE  /\ Unir(c, h) \in Seq(HuecoR)
           /\ Separados(c) /\ Cubre(c) \cap Hasta(h) = {} =>
                Separados(Unir(c, h)) /\ Cubre(Unir(c, h)) = Cubre(c) \union Hasta(h)
<1> DEFINE n == Len(c)
           x == Hueco(Last(c).base, Last(c).tam + h.tam)
           d == [c EXCEPT ![n] = x]
<1>1. CASE ~(c # <<>> /\ Last(c).base + Last(c).tam = h.base)
  <2>1. Unir(c, h) = Append(c, h)
    BY <1>1 DEF Unir
  <2> QED BY <2>1, UnoMas, AppendProperties
<1>2. CASE c # <<>> /\ Last(c).base + Last(c).tam = h.base
  <2>1. n \in Nat /\ n # 0 /\ DOMAIN c = 1 .. n /\ c[n] \in HuecoR /\ Last(c) = c[n]
    <3>1. n \in Nat /\ n # 0
      BY <1>2, ListaDe, EmptySeq
    <3> QED BY <3>1, ListaDe DEF Last
  <2>2. PICK b \in 0 .. TamMemoria, t \in Nat, u \in Nat :
           b = c[n].base /\ t = c[n].tam /\ u = h.tam /\ h.base = b + t
    BY <1>2, <2>1 DEF HuecoR
  <2>3. x = Hueco(b, t + u) /\ x \in HuecoR
    BY <2>1, <2>2 DEF Hueco, HuecoR
  <2>4. Hasta(x) = b .. b + t + u - 1 /\ Hasta(h) = b + t .. b + t + u - 1
        /\ Hasta(c[n]) = b .. b + t - 1
    <3>1. Hasta(x) = b .. b + (t + u) - 1
      BY <2>3 DEF Hasta, Hueco
    <3>2. Hasta(h) = b + t .. (b + t) + u - 1 /\ Hasta(c[n]) = b .. b + t - 1
      BY <2>2 DEF Hasta
    <3>3. b + (t + u) - 1 = b + t + u - 1 /\ (b + t) + u - 1 = b + t + u - 1
      <4>1. b \in Int /\ t \in Int /\ u \in Int
        BY TamaniosAssumption
      <4> QED BY <4>1
    <3> QED BY <3>1, <3>2, <3>3
  <2>5. Hasta(x) = Hasta(c[n]) \union Hasta(h)
    <3>1. b .. b + t + u - 1 = (b .. b + t - 1) \union (b + t .. b + t + u - 1)
      BY ONLY b \in Nat, t \in Nat, u \in Nat
    <3> QED BY <2>4, <3>1
  <2>6. Unir(c, h) = d
    BY <1>2, <2>3, OtroUltimo DEF Unir
  <2> HIDE DEF x, n
  <2>7. d \in Seq(HuecoR) /\ DOMAIN d = 1 .. n /\ d[n] = x /\ \A i \in (1 .. n) \ {n} : d[i] = c[i]
    BY <2>1, <2>3, ListaDe, EsLista DEF n
  <2> HIDE DEF d
  <2>8. ASSUME Separados(c), Cubre(c) \cap Hasta(h) = {}
        PROVE  Separados(d) /\ Cubre(d) = Cubre(c) \union Hasta(h)
    <3>0. n \in 1 .. n
      BY <2>1
    <3>1. \A i \in 1 .. n : Hasta(c[i]) \subseteq Cubre(c)
      BY <2>1 DEF Cubre
    <3>2. \A i \in (1 .. n) \ {n} : Hasta(d[i]) \cap Hasta(d[n]) = {}
      <4>1. \A i \in (1 .. n) \ {n} : Hasta(c[i]) \cap Hasta(c[n]) = {}
        BY <2>1, <2>8, <3>0 DEF Separados
      <4> QED BY <2>5, <2>7, <2>8, <3>1, <4>1
    <3>3. Separados(d)
      <4> SUFFICES ASSUME NEW i \in 1 .. n, NEW k \in 1 .. n, i # k
                   PROVE  Hasta(d[i]) \cap Hasta(d[k]) = {}
        BY <2>7 DEF Separados
      <4>1. CASE i = n
        BY <3>2, <4>1
      <4>2. CASE k = n
        BY <3>2, <4>2
      <4>3. CASE i # n /\ k # n
        BY <2>1, <2>7, <2>8, <4>3 DEF Separados
      <4> QED BY <4>1, <4>2, <4>3
    <3>4. ASSUME NEW a PROVE a \in Cubre(d) <=> a \in Cubre(c) \/ a \in Hasta(h)
      <4>1. a \in Cubre(d) <=> \E i \in 1 .. n : a \in Hasta(d[i])
        BY <2>7 DEF Cubre
      <4>2. a \in Cubre(c) <=> \E i \in 1 .. n : a \in Hasta(c[i])
        BY <2>1 DEF Cubre
      <4> QED BY <2>5, <2>7, <3>0, <4>1, <4>2
    <3> QED BY <3>3, <3>4
  <2> QED BY <2>6, <2>7, <2>8
<1> QED BY <1>1, <1>2

\* The fold, one hole at a time.
LEMMA CombinarPasos ==
    ASSUME NEW N \in Nat, NEW l \in [1 .. N -> HuecoR]
    PROVE  \E it \in [0 .. N -> Seq(HuecoR)] :
              /\ it[0] = <<>> /\ \A k \in 1 .. N : it[k] = Unir(it[k - 1], l[k])
              /\ Combinar(l) = it[N]
<1> DEFINE P == SUBSET (1 .. N)
           V == Seq(HuecoR)
           F == [k \in 1 .. N |-> [v \in V |-> Unir(v, l[k])]]
           g == CHOOSE g : g = [s \in P |-> IF s = {} THEN <<>>
                                            ELSE Unir(g[s \ {Max(s)}], l[Max(s)])]
<1>1. Combinar(l) = g[1 .. N]
  BY DEF Combinar, Unir, FoldLeft, MapThenFoldSet
<1>2. F \in [1 .. N -> [V -> V]] /\ <<>> \in V
  BY Unido
<1>3. \A s \in P : s # {} => Max(s) \in s /\ s \ {Max(s)} \in P
  BY MayorDe
<1>4. PICK h : EsPliegue(h, N, V, <<>>, F)
  <2> HIDE DEF V, F
  <2> QED BY <1>2, HayPliegue
<1>5. h = [s \in P |-> IF s = {} THEN <<>> ELSE Unir(h[s \ {Max(s)}], l[Max(s)])]
  <2>1. h \in [P -> V] /\ h[{}] = <<>>
    BY <1>4 DEF EsPliegue
  <2>2. ASSUME NEW s \in P, s # {} PROVE h[s] = Unir(h[s \ {Max(s)}], l[Max(s)])
    <3>1. h[s] = F[Max(s)][h[s \ {Max(s)}]]
      BY <1>4, <2>2 DEF EsPliegue
    <3>2. Max(s) \in 1 .. N /\ h[s \ {Max(s)}] \in V
      BY <1>3, <2>1, <2>2
    <3> HIDE DEF V
    <3> QED BY <3>1, <3>2
  <2> HIDE DEF V
  <2> QED BY <2>1, <2>2
<1>6. g = [s \in P |-> IF s = {} THEN <<>> ELSE Unir(g[s \ {Max(s)}], l[Max(s)])]
  BY <1>5
<1>7. ConcuerdanHasta(N, g, h)
  <2> HIDE DEF g
  <2>1. g[{}] = h[{}]
    BY <1>5, <1>6
  <2>2. ASSUME NEW s \in P, s # {}
        PROVE  g[s \ {Max(s)}] = h[s \ {Max(s)}] => g[s] = h[s]
    BY <1>5, <1>6, <2>2
  <2> QED BY <1>3, <2>1, <2>2 DEF Concuerdan, ConcuerdanHasta
<1>8. PICK it : Recorre(it, N, V, <<>>, F, g)
  <2> HIDE DEF g, V, F
  <2> QED BY <1>2, <1>4, <1>7, PasosPliegue
<1>9. \A k \in 1 .. N : it[k] = Unir(it[k - 1], l[k])
  <2> SUFFICES ASSUME NEW k \in 1 .. N PROVE it[k] = Unir(it[k - 1], l[k])
    OBVIOUS
  <2>1. k - 1 \in 0 .. N
    OBVIOUS
  <2> HIDE DEF V
  <2>2. it[k - 1] \in V
    BY <1>8, <2>1 DEF Recorre
  <2> QED BY <1>8, <2>2 DEF Recorre
<1> QED BY <1>1, <1>8, <1>9 DEF Recorre

\* combinar_huecos_libres covers the same addresses, each of them once.
LEMMA Combinado ==
    ASSUME NEW l \in Seq(HuecoR), Separados(l)
    PROVE  Combinar(l) \in Seq(HuecoR) /\ Separados(Combinar(l)) /\ Cubre(Combinar(l)) = Cubre(l)
<1>1. PICK N \in Nat : N = Len(l) /\ DOMAIN l = 1 .. N /\ l \in [1 .. N -> HuecoR]
  BY ListaDe
<1>2. PICK it \in [0 .. N -> Seq(HuecoR)] :
              /\ it[0] = <<>> /\ \A k \in 1 .. N : it[k] = Unir(it[k - 1], l[k])
              /\ Combinar(l) = it[N]
  BY <1>1, CombinarPasos
<1> DEFINE Los(k) == UNION {Hasta(l[i]) : i \in 1 .. k}
           Bien(k) == Separados(it[k]) /\ Cubre(it[k]) = Los(k)
           Malos == {k \in 0 .. N : ~Bien(k)}
<1>3. SUFFICES ASSUME Malos # {} PROVE FALSE
  <2>1. N \in 0 .. N /\ Cubre(l) = Los(N)
    BY <1>1 DEF Cubre
  <2>2. Malos = {} => Bien(N)
    BY <2>1
  <2> QED BY <1>2, <2>1, <2>2
<1>4. PICK k \in Malos : \A j \in Malos : k <= j
  <2>1. Malos \in SUBSET Nat
    OBVIOUS
  <2> HIDE DEF Malos
  <2> QED BY <1>3, <2>1, Primero
<1>5. Bien(0)
  <2>1. Los(0) = {}
    OBVIOUS
  <2>2. Separados(<<>>) /\ Cubre(<<>>) = {}
    BY DEF Separados, Cubre
  <2> QED BY <1>2, <2>1, <2>2
<1>6. k \in 1 .. N /\ k - 1 \in 0 .. N /\ Bien(k - 1)
  BY <1>4, <1>5
<1>7. Los(k) = Los(k - 1) \union Hasta(l[k]) /\ Los(k - 1) \cap Hasta(l[k]) = {}
  <2>1. 1 .. k = (1 .. k - 1) \union {k} /\ k \notin 1 .. k - 1 /\ 1 .. k - 1 \subseteq 1 .. N
    BY <1>6
  <2>2. Los(k) = Los(k - 1) \union Hasta(l[k])
    BY <2>1
  <2>3. \A i \in 1 .. k - 1 : Hasta(l[i]) \cap Hasta(l[k]) = {}
    BY <1>1, <1>6, <2>1 DEF Separados
  <2> QED BY <2>2, <2>3
<1>8. it[k - 1] \in Seq(HuecoR) /\ l[k] \in HuecoR /\ it[k] = Unir(it[k - 1], l[k])
  BY <1>1, <1>2, <1>6
<1>9. Bien(k)
  <2> HIDE DEF Los
  <2> QED BY <1>6, <1>7, <1>8, Unido
<1> QED BY <1>4, <1>9

-----------------------------------------------------------------------------
(* eliminar_segmento and eliminar_proceso.                                     *)

SegmentoR == [id : Nat, base : 0 .. TamMemoria, tam : Nat]
SinRepetir(segs) == \A i, k \in DOMAIN segs : segs[i].id = segs[k].id => i = k

\* list_remove: what is after the element moves down.
LEMMA Quitado ==
    ASSUME NEW R, NEW s \in Seq(R), NEW j \in 1 .. Len(s)
    PROVE  /\ RemoveAt(s, j) \in Seq(R) /\ Len(RemoveAt(s, j)) = Len(s) - 1
           /\ \A i \in 1 .. Len(s) - 1 : RemoveAt(s, j)[i] = IF i < j THEN s[i] ELSE s[i + 1]
<1>1. PICK n \in Nat : n = Len(s) /\ j \in Int /\ 1 <= j /\ j <= n /\ s \in [1 .. n -> R]
  BY ListaDe
<1> DEFINE a == [i \in 1 .. j - 1 |-> s[i]]
           b == [i \in 1 .. n - j |-> s[i + j]]
<1>2. a \in Seq(R) /\ Len(a) = j - 1
  <2>1. \A i \in 1 .. j - 1 : i \in 1 .. n
    BY <1>1
  <2>2. a \in [1 .. j - 1 -> R] /\ j - 1 \in Nat
    BY <1>1, <2>1
  <2> HIDE DEF a
  <2> QED BY <2>2, EsLista
<1>3. b \in Seq(R) /\ Len(b) = n - j
  <2>1. \A i \in 1 .. n - j : i + j \in 1 .. n
    BY <1>1
  <2>2. b \in [1 .. n - j -> R] /\ n - j \in Nat
    BY <1>1, <2>1
  <2> HIDE DEF b
  <2> QED BY <2>2, EsLista
<1>4. SubSeq(s, 1, j - 1) = a
  BY <1>1
<1>5. SubSeq(s, j + 1, n) = b
  <2>1. SubSeq(s, j + 1, n) = [i \in 1 .. n - (j + 1) + 1 |-> s[i + (j + 1) - 1]]
    BY <1>1
  <2>2. n - (j + 1) + 1 = n - j /\ \A i \in 1 .. n - j : i + (j + 1) - 1 = i + j
    BY <1>1
  <2> QED BY <2>1, <2>2
<1>6. RemoveAt(s, j) = a \o b
  BY <1>1, <1>4, <1>5 DEF RemoveAt
<1>7. \A i \in 1 .. n - 1 : /\ i < j => i \in 1 .. j - 1
                            /\ ~(i < j) => ~(i <= j - 1) /\ i - (j - 1) \in 1 .. n - j /\ i - (j - 1) + j = i + 1
  <2> SUFFICES ASSUME NEW i \in 1 .. n - 1
               PROVE  /\ i < j => i \in 1 .. j - 1
                      /\ ~(i < j) => ~(i <= j - 1) /\ i - (j - 1) \in 1 .. n - j /\ i - (j - 1) + j = i + 1
    OBVIOUS
  <2>1. i \in Int /\ n \in Int /\ i >= 1 /\ i <= n - 1
    BY <1>1
  <2> QED BY <1>1, <2>1
<1>8. \A i \in 1 .. n - 1 : /\ i < j => a[i] = s[i]
                            /\ ~(i < j) => b[i - (j - 1)] = s[i + 1]
  BY <1>7
<1> HIDE DEF a, b
<1>9. \A x, y \in Seq(R) : /\ x \o y \in Seq(R) /\ Len(x \o y) = Len(x) + Len(y)
         /\ \A i \in 1 .. Len(x) + Len(y) : (x \o y)[i] = IF i <= Len(x) THEN x[i] ELSE y[i - Len(x)]
  BY ConcatProperties
<1>10. /\ a \o b \in Seq(R) /\ Len(a \o b) = Len(a) + Len(b)
       /\ \A i \in 1 .. Len(a) + Len(b) : (a \o b)[i] = IF i <= Len(a) THEN a[i] ELSE b[i - Len(a)]
  BY <1>2, <1>3, <1>9, Zenon
<1>11. Len(a) + Len(b) = n - 1
  BY <1>1, <1>2, <1>3
<1>12. \A i \in 1 .. n - 1 : (a \o b)[i] = IF i <= j - 1 THEN a[i] ELSE b[i - (j - 1)]
  BY <1>2, <1>10, <1>11, Zenon
<1>13. \A i \in 1 .. n - 1 : i < j <=> i <= j - 1
  BY <1>1
<1>14. \A i \in 1 .. n - 1 : (a \o b)[i] = IF i < j THEN s[i] ELSE s[i + 1]
  BY <1>7, <1>8, <1>12, <1>13
<1> QED BY <1>1, <1>6, <1>10, <1>11, <1>14

\* What releases leave are lists, whatever they are asked to release.
Estados == [segs : Seq(SegmentoR), huecos : Seq(HuecoR)]

\* list_sort leaves elements of the list.
LEMMA OrdenadoTipo ==
    ASSUME NEW R, NEW l \in Seq(R), NEW o \in Ordenamientos(l)
    PROVE  o \in Seq(R)
<1> DEFINE D == DOMAIN l
<1>1. PICK f \in Bijection(D, D) : o = [i \in D |-> l[f[i]]]
  BY DEF Ordenamientos
<1>2. f \in [D -> D]
  BY <1>1 DEF Bijection, Injection
<1>3. D = 1 .. Len(l) /\ Len(l) \in Nat /\ \A i \in D : l[i] \in R
  BY ListaDe
<1>4. o \in [1 .. Len(l) -> R]
  BY <1>1, <1>2, <1>3
<1> QED BY <1>3, <1>4, EsLista

\* combinar_huecos_libres returns holes.
LEMMA CombinarTipo ==
    ASSUME NEW l \in Seq(HuecoR)
    PROVE  Combinar(l) \in Seq(HuecoR)
<1>1. PICK N \in Nat : l \in [1 .. N -> HuecoR]
  BY ListaDe
<1>2. N \in 0 .. N
  OBVIOUS
<1> QED BY <1>1, <1>2, CombinarPasos

\* The place of the first segment with that id.
LEMMA Cual ==
    ASSUME NEW segs \in Seq(SegmentoR), NEW id, {j \in DOMAIN segs : segs[j].id = id} # {}
    PROVE  LET j == Min({j \in DOMAIN segs : segs[j].id = id})
           IN  j \in 1 .. Len(segs) /\ segs[j].id = id /\ Hueco(segs[j].base, segs[j].tam) \in HuecoR
<1> DEFINE C == {j \in DOMAIN segs : segs[j].id = id}
<1>1. C \in SUBSET Nat /\ DOMAIN segs = 1 .. Len(segs)
  BY ListaDe
<1>2. Min(C) \in C
  BY <1>1, MenorDe
<1>3. segs[Min(C)] \in SegmentoR
  BY <1>1, <1>2, ListaDe
<1> QED BY <1>1, <1>2, <1>3 DEF Hueco, HuecoR, SegmentoR

\* eliminar_segmento returns segments and holes.
LEMMA LiberarTipo ==
    ASSUME NEW segs \in Seq(SegmentoR), NEW l \in Seq(HuecoR), NEW id,
           NEW e \in Liberar(segs, l, id)
    PROVE  e \in Estados
<1> DEFINE C == {j \in DOMAIN segs : segs[j].id = id}
           j == Min(C)
           nueva == Append(l, Hueco(segs[j].base, segs[j].tam))
<1>1. CASE C = {}
  <2>1. PICK o \in Ordenamientos(l) : e = [segs |-> segs, huecos |-> Combinar(o)]
    BY <1>1 DEF Liberar
  <2>2. Combinar(o) \in Seq(HuecoR)
    BY OrdenadoTipo, CombinarTipo
  <2> QED BY <2>1, <2>2 DEF Estados
<1>2. CASE C # {}
  <2>1. PICK o \in Ordenamientos(nueva) : e = [segs |-> RemoveAt(segs, j), huecos |-> Combinar(o)]
    BY <1>2 DEF Liberar
  <2>2. j \in 1 .. Len(segs) /\ Hueco(segs[j].base, segs[j].tam) \in HuecoR
    BY <1>2, Cual
  <2>3. nueva \in Seq(HuecoR) /\ RemoveAt(segs, j) \in Seq(SegmentoR)
    BY <2>2, AppendProperties, Quitado
  <2> HIDE DEF nueva, j
  <2>4. Combinar(o) \in Seq(HuecoR)
    BY <2>3, OrdenadoTipo, CombinarTipo
  <2> QED BY <2>1, <2>3, <2>4 DEF Estados
<1> QED BY <1>1, <1>2

\* A segment that is not there: only the holes are put in order and joined.
LEMMA LiberadoNada ==
    ASSUME NEW segs \in Seq(SegmentoR), NEW l \in Seq(HuecoR), Separados(l),
           NEW id, \A j \in DOMAIN segs : segs[j].id # id, NEW e \in Liberar(segs, l, id)
    PROVE  /\ e.segs = segs /\ e.huecos \in Seq(HuecoR)
           /\ Separados(e.huecos) /\ Cubre(e.huecos) = Cubre(l)
<1>1. {j \in DOMAIN segs : segs[j].id = id} = {}
  OBVIOUS
<1>2. PICK o \in Ordenamientos(l) : e = [segs |-> segs, huecos |-> Combinar(o)]
  BY <1>1 DEF Liberar
<1>3. o \in Seq(HuecoR) /\ Separados(o) /\ Cubre(o) = Cubre(l)
  BY Ordenado
<1>4. e.segs = segs /\ e.huecos = Combinar(o)
  BY <1>2
<1> QED BY <1>3, <1>4, Combinado

\* A segment that is there becomes a hole.
LEMMA Liberado ==
    ASSUME NEW segs \in Seq(SegmentoR), SinRepetir(segs), NEW j \in DOMAIN segs,
           NEW l \in Seq(HuecoR), Separados(l), Cubre(l) \cap Hasta(segs[j]) = {},
           NEW e \in Liberar(segs, l, segs[j].id)
    PROVE  /\ e.segs = RemoveAt(segs, j) /\ e.huecos \in Seq(HuecoR)
           /\ Separados(e.huecos) /\ Cubre(e.huecos) = Cubre(l) \union Hasta(segs[j])
<1> DEFINE C == {k \in DOMAIN segs : segs[k].id = segs[j].id}
           x == Hueco(segs[j].base, segs[j].tam)
<1>1. C = {j}
  BY DEF SinRepetir
<1>2. Min(C) = j /\ C # {}
  <2>1. C \in SUBSET Nat
    BY ListaDe
  <2> HIDE DEF C
  <2>2. C # {}
    BY <1>1
  <2>3. Min(C) \in C
    BY <2>1, <2>2, MenorDe
  <2> QED BY <1>1, <2>2, <2>3
<1>3. x \in HuecoR /\ Hasta(x) = Hasta(segs[j])
  BY <1>2, Cual DEF Hueco, Hasta
<1>4. PICK o \in Ordenamientos(Append(l, x)) : e = [segs |-> RemoveAt(segs, j), huecos |-> Combinar(o)]
  BY <1>2 DEF Liberar
<1> HIDE DEF x
<1>5. /\ Append(l, x) \in Seq(HuecoR) /\ Separados(Append(l, x))
      /\ Cubre(Append(l, x)) = Cubre(l) \union Hasta(segs[j])
  BY <1>3, UnoMas
<1>6. o \in Seq(HuecoR) /\ Separados(o) /\ Cubre(o) = Cubre(l) \union Hasta(segs[j])
  BY <1>5, Ordenado
<1>7. e.segs = RemoveAt(segs, j) /\ e.huecos = Combinar(o)
  BY <1>4
<1> QED BY <1>6, <1>7, Combinado

-----------------------------------------------------------------------------
\* One segment after another, from each of the states that the sorts may have left.
Soltar(hechos, j) == UNION {Liberar(e.segs, e.huecos, e.segs[j].id) : e \in hechos}

\* eliminar_proceso is a release of the last segment after another, down to
\* the second.
LEMMA LiberarPasos ==
    ASSUME NEW L \in Nat \ {0}, NEW segs \in [1 .. L -> SegmentoR], NEW l \in Seq(HuecoR)
    PROVE  \E it \in [0 .. L - 1 -> SUBSET Estados] :
              /\ it[0] = {[segs |-> segs, huecos |-> l]}
              /\ \A k \in 1 .. L - 1 : it[k] = Soltar(it[k - 1], L + 1 - k)
              /\ LiberarTodos(segs, l) = it[L - 1]
<1> DEFINE N == L - 1
           b == {[segs |-> segs, huecos |-> l]}
           P == SUBSET (1 .. N)
           V == SUBSET Estados
           F == [k \in 1 .. N |-> [v \in V |-> Soltar(v, L + 1 - k)]]
           ind == [k \in 1 .. N |-> L + 1 - k]
           g == CHOOSE g : g = [s \in P |-> IF s = {} THEN b
                                            ELSE Soltar(g[s \ {Max(s)}], ind[Max(s)])]
<1>0. N \in Nat /\ segs \in Seq(SegmentoR) /\ Len(segs) = L /\ DOMAIN ind = 1 .. N
  BY EsLista
<1>1. LiberarTodos(segs, l) = g[1 .. N]
  <2>1. Len(segs) - UltimoQueQueda + 1 = N
    BY <1>0 DEF UltimoQueQueda
  <2>2. [k \in 1 .. Len(segs) - UltimoQueQueda + 1 |-> Len(segs) + 1 - k] = ind
    BY <1>0, <2>1
  <2> HIDE DEF ind, N
  <2>3. LiberarTodos(segs, l) = FoldLeft(LAMBDA h, j : UNION {Liberar(e.segs, e.huecos, e.segs[j].id) : e \in h},
                                         b, ind)
    BY <2>2 DEF LiberarTodos
  <2> QED BY <1>0, <2>3 DEF FoldLeft, MapThenFoldSet, Soltar
<1>2. F \in [1 .. N -> [V -> V]] /\ b \in V
  <2>1. ASSUME NEW v \in V, NEW j PROVE Soltar(v, j) \in V
    <3>1. ASSUME NEW e \in v, NEW x \in Liberar(e.segs, e.huecos, e.segs[j].id) PROVE x \in Estados
      <4>1. e \in Estados
        OBVIOUS
      <4>2. e.segs \in Seq(SegmentoR) /\ e.huecos \in Seq(HuecoR)
        BY <4>1 DEF Estados
      <4> QED BY <4>2, LiberarTipo
    <3> QED BY <3>1 DEF Soltar
  <2>2. b \in V
    BY <1>0 DEF Estados
  <2> HIDE DEF V
  <2> QED BY <2>1, <2>2
<1> HIDE DEF b
<1>3. \A s \in P : s # {} => Max(s) \in s /\ s \ {Max(s)} \in P
  BY <1>0, MayorDe
<1>4. PICK h : EsPliegue(h, N, V, b, F)
  <2> HIDE DEF V, F, N
  <2> QED BY <1>0, <1>2, HayPliegue
<1>5. h = [s \in P |-> IF s = {} THEN b ELSE Soltar(h[s \ {Max(s)}], ind[Max(s)])]
  <2>1. h \in [P -> V] /\ h[{}] = b
    BY <1>4 DEF EsPliegue
  <2>2. ASSUME NEW s \in P, s # {} PROVE h[s] = Soltar(h[s \ {Max(s)}], ind[Max(s)])
    <3>1. h[s] = F[Max(s)][h[s \ {Max(s)}]]
      BY <1>4, <2>2 DEF EsPliegue
    <3>2. Max(s) \in 1 .. N /\ h[s \ {Max(s)}] \in V
      BY <1>3, <2>1, <2>2
    <3> HIDE DEF V
    <3> QED BY <3>1, <3>2
  <2> HIDE DEF V, ind
  <2> QED BY <2>1, <2>2
<1>6. g = [s \in P |-> IF s = {} THEN b ELSE Soltar(g[s \ {Max(s)}], ind[Max(s)])]
  <2> HIDE DEF ind
  <2> QED BY <1>5
<1>7. ConcuerdanHasta(N, g, h)
  <2> HIDE DEF g, ind, N
  <2>1. g[{}] = h[{}]
    BY <1>5, <1>6
  <2>2. ASSUME NEW s \in P, s # {}
        PROVE  g[s \ {Max(s)}] = h[s \ {Max(s)}] => g[s] = h[s]
    BY <1>5, <1>6, <2>2
  <2> QED BY <1>3, <2>1, <2>2 DEF Concuerdan, ConcuerdanHasta
<1>8. PICK it : Recorre(it, N, V, b, F, g)
  <2> HIDE DEF g, V, F, N
  <2> QED BY <1>0, <1>2, <1>4, <1>7, PasosPliegue
<1>9. it \in [0 .. N -> V] /\ it[0] = b /\ it[N] = g[1 .. N]
  <2> HIDE DEF g, V, F, N
  <2> QED BY <1>8 DEF Recorre
<1>10. \A k \in 1 .. N : it[k] = Soltar(it[k - 1], L + 1 - k)
  <2> SUFFICES ASSUME NEW k \in 1 .. N PROVE it[k] = Soltar(it[k - 1], L + 1 - k)
    OBVIOUS
  <2>1. k - 1 \in 0 .. N
    BY <1>0
  <2> HIDE DEF V, N
  <2>2. it[k - 1] \in V
    BY <1>9, <2>1
  <2> QED BY <1>8, <2>2 DEF Recorre
<1> HIDE DEF g
<1> QED BY <1>1, <1>9, <1>10 DEF b

\* All the segments of a process but the first, which stays, become holes.
LEMMA LiberadosTodos ==
    ASSUME NEW segs \in Seq(SegmentoR), Len(segs) # 0, SinRepetir(segs), Separados(segs),
           NEW l \in Seq(HuecoR), Separados(l),
           \A j \in 2 .. Len(segs) : Cubre(l) \cap Hasta(segs[j]) = {},
           NEW e \in LiberarTodos(segs, l)
    PROVE  /\ e.segs \in Seq(SegmentoR) /\ Len(e.segs) = 1 /\ e.segs[1] = segs[1]
           /\ e.huecos \in Seq(HuecoR) /\ Separados(e.huecos)
           /\ Cubre(e.huecos) = Cubre(l) \union UNION {Hasta(segs[j]) : j \in 2 .. Len(segs)}
<1>1. PICK L \in Nat \ {0} : L = Len(segs) /\ DOMAIN segs = 1 .. L /\ segs \in [1 .. L -> SegmentoR]
  BY ListaDe
<1>2. PICK it \in [0 .. L - 1 -> SUBSET Estados] :
              /\ it[0] = {[segs |-> segs, huecos |-> l]}
              /\ \A k \in 1 .. L - 1 : it[k] = Soltar(it[k - 1], L + 1 - k)
              /\ LiberarTodos(segs, l) = it[L - 1]
  BY ZenonT(30), <1>1, LiberarPasos
<1> DEFINE Los(k) == UNION {Hasta(segs[j]) : j \in L + 1 - k .. L}
           Bien(k, x) == /\ x.segs \in Seq(SegmentoR) /\ Len(x.segs) = L - k
                         /\ \A i \in 1 .. L - k : x.segs[i] = segs[i]
                         /\ x.huecos \in Seq(HuecoR) /\ Separados(x.huecos)
                         /\ Cubre(x.huecos) = Cubre(l) \union Los(k)
           Malos == {k \in 0 .. L - 1 : ~\A x \in it[k] : Bien(k, x)}
<1>3. SUFFICES ASSUME Malos # {} PROVE FALSE
  <2>1. L - 1 \in 0 .. L - 1 /\ L - (L - 1) = 1 /\ L + 1 - (L - 1) = 2 /\ 1 \in 1 .. 1
    BY <1>1
  <2>2. Malos = {} => Bien(L - 1, e)
    BY <1>2, <2>1
  <2> QED BY <1>1, <2>1, <2>2
<1>4. PICK k \in Malos : \A j \in Malos : k <= j
  <2>1. Malos \in SUBSET Nat
    OBVIOUS
  <2> HIDE DEF Malos
  <2> QED BY <1>3, <2>1, Primero
<1>5. \A x \in it[0] : Bien(0, x)
  <2>1. L - 0 = L /\ L + 1 - 0 .. L = {}
    BY <1>1
  <2> QED BY <1>1, <1>2, <2>1
<1>6. k \in 1 .. L - 1 /\ k - 1 \in 0 .. L - 1 /\ \A x \in it[k - 1] : Bien(k - 1, x)
  <2> HIDE DEF Bien
  <2>1. k \in 0 .. L - 1 /\ ~\A x \in it[k] : Bien(k, x)
    BY <1>4
  <2>2. k # 0
    BY <1>5, <2>1
  <2>3. k \in Int /\ k - 1 \in Int /\ ~(k <= k - 1) /\ k \in 1 .. L - 1 /\ k - 1 \in 0 .. L - 1
    BY <2>1, <2>2
  <2> QED BY <1>4, <2>3
<1>7. PICK j \in 2 .. L : /\ j = L + 1 - k /\ L - (k - 1) = j /\ L - k = j - 1 /\ L + 1 - (k - 1) = j + 1
                         /\ j \in Int /\ L \in Int /\ 2 <= j /\ j <= L
  <2>1. k \in Int /\ L \in Int /\ 1 <= k /\ k <= L - 1
    BY <1>1, <1>6
  <2>2. PICK a, b \in Int : a = k /\ b = L
    BY <2>1
  <2>3. 1 <= a /\ a <= b - 1
    BY <2>1, <2>2
  <2>4. PICK c \in Int : c = b + 1 - a
    BY <2>2
  <2>5. 2 <= c /\ c <= b
    BY ONLY a \in Int, b \in Int, c \in Int, <2>3, <2>4
  <2>6. b - (a - 1) = c /\ b - a = c - 1 /\ b + 1 - (a - 1) = c + 1
    BY ONLY a \in Int, b \in Int, c \in Int, <2>4
  <2>7. c \in 2 .. L
    BY <2>2, <2>5
  <2> QED BY <2>1, <2>2, <2>4, <2>5, <2>6, <2>7
<1>8. Los(k) = Los(k - 1) \union Hasta(segs[j])
  <2>1. j .. L = (j + 1 .. L) \union {j}
    BY <1>1, <1>7
  <2> QED BY <1>7, <2>1
<1>9. Los(k - 1) \cap Hasta(segs[j]) = {} /\ Cubre(l) \cap Hasta(segs[j]) = {}
  <2>1. \A i \in j + 1 .. L : i \in 1 .. L /\ i # j
    BY <1>1, <1>7
  <2>2. j \in 1 .. L
    BY <1>1, <1>7
  <2>3. \A i \in j + 1 .. L : Hasta(segs[i]) \cap Hasta(segs[j]) = {}
    BY <1>1, <2>1, <2>2 DEF Separados
  <2> QED BY <1>1, <1>7, <2>3
<1>10. ASSUME NEW y \in it[k] PROVE Bien(k, y)
  <2>0. it[k] = Soltar(it[k - 1], j)
    BY <1>2, <1>6, <1>7
  <2>1. PICK x \in it[k - 1] : y \in Liberar(x.segs, x.huecos, x.segs[j].id)
    BY <1>10, <2>0 DEF Soltar
  <2>2. Bien(k - 1, x)
    BY <1>6
  <2> HIDE DEF Los
  <2>3. PICK xs, xh : xs = x.segs /\ xh = x.huecos
    OBVIOUS
  <2>4. /\ xs \in Seq(SegmentoR) /\ Len(xs) = j /\ DOMAIN xs = 1 .. j
        /\ \A i \in 1 .. j : xs[i] = segs[i]
        /\ xh \in Seq(HuecoR) /\ Separados(xh) /\ Cubre(xh) = Cubre(l) \union Los(k - 1)
    <3>1. xs \in Seq(SegmentoR) /\ Len(xs) = j /\ \A i \in 1 .. j : xs[i] = segs[i]
      BY <1>7, <2>2, <2>3
    <3> QED BY <2>2, <2>3, <3>1, ListaDe
  <2>5. j \in Nat /\ j \in 1 .. j /\ 1 .. j \subseteq 1 .. L /\ j \in DOMAIN xs
    <3>1. j \in Int /\ L \in Int /\ 2 <= j /\ j <= L
      BY <1>7
    <3>2. j \in Nat /\ j \in 1 .. j
      BY <3>1
    <3>3. 1 .. j \subseteq 1 .. L
      BY ONLY SMTT(30), <3>1
    <3> QED BY <2>4, <3>2, <3>3
  <2>6. SinRepetir(xs)
    BY <1>1, <2>4, <2>5 DEF SinRepetir
  <2>7. xs[j] = segs[j] /\ Cubre(xh) \cap Hasta(xs[j]) = {}
    BY <1>9, <2>4, <2>5
  <2>8. y \in Liberar(xs, xh, xs[j].id)
    BY <2>1, <2>3
  <2>9. /\ y.segs = RemoveAt(xs, j) /\ y.huecos \in Seq(HuecoR) /\ Separados(y.huecos)
        /\ Cubre(y.huecos) = Cubre(xh) \union Hasta(xs[j])
    <3>1. xs \in Seq(SegmentoR) /\ xh \in Seq(HuecoR) /\ Separados(xh)
      BY <2>4
    <3>2. j \in DOMAIN xs
      BY <2>5
    <3>3. Cubre(xh) \cap Hasta(xs[j]) = {}
      BY <2>7
    <3> QED BY ONLY <2>6, <2>8, <3>1, <3>2, <3>3, Liberado
  <2>10. PICK ys : ys = y.segs /\ ys = RemoveAt(xs, j)
    BY <2>9
  <2>11. /\ ys \in Seq(SegmentoR) /\ Len(ys) = j - 1
         /\ \A i \in 1 .. j - 1 : ys[i] = IF i < j THEN xs[i] ELSE xs[i + 1]
    <3>1. xs \in Seq(SegmentoR) /\ j \in 1 .. Len(xs) /\ Len(xs) = j
      BY <2>4, <2>5
    <3>2. /\ RemoveAt(xs, j) \in Seq(SegmentoR) /\ Len(RemoveAt(xs, j)) = Len(xs) - 1
          /\ \A i \in 1 .. Len(xs) - 1 : RemoveAt(xs, j)[i] = IF i < j THEN xs[i] ELSE xs[i + 1]
      BY ONLY <3>1, Quitado
    <3> QED BY <2>10, <3>1, <3>2
  <2>12. \A i \in 1 .. j - 1 : i < j /\ i \in 1 .. j
    BY <2>5
  <2>13. \A i \in 1 .. j - 1 : ys[i] = segs[i]
    BY <2>4, <2>11, <2>12
  <2> QED BY <1>7, <1>8, <2>4, <2>7, <2>9, <2>10, <2>11, <2>13
<1> HIDE DEF Bien
<1> QED BY <1>4, <1>10

-----------------------------------------------------------------------------
(* The tables, and the order in which the compaction takes their segments.     *)

\* What the configuration must say: a segment 0, a memory that it does not
\* fill, and programs that do not name it.
Config == TamSegmento > 0 /\ TamSegmento < TamMemoria /\ 0 \notin Ids

Cero == Segmento(0, 0, TamSegmento)
TablaBien(s) ==
    /\ s \in Seq(SegmentoR) /\ Len(s) # 0
    /\ s[1] = Cero
    /\ SinRepetir(s)
    /\ \A j \in 2 .. Len(s) : s[j].id \in Ids /\ s[j].tam # 0
TablasBien ==
    /\ tabla \in Seq(Seq(SegmentoR))
    /\ \A p \in DOMAIN tabla : TablaBien(tabla[p])

Ceros == {<<p, 1>> : p \in DOMAIN tabla}

\* What TablasBien says of the lengths and the elements.
LEMMA LasTablas ==
    ASSUME TablasBien
    PROVE  /\ Len(tabla) \in Nat /\ DOMAIN tabla = 1 .. Len(tabla)
           /\ \A p \in DOMAIN tabla : /\ TablaBien(tabla[p]) /\ Len(tabla[p]) \in Nat \ {0}
                                      /\ DOMAIN tabla[p] = 1 .. Len(tabla[p])
                                      /\ \A j \in 1 .. Len(tabla[p]) : tabla[p][j] \in SegmentoR
<1>1. Len(tabla) \in Nat /\ DOMAIN tabla = 1 .. Len(tabla)
  BY ListaDe DEF TablasBien
<1>2. ASSUME NEW p \in DOMAIN tabla
      PROVE  /\ TablaBien(tabla[p]) /\ Len(tabla[p]) \in Nat \ {0} /\ DOMAIN tabla[p] = 1 .. Len(tabla[p])
             /\ \A j \in 1 .. Len(tabla[p]) : tabla[p][j] \in SegmentoR
  <2>1. PICK s : s = tabla[p]
    OBVIOUS
  <2>2. TablaBien(s) /\ s \in Seq(SegmentoR) /\ Len(s) # 0
    BY <2>1 DEF TablasBien, TablaBien
  <2> QED BY <2>1, <2>2, ListaDe
<1> QED BY <1>1, <1>2

\* All the segments are those of the processes and the segments 0.
LEMMA TodosSon ==
    ASSUME TablasBien
    PROVE  /\ Todos = Propios \union Ceros /\ Propios \cap Ceros = {}
           /\ \A r \in Todos : De(r) \in SegmentoR
           /\ \A r \in Ceros : De(r) = Cero
           /\ \A r \in Propios : De(r).tam # 0 /\ De(r).id \in Ids
<1>1. \A p \in DOMAIN tabla : 1 .. Len(tabla[p]) = (2 .. Len(tabla[p])) \union {1}
  <2> SUFFICES ASSUME NEW p \in DOMAIN tabla
               PROVE  1 .. Len(tabla[p]) = (2 .. Len(tabla[p])) \union {1}
    OBVIOUS
  <2>1. PICK n \in Nat \ {0} : n = Len(tabla[p])
    BY LasTablas
  <2>2. 1 .. n = (2 .. n) \union {1}
    BY <2>1
  <2> QED BY <2>1, <2>2
<1>2. ASSUME NEW r PROVE r \in Todos <=> r \in Propios \/ r \in Ceros
  <2>1. r \in Todos <=> \E p \in DOMAIN tabla : \E j \in 1 .. Len(tabla[p]) : r = <<p, j>>
    BY LasTablas DEF Todos
  <2>2. r \in Propios <=> \E p \in DOMAIN tabla : \E j \in 2 .. Len(tabla[p]) : r = <<p, j>>
    BY DEF Propios
  <2>3. r \in Ceros <=> \E p \in DOMAIN tabla : r = <<p, 1>>
    BY DEF Ceros
  <2> QED BY <1>1, <2>1, <2>2, <2>3
<1>3. Propios \cap Ceros = {}
  BY DEF Propios, Ceros
<1>4. \A r \in Todos : De(r) \in SegmentoR
  BY LasTablas DEF Todos, De
<1>5. \A r \in Ceros : De(r) = Cero
  BY LasTablas DEF Ceros, De, TablaBien
<1>6. \A r \in Propios : De(r).tam # 0 /\ De(r).id \in Ids
  BY LasTablas DEF Propios, De, TablaBien
<1> QED BY <1>2, <1>3, <1>4, <1>5, <1>6

\* There are finitely many segments.
LEMMA TodosFinito ==
    ASSUME TablasBien
    PROVE  IsFiniteSet(Todos)
<1> DEFINE fila(p) == {<<p, j>> : j \in DOMAIN tabla[p]}
           filas == {fila(p) : p \in DOMAIN tabla}
<1>1. \A T \in filas : IsFiniteSet(T)
  <2> SUFFICES ASSUME NEW p \in DOMAIN tabla PROVE IsFiniteSet(fila(p))
    OBVIOUS
  <2>1. PICK n \in Nat : DOMAIN tabla[p] = 1 .. n
    BY LasTablas
  <2> DEFINE f == [j \in 1 .. n |-> <<p, j>>]
  <2>2. f \in Surjection(1 .. n, fila(p))
    BY <2>1 DEF Surjection
  <2> HIDE DEF f, fila
  <2> QED BY <2>2, Finitos, FS_Surjection
<1>2. IsFiniteSet(filas)
  <2>1. PICK n \in Nat : DOMAIN tabla = 1 .. n
    BY LasTablas
  <2> DEFINE f == [p \in 1 .. n |-> fila(p)]
  <2>2. f \in Surjection(1 .. n, filas)
    BY <2>1 DEF Surjection
  <2> HIDE DEF f, filas
  <2> QED BY <2>2, Finitos, FS_Surjection
<1>3. Todos = UNION filas
  BY DEF Todos
<1> HIDE DEF filas
<1> QED BY <1>1, <1>2, <1>3, FS_UNION

\* Segments that do not overlap are taken in the order of their bases, and the
\* segments 0 before all others, in the order of their processes.
LEMMA Bases ==
    ASSUME TablasBien, SinSolapes, Config
    PROVE  /\ \A r \in Todos : De(r).base \in Nat /\ r[1] \in Nat
           /\ \A r \in Ceros : De(r).base = 0
           /\ \A r \in Propios : De(r).base > 0
           /\ \A r, q \in Propios : r # q => De(r).base # De(q).base
           /\ \A r, q \in Ceros : r # q => r[1] # q[1]
<1>0. TamSegmento \in Nat /\ TamMemoria \in Nat /\ TamSegmento > 0
  BY TamaniosAssumption DEF Config
<1>1. \A r \in Todos : De(r).base \in Nat /\ r[1] \in Nat
  <2>1. \A r \in Todos : r[1] \in DOMAIN tabla
    BY DEF Todos
  <2> QED BY <2>1, LasTablas, TodosSon DEF SegmentoR
<1>2. \A r \in Ceros : De(r).base = 0
  BY TodosSon DEF Cero, Segmento
<1>3. \A r \in Propios : De(r).base \in Hasta(De(r))
  <2> SUFFICES ASSUME NEW r \in Propios PROVE De(r).base \in Hasta(De(r))
    OBVIOUS
  <2>1. De(r) \in SegmentoR /\ De(r).tam # 0
    BY TodosSon
  <2>2. PICK b \in Nat, t \in Nat \ {0} : b = De(r).base /\ t = De(r).tam
    BY <2>1 DEF SegmentoR
  <2>3. b \in b .. b + t - 1
    BY <2>2
  <2> QED BY <2>2, <2>3 DEF Hasta
<1>4. \A r \in Propios : De(r).base > 0
  <2> SUFFICES ASSUME NEW r \in Propios PROVE De(r).base > 0
    OBVIOUS
  <2>1. De(r).base \in TamSegmento .. TamMemoria - 1
    BY <1>3 DEF SinSolapes
  <2> QED BY <1>0, <2>1
<1>5. \A r, q \in Propios : r # q => De(r).base # De(q).base
  BY <1>3 DEF SinSolapes
<1>6. \A r, q \in Ceros : r # q => r[1] # q[1]
  BY DEF Ceros
<1> QED BY <1>1, <1>2, <1>4, <1>5, <1>6

\* Antes is a strict total order, with the segments 0 first.
LEMMA OrdenTotal ==
    ASSUME TablasBien, SinSolapes, Config
    PROVE  /\ \A r, q \in Todos : r # q => Antes(r, q) \/ Antes(q, r)
           /\ \A r \in Todos : ~Antes(r, r)
           /\ \A r, q, t \in Todos : Antes(r, q) /\ Antes(q, t) => Antes(r, t)
           /\ \A r \in Ceros, q \in Propios : Antes(r, q) /\ ~Antes(q, r)
           /\ \A r, q \in Ceros : Antes(r, q) <=> r[1] < q[1]
           /\ \A r, q \in Propios : Antes(r, q) <=> De(r).base < De(q).base
<1>1. \A r, q : Antes(r, q) <=> De(r).base < De(q).base \/ (De(r).base = De(q).base /\ r[1] < q[1])
  BY DEF Antes, De
<1>2. /\ \A r \in Todos : De(r).base \in Nat /\ r[1] \in Nat
      /\ \A r \in Ceros : De(r).base = 0
      /\ \A r \in Propios : De(r).base > 0
      /\ \A r, q \in Propios : r # q => De(r).base # De(q).base
      /\ \A r, q \in Ceros : r # q => r[1] # q[1]
  BY Bases
<1>3. Todos = Propios \union Ceros
  BY TodosSon
<1>4. \A r, q \in Todos : r # q => Antes(r, q) \/ Antes(q, r)
  BY <1>1, <1>2, <1>3
<1>5. \A r \in Todos : ~Antes(r, r)
  BY <1>1, <1>2
<1>6. \A r, q, t \in Todos : Antes(r, q) /\ Antes(q, t) => Antes(r, t)
  BY <1>1, <1>2
<1>7. \A r \in Ceros, q \in Propios : Antes(r, q) /\ ~Antes(q, r)
  BY <1>1, <1>2, <1>3
<1>8. \A r, q \in Ceros : Antes(r, q) <=> r[1] < q[1]
  BY <1>1, <1>2, <1>3
<1>9. \A r, q \in Propios : Antes(r, q) <=> De(r).base < De(q).base
  BY <1>1, <1>2, <1>3
<1> QED BY <1>4, <1>5, <1>6, <1>7, <1>8, <1>9

\* The places: every segment has its own, and every place its segment.
Lugares(N) ==
    /\ N \in Nat
    /\ \A r \in Todos : Lugar(r) \in 1 .. N
    /\ \A r, q \in Todos : Antes(r, q) => Lugar(r) < Lugar(q)
    /\ \A k \in 1 .. N : \E r \in Todos : Lugar(r) = k

\* By rank, each segment has a place of its own.
LEMMA HayLugares ==
    ASSUME TablasBien, SinSolapes, Config
    PROVE  Lugares(Cardinality(Todos))
<1> DEFINE A(r) == {q \in Todos : Antes(q, r)}
<1>0. PICK T : T = Todos
  OBVIOUS
<1>1. IsFiniteSet(T) /\ Cardinality(T) \in Nat
  BY <1>0, TodosFinito, FS_CardinalityType
<1>2. PICK N \in Nat : N = Cardinality(T)
  BY <1>1
<1>3. \A r \in T : /\ A(r) \in SUBSET T /\ IsFiniteSet(A(r)) /\ Cardinality(A(r)) \in Nat
                   /\ Lugar(r) = 1 + Cardinality(A(r))
  <2> SUFFICES ASSUME NEW r \in T
               PROVE  /\ A(r) \in SUBSET T /\ IsFiniteSet(A(r)) /\ Cardinality(A(r)) \in Nat
                      /\ Lugar(r) = 1 + Cardinality(A(r))
    OBVIOUS
  <2>1. A(r) \in SUBSET T
    BY <1>0
  <2>2. Lugar(r) = 1 + Cardinality(A(r))
    BY DEF Lugar
  <2> HIDE DEF A
  <2> QED BY <1>1, <2>1, <2>2, FS_Subset, FS_CardinalityType
<1>4. ASSUME NEW r \in T, NEW q \in T, Antes(r, q) PROVE Lugar(r) < Lugar(q)
  <2>1. A(r) \union {r} \in SUBSET A(q) /\ r \notin A(r)
    BY <1>0, <1>4, OrdenTotal
  <2> HIDE DEF A
  <2>2. Cardinality(A(r) \union {r}) = Cardinality(A(r)) + 1
    BY <1>3, <2>1, FS_AddElement
  <2>3. Cardinality(A(r) \union {r}) <= Cardinality(A(q))
    BY <1>3, <2>1, FS_Subset
  <2> QED BY <1>3, <2>2, <2>3
<1>5. ASSUME NEW r \in T PROVE Lugar(r) \in 1 .. N
  <2>1. A(r) \union {r} \in SUBSET T /\ r \notin A(r)
    BY <1>0, OrdenTotal
  <2> HIDE DEF A
  <2>2. Cardinality(A(r) \union {r}) = Cardinality(A(r)) + 1
    BY <1>3, <2>1, FS_AddElement
  <2>3. Cardinality(A(r) \union {r}) <= N
    BY <1>1, <1>2, <2>1, FS_Subset
  <2> QED BY <1>3, <2>2, <2>3
<1> HIDE DEF A
<1> DEFINE f == [r \in T |-> Lugar(r)]
<1>6. f \in Injection(T, 1 .. N)
  <2>1. f \in [T -> 1 .. N]
    BY <1>5
  <2>2. ASSUME NEW r \in T, NEW q \in T, r # q PROVE f[r] # f[q]
    <3>1. Lugar(r) < Lugar(q) \/ Lugar(q) < Lugar(r)
      BY <1>0, <1>4, <2>2, OrdenTotal
    <3>2. Lugar(r) \in Int /\ Lugar(q) \in Int
      BY <1>3
    <3> QED BY <3>1, <3>2
  <2> HIDE DEF f
  <2> QED BY <2>1, <2>2 DEF Injection, IsInjective
<1>7. f \in Surjection(T, 1 .. N)
  <2> HIDE DEF f
  <2>1. PICK I : I = 1 .. N
    OBVIOUS
  <2>2. IsFiniteSet(I) /\ Cardinality(I) = N /\ f \in Injection(T, I)
    BY <1>6, <2>1, Finitos
  <2>3. Cardinality(T) = Cardinality(I) <=> f \in Surjection(T, I)
    BY <2>2, FS_Injection
  <2> QED BY <1>2, <2>1, <2>2, <2>3
<1>8. \A k \in 1 .. N : \E r \in T : Lugar(r) = k
  BY <1>7 DEF Surjection
<1> QED BY <1>0, <1>2, <1>4, <1>5, <1>8 DEF Lugares

\* PorBase lists each segment at its place.
LEMMA PorBaseEs ==
    ASSUME NEW N, N = Cardinality(Todos), Lugares(N)
    PROVE  /\ PorBase \in Seq(Todos) /\ Len(PorBase) = N
           /\ \A k \in 1 .. N : PorBase[k] \in Todos /\ Lugar(PorBase[k]) = k
<1>1. \A k \in 1 .. N : LET r == CHOOSE r \in Todos : Lugar(r) = k
                        IN  r \in Todos /\ Lugar(r) = k
  BY DEF Lugares
<1>2. PorBase = [k \in 1 .. N |-> CHOOSE r \in Todos : Lugar(r) = k]
  BY DEF PorBase
<1>3. \A k \in 1 .. N : PorBase[k] \in Todos /\ Lugar(PorBase[k]) = k
  BY <1>1, <1>2
<1>4. PorBase \in [1 .. N -> Todos] /\ N \in Nat
  BY <1>2, <1>3 DEF Lugares
<1> HIDE DEF PorBase
<1> QED BY <1>3, <1>4, EsLista

\* The segments 0 come first.
LEMMA LugarDeCero ==
    ASSUME TablasBien, SinSolapes, Config, NEW p \in DOMAIN tabla
    PROVE  Lugar(<<p, 1>>) = p
<1> DEFINE A == {q \in Todos : Antes(q, <<p, 1>>)}
           f == [i \in 1 .. p - 1 |-> <<i, 1>>]
<1>1. p \in Nat /\ 1 <= p /\ p <= Len(tabla) /\ Len(tabla) \in Nat /\ DOMAIN tabla = 1 .. Len(tabla)
  BY LasTablas
<1>2. A = {<<i, 1>> : i \in 1 .. p - 1}
  <2>1. <<p, 1>> \in Ceros
    BY DEF Ceros
  <2>2. \A q \in Todos : Antes(q, <<p, 1>>) <=> q \in Ceros /\ q[1] < p
    BY <2>1, OrdenTotal, TodosSon
  <2>3. ASSUME NEW q PROVE q \in Ceros /\ q[1] < p <=> \E i \in 1 .. p - 1 : q = <<i, 1>>
    <3>1. q \in Ceros <=> \E i \in 1 .. Len(tabla) : q = <<i, 1>>
      BY <1>1 DEF Ceros
    <3>2. \A i \in 1 .. Len(tabla) : i < p <=> i \in 1 .. p - 1
      BY <1>1
    <3>3. \A i \in 1 .. p - 1 : i \in 1 .. Len(tabla)
      BY <1>1
    <3> QED BY <3>1, <3>2, <3>3
  <2>4. Ceros \subseteq Todos
    BY TodosSon
  <2> QED BY <2>2, <2>3, <2>4
<1>3. f \in Bijection(1 .. p - 1, A)
  <2>1. f \in [1 .. p - 1 -> A] /\ \A i, k \in 1 .. p - 1 : f[i] = f[k] => i = k
    BY <1>2
  <2>2. \A a \in A : \E i \in 1 .. p - 1 : f[i] = a
    BY <1>2
  <2> HIDE DEF f, A
  <2> QED BY <2>1, <2>2 DEF Bijection, Injection, Surjection, IsInjective
<1>4. p - 1 \in Nat
  BY <1>1
<1>5. Cardinality(A) = p - 1
  <2>1. PICK I : I = 1 .. p - 1
    OBVIOUS
  <2> HIDE DEF f, A
  <2>2. IsFiniteSet(I) /\ Cardinality(I) = p - 1 /\ ExistsBijection(I, A)
    BY <1>3, <1>4, <2>1, Finitos DEF ExistsBijection
  <2> QED BY <2>2, FS_Bijection
<1> QED BY <1>1, <1>5 DEF Lugar

\* What the compaction moves: the segments that are not 0, by base.
EnOrden(am, M) ==
    /\ M \in Nat /\ Len(am) = M /\ DOMAIN am = 1 .. M
    /\ \A i \in 1 .. M : am[i] \in Propios
    /\ \A r \in Propios : \E i \in 1 .. M : am[i] = r
    /\ \A i, k \in 1 .. M : i < k => De(am[i]).base < De(am[k]).base

\* compactar_tabla_general moves those that are not 0, in order of their
\* bases.
LEMMA LosQueSeMueven ==
    ASSUME TablasBien, SinSolapes, Config
    PROVE  \E M : EnOrden(AMover, M)
<1>1. PICK N : N = Cardinality(Todos) /\ Lugares(N)
  BY SMTT(30), HayLugares
<1>2. PICK n \in Nat : n = Len(tabla) /\ DOMAIN tabla = 1 .. n
  BY LasTablas
<1>3. /\ PorBase \in Seq(Todos) /\ Len(PorBase) = N
      /\ \A k \in 1 .. N : PorBase[k] \in Todos /\ Lugar(PorBase[k]) = k
  BY <1>1, PorBaseEs
<1>4. N \in Nat /\ (\A r \in Todos : Lugar(r) \in 1 .. N)
      /\ \A r, q \in Todos : Antes(r, q) => Lugar(r) < Lugar(q)
  BY <1>1 DEF Lugares
<1>5. \A r \in Ceros : \E p \in 1 .. n : r = <<p, 1>> /\ Lugar(r) = p
  BY <1>2, LugarDeCero DEF Ceros
<1>6. n <= N
  <2>1. CASE n = 0
    BY <1>4, <2>1
  <2>2. CASE n # 0
    <3>1. n \in DOMAIN tabla
      BY <1>2, <2>2
    <3>2. <<n, 1>> \in Todos /\ Lugar(<<n, 1>>) = n
      BY <3>1, LugarDeCero, TodosSon DEF Ceros
    <3>3. n \in 1 .. N
      BY <1>4, <3>2
    <3> QED BY <1>4, <3>3
  <2> QED BY <2>1, <2>2
<1>7. \A r, q \in Todos : Lugar(r) = Lugar(q) => r = q
  <2> SUFFICES ASSUME NEW r \in Todos, NEW q \in Todos, Lugar(r) = Lugar(q), r # q PROVE FALSE
    OBVIOUS
  <2>1. Lugar(r) < Lugar(q) \/ Lugar(q) < Lugar(r)
    BY <1>4, OrdenTotal
  <2>2. Lugar(r) \in 1 .. N /\ Lugar(q) \in 1 .. N
    BY <1>4
  <2>3. Lugar(r) \in Int
    BY <1>4, <2>2
  <2> QED BY <2>1, <2>3
<1>8. \A r \in Propios : Lugar(r) > n
  <2> SUFFICES ASSUME NEW r \in Propios, ~(Lugar(r) > n) PROVE FALSE
    OBVIOUS
  <2>1. r \in Todos /\ Lugar(r) \in 1 .. n
    BY <1>4, TodosSon
  <2>2. PICK p \in DOMAIN tabla : p = Lugar(r)
    BY <1>2, <2>1
  <2>3. <<p, 1>> \in Ceros /\ Lugar(<<p, 1>>) = p /\ <<p, 1>> \in Todos
    BY LugarDeCero, TodosSon DEF Ceros
  <2>4. r = <<p, 1>>
    BY <1>7, <2>1, <2>2, <2>3
  <2> QED BY <2>3, <2>4, TodosSon
<1>9. AMover = SubSeq(PorBase, n + 1, N)
  BY <1>2, <1>3 DEF AMover, CuantosCero
<1> DEFINE M == N - n
           am == [i \in 1 .. M |-> PorBase[n + i]]
<1>10. \A i \in 1 .. M : n + i \in 1 .. N
  BY <1>4, <1>6
<1>11. M \in Nat
  BY <1>4, <1>6
<1>12. am \in [1 .. M -> Todos]
  BY <1>3, <1>10
<1>13. AMover = am
  <2>1. PICK pb : pb = PorBase
    OBVIOUS
  <2>2. SubSeq(pb, n + 1, N) = [i \in 1 .. N - (n + 1) + 1 |-> pb[i + (n + 1) - 1]]
    <3>1. N \in Int /\ n \in Int
      BY <1>4
    <3> HIDE DEF M, am
    <3> QED BY <3>1
  <2>3. N - (n + 1) + 1 = M /\ \A i \in 1 .. M : i + (n + 1) - 1 = n + i
    BY <1>4
  <2> QED BY <1>9, <2>1, <2>2, <2>3
<1>14. Len(am) = M /\ DOMAIN am = 1 .. M
  <2> HIDE DEF M
  <2>1. DOMAIN am = 1 .. M
    OBVIOUS
  <2> HIDE DEF am
  <2> QED BY <1>11, <1>12, <2>1, EsLista
<1>15. \A i \in 1 .. M : am[i] \in Todos /\ Lugar(am[i]) = n + i
  BY <1>3, <1>10
<1> HIDE DEF am
<1>16. \A i \in 1 .. M : am[i] \in Propios
  <2> SUFFICES ASSUME NEW i \in 1 .. M, am[i] \in Ceros PROVE FALSE
    BY <1>15, TodosSon
  <2>1. Lugar(am[i]) \in 1 .. n /\ Lugar(am[i]) = n + i
    BY <1>5, <1>15
  <2> QED BY <1>4, <2>1
<1>17. \A r \in Propios : \E i \in 1 .. M : am[i] = r
  <2> SUFFICES ASSUME NEW r \in Propios PROVE \E i \in 1 .. M : am[i] = r
    OBVIOUS
  <2>1. r \in Todos /\ Lugar(r) \in 1 .. N /\ Lugar(r) > n
    BY <1>4, <1>8, TodosSon
  <2>2. PICK i \in 1 .. M : n + i = Lugar(r)
    <3>1. Lugar(r) - n \in 1 .. M /\ n + (Lugar(r) - n) = Lugar(r)
      BY <1>4, <2>1
    <3> QED BY <3>1
  <2> QED BY <1>7, <1>15, <2>1, <2>2
<1>18. ASSUME NEW i \in 1 .. M, NEW k \in 1 .. M, i < k
       PROVE  De(am[i]).base < De(am[k]).base
  <2>1. am[i] # am[k] /\ ~(Lugar(am[k]) < Lugar(am[i]))
    BY <1>4, <1>15, <1>18
  <2>2. Antes(am[i], am[k])
    BY <1>4, <1>15, <2>1, OrdenTotal
  <2> QED BY <1>16, <2>2, OrdenTotal
<1>19. EnOrden(am, M)
  BY <1>11, <1>14, <1>16, <1>17, <1>18 DEF EnOrden
<1> QED BY <1>13, <1>19

-----------------------------------------------------------------------------
(* Where the compaction puts the segments.                                     *)

\* The pieces s, moved together one after the other from TamSegmento: b is
\* where each one goes.
Corridas(s, M, b) ==
    /\ b \in [1 .. M + 1 -> Nat]
    /\ b[1] = TamSegmento
    /\ \A k \in 1 .. M : b[k + 1] = b[k] + s[k].tam /\ b[k] <= s[k].base
    /\ b[M + 1] = TamSegmento + Cardinality(Cubre(s))
BasesCorridas(s, M, b) ==
    \A k \in 1 .. M + 1 : b[k] = TamSegmento + SumaDe([i \in 1 .. k - 1 |-> s[i]])

Aparte(s, M) ==
    /\ s \in [1 .. M -> SegmentoR]
    /\ \A k \in 1 .. M : s[k].tam # 0
    /\ Separados(s) /\ Cubre(s) \subseteq TamSegmento .. TamMemoria - 1
    /\ \A i, k \in 1 .. M : i < k => s[i].base < s[k].base

\* The first k - 1 segments of a list that do not overlap add up to what they
\* cover.
LEMMA Prefijos ==
    ASSUME NEW M \in Nat, NEW s, Aparte(s, M), NEW k \in 1 .. M + 1
    PROVE  LET p == [i \in 1 .. k - 1 |-> s[i]]
           IN  /\ SumaDe(p) = Cardinality(Cubre(p)) /\ SumaDe(p) \in Nat
               /\ IsFiniteSet(Cubre(p))
               /\ Cubre(p) = UNION {Hasta(s[i]) : i \in 1 .. k - 1}
               /\ Cubre(p) \subseteq Cubre(s)
<1> DEFINE p == [i \in 1 .. k - 1 |-> s[i]]
<1>1. k \in Int /\ M \in Int /\ 1 <= k /\ k <= M + 1 /\ TamMemoria \in Nat /\ TamSegmento \in Nat
  BY TamaniosAssumption
<1>2. k - 1 \in Nat /\ \A i \in 1 .. k - 1 : i \in 1 .. M
  BY <1>1
<1>3. \A i \in 1 .. M : s[i].base \in Nat /\ s[i].tam \in Nat
  BY <1>1 DEF Aparte, SegmentoR
<1>4. DOMAIN p = 1 .. k - 1 /\ \A i \in 1 .. k - 1 : p[i] = s[i]
  OBVIOUS
<1> HIDE DEF p
<1>5. Piezas(p)
  BY <1>2, <1>3, <1>4 DEF Piezas
<1>6. DOMAIN s = 1 .. M
  BY DEF Aparte
<1>7. Separados(p)
  BY <1>2, <1>4, <1>6 DEF Aparte, Separados
<1>8. Cubre(p) = UNION {Hasta(s[i]) : i \in 1 .. k - 1}
  BY <1>4 DEF Cubre
<1>9. Cubre(p) \subseteq Cubre(s)
  BY <1>2, <1>6, <1>8 DEF Cubre
<1>10. Cubre(p) \subseteq 0 .. TamMemoria
  <2>1. \A a \in TamSegmento .. TamMemoria - 1 : a \in 0 .. TamMemoria
    BY <1>1
  <2> QED BY <1>9, <2>1 DEF Aparte
<1>11. SumaDe(p) = Cardinality(Cubre(p)) /\ IsFiniteSet(Cubre(p)) /\ SumaDe(p) \in Nat
  <2>1. PICK n \in Nat : n = k - 1 /\ DOMAIN p = 1 .. n
    BY <1>2, <1>4
  <2> QED BY <1>1, <1>5, <1>7, <1>10, <2>1, SumaCuenta
<1> QED BY <1>8, <1>9, <1>11 DEF p

\* The running sum of the sizes gives the new bases, one after another.
LEMMA HayCorridas ==
    ASSUME NEW M \in Nat, NEW s, Aparte(s, M), Config
    PROVE  \E b : Corridas(s, M, b) /\ BasesCorridas(s, M, b)
<1> DEFINE P(k) == [i \in 1 .. k - 1 |-> s[i]]
           C(k) == UNION {Hasta(s[i]) : i \in 1 .. k - 1}
           b == [k \in 1 .. M + 1 |-> TamSegmento + SumaDe(P(k))]
<1>0. TamMemoria \in Nat /\ TamSegmento \in Nat /\ M \in Int
  BY TamaniosAssumption
<1>1. \A k \in 1 .. M + 1 : /\ SumaDe(P(k)) = Cardinality(C(k)) /\ SumaDe(P(k)) \in Nat
                            /\ IsFiniteSet(C(k)) /\ C(k) \subseteq Cubre(s)
  <2> SUFFICES ASSUME NEW k \in 1 .. M + 1
               PROVE  /\ SumaDe(P(k)) = Cardinality(C(k)) /\ SumaDe(P(k)) \in Nat
                      /\ IsFiniteSet(C(k)) /\ C(k) \subseteq Cubre(s)
    OBVIOUS
  <2>1. PICK p : p = P(k)
    OBVIOUS
  <2>2. /\ SumaDe(p) = Cardinality(Cubre(p)) /\ SumaDe(p) \in Nat
        /\ IsFiniteSet(Cubre(p)) /\ Cubre(p) = C(k) /\ Cubre(p) \subseteq Cubre(s)
    BY <2>1, Prefijos
  <2> HIDE DEF C, P
  <2> QED BY <2>1, <2>2
<1>2. BasesCorridas(s, M, b)
  BY DEF BasesCorridas
<1> HIDE DEF P
<1>3. \A k \in 1 .. M + 1 : b[k] = TamSegmento + Cardinality(C(k)) /\ Cardinality(C(k)) \in Nat
  <2> HIDE DEF C
  <2> QED BY <1>1
<1>4. b \in [1 .. M + 1 -> Nat]
  <2> HIDE DEF P, C
  <2>1. \A k \in 1 .. M + 1 : TamSegmento + SumaDe(P(k)) \in Nat
    BY <1>0, <1>1
  <2> QED BY <2>1
<1> HIDE DEF b
<1>5. b[1] = TamSegmento
  <2>1. C(1) = {} /\ 1 \in 1 .. M + 1
    BY <1>0
  <2> HIDE DEF C
  <2> QED BY <1>0, <1>3, <2>1, FS_EmptySet
<1>6. \A k \in 1 .. M : s[k].base \in Nat /\ s[k].tam \in Nat \ {0} /\ s[k].base \in Hasta(s[k])
  <2> SUFFICES ASSUME NEW k \in 1 .. M
               PROVE  s[k].base \in Nat /\ s[k].tam \in Nat \ {0} /\ s[k].base \in Hasta(s[k])
    OBVIOUS
  <2>1. s[k] \in SegmentoR /\ s[k].tam # 0
    BY DEF Aparte
  <2>2. PICK x \in Nat, t \in Nat \ {0} : x = s[k].base /\ t = s[k].tam
    BY <1>0, <2>1 DEF SegmentoR
  <2>3. x \in x .. x + t - 1
    BY <2>2
  <2> QED BY <2>2, <2>3 DEF Hasta
<1>7. ASSUME NEW k \in 1 .. M PROVE b[k + 1] = b[k] + s[k].tam
  <2>0. k \in Int /\ 1 <= k /\ k <= M
    OBVIOUS
  <2>1. 1 .. (k + 1) - 1 = (1 .. k - 1) \union {k}
    BY <2>0
  <2>2. C(k + 1) = C(k) \union Hasta(s[k])
    BY <2>1
  <2>3. \A i \in 1 .. k - 1 : i \in 1 .. M /\ i # k
    BY <2>0
  <2>4. C(k) \cap Hasta(s[k]) = {}
    <3>1. \A i \in 1 .. k - 1 : Hasta(s[i]) \cap Hasta(s[k]) = {}
      BY <2>3 DEF Aparte, Separados
    <3> QED BY <3>1
  <2>5. IsFiniteSet(Hasta(s[k])) /\ Cardinality(Hasta(s[k])) = s[k].tam
    BY <1>6, CuantoCubre
  <2>6. k \in 1 .. M + 1 /\ k + 1 \in 1 .. M + 1
    BY <1>0, <2>0
  <2>7. IsFiniteSet(C(k))
    BY <1>1, <2>6
  <2>8. b[k] = TamSegmento + Cardinality(C(k)) /\ b[k + 1] = TamSegmento + Cardinality(C(k + 1))
        /\ Cardinality(C(k)) \in Nat
    BY <1>3, <2>6
  <2> HIDE DEF C
  <2>9. Cardinality(C(k) \cap Hasta(s[k])) = 0
    BY <2>4, FS_EmptySet
  <2>10. Cardinality(C(k + 1)) = Cardinality(C(k)) + s[k].tam - 0
    BY <2>2, <2>5, <2>7, <2>9, FS_Union
  <2> QED BY <1>0, <1>6, <2>8, <2>10
<1>8. ASSUME NEW k \in 1 .. M PROVE b[k] <= s[k].base
  <2>0. k \in Int /\ 1 <= k /\ k <= M
    OBVIOUS
  <2>1. PICK x \in Nat : x = s[k].base /\ x \in Hasta(s[k])
    BY <1>6
  <2>2. C(k) \subseteq TamSegmento .. x - 1
    <3>1. ASSUME NEW i \in 1 .. k - 1, NEW a \in Hasta(s[i]) PROVE a \in TamSegmento .. x - 1
      <4>0. i \in 1 .. M /\ i < k /\ i # k
        BY <2>0
      <4>1. PICK y \in Nat, t \in Nat : y = s[i].base /\ t = s[i].tam
        BY <1>6, <4>0
      <4>2. y < x /\ Hasta(s[i]) = y .. y + t - 1
        BY <2>1, <4>0, <4>1 DEF Aparte, Hasta
      <4>3. x \notin y .. y + t - 1
        <5>1. Hasta(s[i]) \cap Hasta(s[k]) = {}
          BY <4>0 DEF Aparte, Separados
        <5> QED BY <2>1, <4>2, <5>1
      <4>4. a \in y .. y + t - 1 /\ a \in Int
        BY <4>2
      <4>5. a \in TamSegmento .. TamMemoria - 1
        <5>1. i \in DOMAIN s
          BY <4>0 DEF Aparte
        <5>2. a \in Cubre(s)
          BY <5>1 DEF Cubre
        <5> QED BY <5>2 DEF Aparte
      <4>6. a < x
        BY <4>2, <4>3, <4>4
      <4> QED BY <1>0, <2>1, <4>4, <4>5, <4>6
    <3> QED BY <3>1
  <2>3. x \in TamSegmento .. TamMemoria - 1
    <3>1. k \in DOMAIN s
      BY DEF Aparte
    <3> QED BY <2>1, <3>1 DEF Aparte, Cubre
  <2>4. IsFiniteSet(TamSegmento .. x - 1) /\ Cardinality(TamSegmento .. x - 1) = x - TamSegmento
    <3>1. /\ IsFiniteSet(TamSegmento .. x - 1)
          /\ Cardinality(TamSegmento .. x - 1) =
               IF TamSegmento > x - 1 THEN 0 ELSE x - 1 - TamSegmento + 1
      BY <1>0, FS_Interval
    <3> QED BY <1>0, <2>3, <3>1
  <2>5. k \in 1 .. M + 1
    BY <1>0, <2>0
  <2> HIDE DEF C
  <2>6. Cardinality(C(k)) <= x - TamSegmento
    <3>1. PICK I : I = TamSegmento .. x - 1
      OBVIOUS
    <3>2. IsFiniteSet(I) /\ C(k) \in SUBSET I /\ Cardinality(I) = x - TamSegmento
      BY <2>2, <2>4, <3>1
    <3> QED BY <3>2, FS_Subset
  <2> QED BY <1>0, <1>3, <2>1, <2>5, <2>6
<1>9. b[M + 1] = TamSegmento + Cardinality(Cubre(s))
  <2>1. (M + 1) - 1 = M /\ M + 1 \in 1 .. M + 1
    BY <1>0
  <2>2. C(M + 1) = Cubre(s)
    BY <2>1 DEF Cubre, Aparte
  <2> HIDE DEF C
  <2> QED BY <1>3, <2>1, <2>2
<1> QED BY <1>2, <1>4, <1>5, <1>7, <1>8, <1>9 DEF Corridas

\* The new places: one after the other, they fill what is from TamSegmento to
\* the last one.
LEMMA Contiguas ==
    ASSUME NEW M \in Nat, NEW s, Aparte(s, M), NEW b, Corridas(s, M, b)
    PROVE  /\ \A i, k \in 1 .. M + 1 : i < k => b[i + 1] <= b[k]
           /\ UNION {b[i] .. b[i + 1] - 1 : i \in 1 .. M} = TamSegmento .. b[M + 1] - 1
<1>0. TamSegmento \in Nat /\ M \in Int /\ b[1] = TamSegmento
      /\ \A k \in 1 .. M : b[k] \in Nat /\ b[k + 1] \in Nat /\ b[k] <= b[k + 1]
  <2>1. b \in [1 .. M + 1 -> Nat]
    BY DEF Corridas
  <2>2. ASSUME NEW k \in 1 .. M PROVE b[k] \in Nat /\ b[k + 1] \in Nat /\ b[k] <= b[k + 1]
    <3>1. k \in 1 .. M + 1 /\ k + 1 \in 1 .. M + 1
      OBVIOUS
    <3>2. b[k] \in Nat /\ b[k + 1] \in Nat
      BY <2>1, <3>1
    <3>3. s[k].tam \in Nat /\ b[k + 1] = b[k] + s[k].tam
      BY DEF Aparte, SegmentoR, Corridas
    <3> QED BY <3>2, <3>3
  <2> QED BY <2>2, TamaniosAssumption DEF Corridas
<1> DEFINE Bien(k) == /\ \A i \in 1 .. k - 1 : b[i + 1] <= b[k]
                      /\ UNION {b[i] .. b[i + 1] - 1 : i \in 1 .. k - 1} = TamSegmento .. b[k] - 1
           Malos == {k \in 1 .. M + 1 : ~Bien(k)}
<1>1. SUFFICES ASSUME Malos # {} PROVE FALSE
  <2>1. \A k \in 1 .. M + 1 : Bien(k)
    OBVIOUS
  <2>2. M + 1 \in 1 .. M + 1 /\ (M + 1) - 1 = M
    BY <1>0
  <2>3. \A i, k \in 1 .. M + 1 : i < k => i \in 1 .. k - 1
    OBVIOUS
  <2> QED BY <2>1, <2>2, <2>3
<1>2. PICK k \in Malos : \A j \in Malos : k <= j
  <2>1. Malos \in SUBSET Nat
    OBVIOUS
  <2> HIDE DEF Malos
  <2> QED BY <1>1, <2>1, Primero
<1>3. k # 1
  <2>1. 1 .. 1 - 1 = {} /\ TamSegmento .. TamSegmento - 1 = {}
    BY <1>0
  <2> QED BY <1>0, <2>1
<1>4. PICK j \in 1 .. M : k = j + 1 /\ k - 1 = j /\ Bien(j) /\ j \in Int /\ j < k
  <2>1. k \in Int /\ 1 <= k /\ k <= M + 1
    BY <1>0
  <2>2. k - 1 \in 1 .. M /\ k = (k - 1) + 1 /\ k - 1 \in 1 .. M + 1 /\ ~(k <= k - 1)
    BY <1>0, <1>3, <2>1
  <2>3. k - 1 \notin Malos
    BY <1>2, <2>2
  <2> HIDE DEF Bien
  <2>4. Bien(k - 1)
    BY <2>2, <2>3
  <2> QED BY <2>1, <2>2, <2>4
<1>5. 1 .. j = (1 .. j - 1) \union {j} /\ \A i \in 1 .. j - 1 : i \in 1 .. M
  BY <1>0, <1>4
<1>6. \A i \in 1 .. j : b[i + 1] <= b[j + 1]
  <2>1. \A i \in 1 .. j - 1 : b[i + 1] <= b[j] /\ b[i + 1] \in Nat
    BY <1>0, <1>4, <1>5
  <2>2. b[j] \in Nat /\ b[j + 1] \in Nat /\ b[j] <= b[j + 1]
    BY <1>0
  <2> QED BY <1>5, <2>1, <2>2
<1>7. TamSegmento <= b[j]
  <2>1. CASE j = 1
    BY <1>0, <2>1
  <2>2. CASE j # 1
    <3>1. 1 \in 1 .. j - 1 /\ 1 \in 1 .. M
      BY <1>0, <1>4, <2>2
    <3>2. b[1 + 1] <= b[j] /\ b[1] <= b[1 + 1] /\ b[1 + 1] \in Nat /\ b[j] \in Nat
      BY <1>0, <1>4, <3>1
    <3> QED BY <1>0, <3>2
  <2> QED BY <2>1, <2>2
<1>8. UNION {b[i] .. b[i + 1] - 1 : i \in 1 .. j} = TamSegmento .. b[j + 1] - 1
  <2>1. UNION {b[i] .. b[i + 1] - 1 : i \in 1 .. j} =
           (UNION {b[i] .. b[i + 1] - 1 : i \in 1 .. j - 1}) \union (b[j] .. b[j + 1] - 1)
    BY <1>5
  <2>2. UNION {b[i] .. b[i + 1] - 1 : i \in 1 .. j - 1} = TamSegmento .. b[j] - 1
    BY <1>4
  <2>3. PICK x \in Nat, y \in Nat : x = b[j] /\ y = b[j + 1] /\ TamSegmento <= x /\ x <= y
    BY <1>0, <1>7
  <2>4. (TamSegmento .. x - 1) \union (x .. y - 1) = TamSegmento .. y - 1
    BY <1>0, <2>3
  <2> QED BY <2>1, <2>2, <2>3, <2>4
<1> QED BY <1>2, <1>4, <1>6, <1>8

-----------------------------------------------------------------------------
(* The compaction of the tables and of the holes.                              *)

\* The addresses of the segments that are not 0.
Ocupadas == UNION {Hasta(De(r)) : r \in Propios}
Enteras == TamSegmento .. TamMemoria - 1

\* The holes and these segments share the memory out: no address is lost and
\* none has two owners.
Reparto ==
    /\ huecos \in Seq(HuecoR) /\ Separados(huecos)
    /\ SinSolapes
    /\ Cubre(huecos) = Enteras \ Ocupadas

\* The sizes of separate holes add up to the addresses that they cover.
LEMMA SumaLista ==
    ASSUME NEW l \in Seq(HuecoR), Separados(l), Cubre(l) \subseteq 0 .. TamMemoria - 1
    PROVE  SumaDe(l) = Cardinality(Cubre(l)) /\ IsFiniteSet(Cubre(l)) /\ SumaDe(l) \in Nat
<1>1. TamMemoria \in Nat
  BY TamaniosAssumption
<1>2. PICK n \in Nat : DOMAIN l = 1 .. n /\ \A i \in 1 .. n : l[i] \in HuecoR
  BY ListaDe
<1>3. Piezas(l)
  BY <1>1, <1>2 DEF Piezas, HuecoR
<1>4. Cubre(l) \subseteq 0 .. TamMemoria
  <2>1. \A a \in 0 .. TamMemoria - 1 : a \in 0 .. TamMemoria
    BY <1>1
  <2> QED BY <2>1
<1> QED BY <1>1, <1>2, <1>3, <1>4, SumaCuenta

\* So it is of the table of holes.
LEMMA SumaHuecos ==
    ASSUME Reparto
    PROVE  /\ SumaDe(huecos) = Cardinality(Cubre(huecos)) /\ IsFiniteSet(Cubre(huecos))
           /\ SumaDe(huecos) \in Nat /\ Cubre(huecos) \subseteq 0 .. TamMemoria - 1
<1>1. TamSegmento \in Nat /\ TamMemoria \in Nat
  BY TamaniosAssumption
<1>2. Cubre(huecos) \subseteq 0 .. TamMemoria - 1
  <2>1. \A a \in Enteras : a \in 0 .. TamMemoria - 1
    BY <1>1 DEF Enteras
  <2> QED BY <2>1 DEF Reparto
<1> QED BY <1>2, SumaLista DEF Reparto

Movidas(M, s, b) ==
    /\ EnOrden(AMover, M)
    /\ s = [i \in 1 .. M |-> De(AMover[i])]
    /\ Aparte(s, M) /\ Corridas(s, M, b)
    /\ \A k \in 1 .. M : BaseNueva(k) = b[k]
    /\ Cubre(s) = Ocupadas

\* The compaction is a list of segments, each with its new base.
LEMMA HayMovidas ==
    ASSUME TablasBien, SinSolapes, Config
    PROVE  \E M, s, b : Movidas(M, s, b)
<1>1. PICK M : EnOrden(AMover, M)
  BY LosQueSeMueven
<1>2. PICK am : am = AMover
  OBVIOUS
<1>3. /\ M \in Nat /\ Len(am) = M /\ DOMAIN am = 1 .. M
      /\ \A i \in 1 .. M : am[i] \in Propios
      /\ \A r \in Propios : \E i \in 1 .. M : am[i] = r
      /\ \A i, k \in 1 .. M : i < k => De(am[i]).base < De(am[k]).base
  BY <1>1, <1>2 DEF EnOrden
<1>4. PICK s : s = [i \in 1 .. M |-> De(am[i])]
  OBVIOUS
<1>5. Cubre(s) = Ocupadas
  <2>1. \A a : a \in Cubre(s) <=> \E i \in 1 .. M : a \in Hasta(De(am[i]))
    BY <1>4 DEF Cubre
  <2>2. \A a : a \in Ocupadas <=> \E r \in Propios : a \in Hasta(De(r))
    BY DEF Ocupadas
  <2>3. ASSUME NEW a
        PROVE  (\E i \in 1 .. M : a \in Hasta(De(am[i]))) <=> \E r \in Propios : a \in Hasta(De(r))
    BY <1>3
  <2> QED BY <2>1, <2>2, <2>3
<1>6. Aparte(s, M)
  <2>1. \A r \in Propios : De(r) \in SegmentoR /\ De(r).tam # 0
    BY TodosSon
  <2>2. s \in [1 .. M -> SegmentoR] /\ \A k \in 1 .. M : s[k].tam # 0
    BY <1>3, <1>4, <2>1
  <2>3. \A i, k \in 1 .. M : i < k => s[i].base < s[k].base
    BY <1>3, <1>4
  <2>4. ASSUME NEW i \in 1 .. M, NEW k \in 1 .. M, i # k PROVE am[i] # am[k]
    <3>1. De(am[i]).base < De(am[k]).base \/ De(am[k]).base < De(am[i]).base
      <4>1. i \in Int /\ k \in Int
        OBVIOUS
      <4>2. i < k \/ k < i
        BY <2>4, <4>1
      <4> QED BY <1>3, <4>2
    <3>2. De(am[i]).base \in Int
      BY <1>3, <2>1, TamaniosAssumption DEF SegmentoR
    <3> QED BY <3>1, <3>2
  <2>5. Separados(s)
    <3>1. \A i, k \in 1 .. M : i # k => Hasta(De(am[i])) \cap Hasta(De(am[k])) = {}
      BY <1>3, <2>4 DEF SinSolapes
    <3> QED BY <1>4, <3>1 DEF Separados
  <2>6. Cubre(s) \subseteq TamSegmento .. TamMemoria - 1
    BY <1>5 DEF Ocupadas, SinSolapes
  <2> QED BY <2>2, <2>3, <2>5, <2>6 DEF Aparte
<1>7. PICK b : Corridas(s, M, b) /\ BasesCorridas(s, M, b)
  BY <1>3, <1>6, HayCorridas
<1>8. ASSUME NEW k \in 1 .. M PROVE BaseNueva(k) = b[k]
  <2>1. k \in 1 .. M + 1 /\ \A i \in 1 .. k - 1 : i \in 1 .. M
    BY <1>3
  <2>2. [i \in 1 .. k - 1 |-> tabla[AMover[i][1]][AMover[i][2]]] = [i \in 1 .. k - 1 |-> s[i]]
    BY <1>2, <1>4, <2>1 DEF De
  <2>3. b[k] = TamSegmento + SumaDe([i \in 1 .. k - 1 |-> s[i]])
    BY <1>7, <2>1 DEF BasesCorridas
  <2> QED BY <2>2, <2>3 DEF BaseNueva
<1>9. Movidas(M, s, b)
  BY <1>1, <1>2, <1>4, <1>5, <1>6, <1>7, <1>8 DEF Movidas
<1> QED BY <1>9

\* No segment is moved up, and the next one starts where it ends.
LEMMA BasesMovidas ==
    ASSUME TablasBien, Config, NEW M, NEW s, NEW b, Movidas(M, s, b)
    PROVE  /\ M \in Nat /\ b[M + 1] \in Nat /\ b[M + 1] = TamSegmento + Cardinality(Ocupadas)
           /\ \A k \in 1 .. M : /\ s[k] = De(AMover[k]) /\ s[k] \in SegmentoR
                                /\ b[k] \in Nat /\ b[k] \in 0 .. TamMemoria /\ b[k] <= s[k].base
                                /\ b[k + 1] \in Nat /\ b[k + 1] = b[k] + s[k].tam
<1>1. M \in Nat /\ b \in [1 .. M + 1 -> Nat]
  BY DEF Movidas, EnOrden, Corridas
<1>2. M + 1 \in 1 .. M + 1
  BY <1>1
<1>3. b[M + 1] \in Nat /\ b[M + 1] = TamSegmento + Cardinality(Ocupadas)
  BY <1>1, <1>2 DEF Movidas, Corridas
<1>4. ASSUME NEW k \in 1 .. M
      PROVE  /\ s[k] = De(AMover[k]) /\ s[k] \in SegmentoR
             /\ b[k] \in Nat /\ b[k] \in 0 .. TamMemoria /\ b[k] <= s[k].base
             /\ b[k + 1] \in Nat /\ b[k + 1] = b[k] + s[k].tam
  <2>1. k \in 1 .. M + 1 /\ k + 1 \in 1 .. M + 1
    BY <1>1
  <2>2. s[k] = De(AMover[k]) /\ s[k] \in SegmentoR
    BY DEF Movidas, Aparte
  <2>3. b[k] \in Nat /\ b[k + 1] \in Nat
    BY <1>1, <2>1
  <2>4. b[k] <= s[k].base /\ b[k + 1] = b[k] + s[k].tam
    BY DEF Movidas, Corridas
  <2>5. s[k].base \in 0 .. TamMemoria /\ TamMemoria \in Nat
    BY <2>2, TamaniosAssumption DEF SegmentoR
  <2> QED BY <2>2, <2>3, <2>4, <2>5
<1> QED BY <1>1, <1>3, <1>4

\* Only the bases of the segments that are moved change.
EsMovido(p, j, M, b) ==
    \A k \in 1 .. M : AMover[k] = <<p, j>> =>
        TablaCompactada[p][j] = [tabla[p][j] EXCEPT !.base = b[k]]

\* compactar_tabla_general changes the bases, and only those.
LEMMA TablaMovida ==
    ASSUME TablasBien, SinSolapes, Config, NEW M, NEW s, NEW b, Movidas(M, s, b),
           NEW p \in DOMAIN tabla, NEW j \in DOMAIN tabla[p]
    PROVE  /\ <<p, j>> \in Ceros => TablaCompactada[p][j] = tabla[p][j]
           /\ EsMovido(p, j, M, b)
<1> DEFINE ks == {k \in DOMAIN AMover : AMover[k] = <<p, j>>}
<1>1. TablaCompactada[p][j] = IF ks = {} THEN tabla[p][j]
                              ELSE [tabla[p][j] EXCEPT !.base = BaseNueva(CHOOSE k \in ks : TRUE)]
  BY DEF TablaCompactada
<1>2. PICK am : am = AMover
  OBVIOUS
<1>3. /\ M \in Nat /\ DOMAIN am = 1 .. M
      /\ \A i \in 1 .. M : am[i] \in Propios
      /\ \A i, k \in 1 .. M : i < k => De(am[i]).base < De(am[k]).base
  BY <1>2 DEF Movidas, EnOrden
<1>4. ASSUME <<p, j>> \in Ceros PROVE ks = {}
  <2>1. <<p, j>> \notin Propios
    BY <1>4, TodosSon
  <2> QED BY <1>2, <1>3, <2>1
<1>5. ASSUME NEW k \in 1 .. M, AMover[k] = <<p, j>> PROVE ks = {k}
  <2>1. ASSUME NEW i \in 1 .. M, am[i] = am[k] PROVE i = k
    <3>1. De(am[k]).base \in Int
      BY <1>3, TodosSon, TamaniosAssumption DEF SegmentoR
    <3>2. ~(De(am[k]).base < De(am[k]).base)
      BY <3>1
    <3>3. ~(i < k) /\ ~(k < i) /\ i \in Int /\ k \in Int
      BY <1>3, <2>1, <3>2
    <3> QED BY <3>3
  <2> QED BY <1>2, <1>3, <1>5, <2>1
<1>6. ASSUME NEW k \in 1 .. M, AMover[k] = <<p, j>>
      PROVE  TablaCompactada[p][j] = [tabla[p][j] EXCEPT !.base = b[k]]
  <2>1. ks = {k}
    BY <1>5, <1>6
  <2> HIDE DEF ks
  <2>2. (CHOOSE i \in ks : TRUE) = k /\ ks # {}
    BY <2>1
  <2>3. BaseNueva(k) = b[k]
    BY DEF Movidas
  <2> QED BY <1>1, <2>2, <2>3
<1> HIDE DEF ks
<1> QED BY <1>1, <1>4, <1>6 DEF EsMovido

\* What stays and what changes in the tables.
Bajadas(t, M, s, b) ==
    /\ t \in Seq(Seq(SegmentoR)) /\ Len(t) = Len(tabla) /\ DOMAIN t = DOMAIN tabla
    /\ \A p \in DOMAIN tabla :
          /\ t[p] \in Seq(SegmentoR) /\ Len(t[p]) = Len(tabla[p]) /\ t[p][1] = tabla[p][1]
          /\ \A j \in 1 .. Len(tabla[p]) : t[p][j].id = tabla[p][j].id /\ t[p][j].tam = tabla[p][j].tam
    /\ \A k \in 1 .. M : t[AMover[k][1]][AMover[k][2]].base = b[k]

\* What TablaCompactada is, segment by segment.
LEMMA HayBajadas ==
    ASSUME TablasBien, SinSolapes, Config, NEW M, NEW s, NEW b, Movidas(M, s, b)
    PROVE  Bajadas(TablaCompactada, M, s, b)
<1>1. PICK t : t = TablaCompactada
  OBVIOUS
<1>2. PICK n \in Nat : n = Len(tabla) /\ DOMAIN tabla = 1 .. n /\ DOMAIN t = 1 .. n
  BY <1>1, LasTablas DEF TablaCompactada
<1>3. PICK am : am = AMover
  OBVIOUS
<1>4. /\ M \in Nat
      /\ \A i \in 1 .. M : am[i] \in Propios
      /\ \A r \in Propios : \E i \in 1 .. M : am[i] = r
  BY <1>3 DEF Movidas, EnOrden
<1>5. ASSUME NEW p \in DOMAIN tabla, NEW j \in 1 .. Len(tabla[p])
      PROVE  /\ t[p][j] \in SegmentoR
             /\ t[p][j].id = tabla[p][j].id /\ t[p][j].tam = tabla[p][j].tam
             /\ j = 1 => t[p][j] = tabla[p][j]
             /\ \A k \in 1 .. M : am[k] = <<p, j>> => t[p][j].base = b[k]
  <2>1. j \in DOMAIN tabla[p] /\ tabla[p][j] \in SegmentoR
    BY LasTablas
  <2>2. PICK x, y : x = tabla[p][j] /\ y = t[p][j]
    OBVIOUS
  <2>3. <<p, j>> \in Ceros => y = x
    BY <1>1, <2>1, <2>2, TablaMovida
  <2>4. \A k \in 1 .. M : am[k] = <<p, j>> => y = [x EXCEPT !.base = b[k]]
    <3>1. EsMovido(p, j, M, b)
      BY <2>1, TablaMovida
    <3> QED BY <1>1, <1>3, <2>2, <3>1 DEF EsMovido
  <2>5. <<p, j>> \in Todos
    BY <2>1 DEF Todos
  <2>6. <<p, j>> \in Ceros \/ \E k \in 1 .. M : am[k] = <<p, j>>
    BY <1>4, <2>5, TodosSon
  <2>7. j = 1 => <<p, j>> \in Ceros
    BY DEF Ceros
  <2>8. x \in SegmentoR
    BY <2>1, <2>2
  <2>9. \A k \in 1 .. M : b[k] \in 0 .. TamMemoria
    BY BasesMovidas
  <2>10. ASSUME NEW k \in 1 .. M, am[k] = <<p, j>>
         PROVE  y \in SegmentoR /\ y.id = x.id /\ y.tam = x.tam /\ y.base = b[k]
    <3>1. y = [x EXCEPT !.base = b[k]] /\ b[k] \in 0 .. TamMemoria
      BY <2>4, <2>9, <2>10
    <3> QED BY <2>8, <3>1 DEF SegmentoR
  <2> QED BY <2>2, <2>3, <2>6, <2>7, <2>8, <2>10
<1>6. ASSUME NEW p \in DOMAIN tabla
      PROVE  t[p] \in Seq(SegmentoR) /\ Len(t[p]) = Len(tabla[p]) /\ t[p][1] = tabla[p][1]
  <2>1. PICK m \in Nat \ {0} : m = Len(tabla[p]) /\ DOMAIN tabla[p] = 1 .. m
    BY LasTablas
  <2>2. DOMAIN t[p] = 1 .. m /\ t[p] = [j \in 1 .. m |-> t[p][j]]
    BY <1>1, <2>1 DEF TablaCompactada
  <2>3. t[p] \in [1 .. m -> SegmentoR]
    BY <1>5, <2>1, <2>2
  <2>4. 1 \in 1 .. m
    BY <2>1
  <2> QED BY <1>5, <2>1, <2>3, <2>4, EsLista
<1>7. t \in Seq(Seq(SegmentoR)) /\ Len(t) = n
  <2>1. t = [p \in 1 .. n |-> t[p]]
    BY <1>1, <1>2 DEF TablaCompactada
  <2>2. t \in [1 .. n -> Seq(SegmentoR)]
    BY <1>2, <1>6, <2>1
  <2> QED BY <2>2, EsLista
<1>8. \A k \in 1 .. M : t[am[k][1]][am[k][2]].base = b[k]
  <2> SUFFICES ASSUME NEW k \in 1 .. M PROVE t[am[k][1]][am[k][2]].base = b[k]
    OBVIOUS
  <2>0. PICK p \in DOMAIN tabla : \E j \in 2 .. Len(tabla[p]) : am[k] = <<p, j>>
    BY <1>4 DEF Propios
  <2>1. PICK j \in 2 .. Len(tabla[p]) : am[k] = <<p, j>>
    BY <2>0
  <2>2. j \in 1 .. Len(tabla[p])
    OBVIOUS
  <2>3. t[p][j].base = b[k]
    BY <1>5, <2>1, <2>2
  <2> QED BY <2>1, <2>3
<1> QED BY <1>1, <1>2, <1>3, <1>5, <1>6, <1>7, <1>8 DEF Bajadas

\* The tables are still good tables, of the same segments.
LEMMA TablasBajadas ==
    ASSUME TablasBien, NEW M, NEW s, NEW b, Bajadas(tabla', M, s, b), Movidas(M, s, b),
           NEW am, am = AMover
    PROVE  /\ TablasBien' /\ Propios' = Propios
           /\ \A r \in Propios : De(r)'.id = De(r).id /\ De(r)'.tam = De(r).tam
           /\ \A k \in 1 .. M : De(am[k])'.base = b[k]
<1>1. PICK t : t = tabla'
  OBVIOUS
<1>2. Bajadas(t, M, s, b)
  BY <1>1
<1>3. ASSUME NEW p \in DOMAIN tabla PROVE TablaBien(t[p])
  <2>1. PICK x, y : x = tabla[p] /\ y = t[p]
    OBVIOUS
  <2>2. /\ y \in Seq(SegmentoR) /\ Len(y) = Len(x) /\ y[1] = x[1]
        /\ \A j \in 1 .. Len(x) : y[j].id = x[j].id /\ y[j].tam = x[j].tam
    BY <1>2, <2>1 DEF Bajadas
  <2>3. /\ TablaBien(x) /\ DOMAIN x = 1 .. Len(x) /\ DOMAIN y = 1 .. Len(x)
        /\ \A j \in 2 .. Len(x) : j \in 1 .. Len(x)
    <3>1. Len(x) \in Nat /\ TablaBien(x) /\ DOMAIN x = 1 .. Len(x)
      BY <2>1, LasTablas
    <3>2. DOMAIN y = 1 .. Len(x)
      BY <2>2, ListaDe
    <3>3. \A j \in 2 .. Len(x) : j \in 1 .. Len(x)
      OBVIOUS
    <3> QED BY <3>1, <3>2, <3>3
  <2>4. SinRepetir(y)
    BY <2>2, <2>3 DEF TablaBien, SinRepetir
  <2> QED BY <2>1, <2>2, <2>3, <2>4 DEF TablaBien
<1>4. TablasBien'
  BY <1>1, <1>2, <1>3 DEF TablasBien, Bajadas
<1>5. Propios' = Propios
  <2>1. \A r : r \in Propios <=> \E p \in DOMAIN tabla : \E j \in 2 .. Len(tabla[p]) : r = <<p, j>>
    BY DEF Propios
  <2>2. \A r : r \in Propios' <=> \E p \in DOMAIN t : \E j \in 2 .. Len(t[p]) : r = <<p, j>>
    BY <1>1 DEF Propios
  <2>3. DOMAIN t = DOMAIN tabla /\ \A p \in DOMAIN tabla : Len(t[p]) = Len(tabla[p])
    BY <1>2 DEF Bajadas
  <2> QED BY <2>1, <2>2, <2>3
<1>6. ASSUME NEW r \in Propios PROVE De(r)'.id = De(r).id /\ De(r)'.tam = De(r).tam
  <2>0. PICK p \in DOMAIN tabla : \E j \in 2 .. Len(tabla[p]) : r = <<p, j>>
    BY DEF Propios
  <2>1. PICK j \in 2 .. Len(tabla[p]) : r = <<p, j>>
    BY <2>0
  <2>2. j \in 1 .. Len(tabla[p])
    OBVIOUS
  <2>3. t[p][j].id = tabla[p][j].id /\ t[p][j].tam = tabla[p][j].tam
    BY <1>2, <2>2 DEF Bajadas
  <2> QED BY <1>1, <2>1, <2>3 DEF De
<1>7. \A k \in 1 .. M : tabla'[am[k][1]][am[k][2]].base = b[k]
  BY DEF Bajadas
<1> QED BY <1>4, <1>5, <1>6, <1>7 DEF De

-----------------------------------------------------------------------------
\* After the compaction the segments take the first addresses and one hole all
\* the others, as large as all the holes were together.
LEMMA CompactarReparto ==
    ASSUME TablasBien, Reparto, Config,
           tabla' = TablaCompactada, huecos' = HuecosCompactados
    PROVE  /\ TablasBien' /\ Reparto' /\ Propios' = Propios
           /\ \A r \in Propios : De(r)'.id = De(r).id /\ De(r)'.tam = De(r).tam
           /\ SumaDe(huecos)' = SumaDe(huecos)
           /\ DOMAIN huecos' = {1} /\ huecos'[1].tam = SumaDe(huecos)
<1>0. TamMemoria \in Nat /\ TamSegmento \in Nat /\ TamSegmento < TamMemoria
  BY TamaniosAssumption DEF Config
<1>1. PICK M, s, b : Movidas(M, s, b)
  BY HayMovidas DEF Reparto
<1>2. PICK am : am = AMover
  OBVIOUS
<1>3. Bajadas(tabla', M, s, b)
  <2>1. Bajadas(TablaCompactada, M, s, b)
    BY <1>1, HayBajadas DEF Reparto
  <2> QED BY <2>1
<1>4. /\ TablasBien' /\ Propios' = Propios
      /\ \A r \in Propios : De(r)'.id = De(r).id /\ De(r)'.tam = De(r).tam
      /\ \A k \in 1 .. M : De(am[k])'.base = b[k]
  BY <1>1, <1>2, <1>3, TablasBajadas
<1>5. /\ M \in Nat /\ b[M + 1] \in Nat /\ b[M + 1] = TamSegmento + Cardinality(Ocupadas)
      /\ \A k \in 1 .. M : /\ s[k] = De(am[k]) /\ s[k] \in SegmentoR
                           /\ b[k] \in Nat /\ b[k] \in 0 .. TamMemoria /\ b[k] <= s[k].base
                           /\ b[k + 1] \in Nat /\ b[k + 1] = b[k] + s[k].tam
  BY <1>1, <1>2, BasesMovidas
<1>6. /\ \A i \in 1 .. M : am[i] \in Propios
      /\ \A r \in Propios : \E i \in 1 .. M : am[i] = r
  BY <1>1, <1>2 DEF Movidas, EnOrden
<1>7. /\ \A i, k \in 1 .. M + 1 : i < k => b[i + 1] <= b[k]
      /\ UNION {b[i] .. b[i + 1] - 1 : i \in 1 .. M} = TamSegmento .. b[M + 1] - 1
  BY <1>1, <1>5, Contiguas DEF Movidas
<1>8. ASSUME NEW k \in 1 .. M PROVE Hasta(De(am[k])') = b[k] .. b[k + 1] - 1
  <2>1. De(am[k])'.base = b[k] /\ De(am[k])'.tam = s[k].tam
    BY <1>4, <1>5, <1>6
  <2>2. PICK x : x = De(am[k])'
    OBVIOUS
  <2>3. PICK y \in Nat, t \in Nat : y = b[k] /\ t = s[k].tam /\ b[k + 1] = y + t
    BY <1>5, TamaniosAssumption DEF SegmentoR
  <2>4. Hasta(x) = y .. y + t - 1
    BY <2>1, <2>2, <2>3 DEF Hasta
  <2> QED BY <2>2, <2>3, <2>4
<1>9. SumaDe(huecos) = TamMemoria - b[M + 1] /\ SumaDe(huecos) \in Nat
  <2>1. Ocupadas \subseteq Enteras
    BY DEF Reparto, SinSolapes, Ocupadas, Enteras
  <2>2. IsFiniteSet(Enteras) /\ Cardinality(Enteras) = TamMemoria - TamSegmento
    <3>1. IsFiniteSet(TamSegmento .. TamMemoria - 1) /\ Cardinality(TamSegmento .. TamMemoria - 1) =
             IF TamSegmento > TamMemoria - 1 THEN 0 ELSE TamMemoria - 1 - TamSegmento + 1
      BY <1>0, FS_Interval
    <3> QED BY <1>0, <3>1 DEF Enteras
  <2>3. Enteras \cap Ocupadas = Ocupadas
    BY <2>1
  <2>4. Cardinality(Enteras \ Ocupadas) = Cardinality(Enteras) - Cardinality(Ocupadas)
    BY <2>2, <2>3, FS_Difference
  <2>5. IsFiniteSet(Ocupadas)
    BY <2>1, <2>2, FS_Subset
  <2>6. Cardinality(Ocupadas) \in Nat
    BY <2>5, FS_CardinalityType
  <2>7. SumaDe(huecos) = Cardinality(Enteras \ Ocupadas) /\ SumaDe(huecos) \in Nat
    BY SumaHuecos DEF Reparto
  <2> QED BY <1>0, <1>5, <2>2, <2>4, <2>6, <2>7
<1> DEFINE B == b[M + 1]
           x == Hueco(B, TamMemoria - B)
<1>10. B \in Nat /\ B <= TamMemoria /\ TamMemoria - SumaDe(huecos) = B
       /\ SumaDe(huecos) = TamMemoria - B
  BY <1>0, <1>5, <1>9
<1>11. huecos' = <<x>>
  BY <1>10 DEF HuecosCompactados
<1>12. x \in HuecoR /\ x.tam = SumaDe(huecos) /\ Hasta(x) = B .. TamMemoria - 1
  <2>1. x.base = B /\ x.tam = TamMemoria - B
    BY DEF Hueco
  <2>2. B + (TamMemoria - B) - 1 = TamMemoria - 1 /\ TamMemoria - B \in Nat /\ B \in 0 .. TamMemoria
    BY <1>0, <1>10
  <2>3. Hasta(x) = B .. TamMemoria - 1
    BY <2>1, <2>2 DEF Hasta
  <2> QED BY <1>10, <2>1, <2>2, <2>3 DEF Hueco, HuecoR
<1> HIDE DEF x, B
<1>13. /\ huecos' \in Seq(HuecoR) /\ DOMAIN huecos' = {1} /\ huecos'[1] = x
       /\ Separados(huecos)' /\ Cubre(huecos)' = B .. TamMemoria - 1
  <2>1. PICK h : h = <<x>>
    OBVIOUS
  <2>2. h \in Seq(HuecoR) /\ DOMAIN h = {1} /\ h[1] = x
    BY <1>12, <2>1
  <2>3. Separados(h) /\ Cubre(h) = Hasta(x)
    BY <2>2 DEF Separados, Cubre
  <2>4. huecos' = h
    BY <1>11, <2>1
  <2> QED BY <1>12, <2>2, <2>3, <2>4
<1>14. Ocupadas' = TamSegmento .. B - 1
  <2>1. \A a : a \in Ocupadas' <=> \E r \in Propios : a \in Hasta(De(r)')
    BY <1>4 DEF Ocupadas
  <2>2. \A a : a \in TamSegmento .. B - 1 <=> \E i \in 1 .. M : a \in b[i] .. b[i + 1] - 1
    BY <1>7 DEF B
  <2>3. ASSUME NEW a
        PROVE  (\E r \in Propios : a \in Hasta(De(r)')) <=> \E i \in 1 .. M : a \in Hasta(De(am[i])')
    BY <1>6
  <2>4. ASSUME NEW a
        PROVE  (\E i \in 1 .. M : a \in Hasta(De(am[i])')) <=> \E i \in 1 .. M : a \in b[i] .. b[i + 1] - 1
    BY <1>8
  <2>5. \A a : a \in Ocupadas' <=> a \in TamSegmento .. B - 1
    BY <2>1, <2>2, <2>3, <2>4
  <2> QED BY <2>5
<1>15. SinSolapes'
  <2>1. ASSUME NEW r \in Propios PROVE Hasta(De(r)') \subseteq TamSegmento .. TamMemoria - 1
    <3>1. Hasta(De(r)') \subseteq Ocupadas'
      BY <1>4 DEF Ocupadas
    <3>2. \A a \in TamSegmento .. B - 1 : a \in TamSegmento .. TamMemoria - 1
      BY <1>0, <1>10
    <3> QED BY <1>14, <3>1, <3>2
  <2>2. ASSUME NEW r \in Propios, NEW q \in Propios, r # q
        PROVE  Hasta(De(r)') \cap Hasta(De(q)') = {}
    <3>1. PICK i \in 1 .. M, k \in 1 .. M : r = am[i] /\ q = am[k]
      BY <1>6
    <3>2. i \in Int /\ k \in Int /\ i # k /\ i \in 1 .. M + 1 /\ k \in 1 .. M + 1
      BY <1>5, <2>2, <3>1
    <3>3. b[i + 1] <= b[k] \/ b[k + 1] <= b[i]
      <4>1. i < k \/ k < i
        BY <3>2
      <4> QED BY <1>7, <3>2, <4>1
    <3>4. Hasta(De(r)') = b[i] .. b[i + 1] - 1 /\ Hasta(De(q)') = b[k] .. b[k + 1] - 1
      BY <1>8, <3>1
    <3>5. b[i] \in Nat /\ b[i + 1] \in Nat /\ b[k] \in Nat /\ b[k + 1] \in Nat
      BY <1>5
    <3> QED BY <3>3, <3>4, <3>5
  <2> QED BY <1>4, <2>1, <2>2 DEF SinSolapes
<1>16. Reparto'
  <2>1. B .. TamMemoria - 1 = (TamSegmento .. TamMemoria - 1) \ (TamSegmento .. B - 1)
    <3>1. TamSegmento <= B
      <4>1. Cardinality(Ocupadas) \in Nat
        <5>1. Ocupadas \subseteq Enteras
          BY DEF Reparto, SinSolapes, Ocupadas, Enteras
        <5>2. IsFiniteSet(Enteras)
          BY <1>0, FS_Interval DEF Enteras
        <5>3. IsFiniteSet(Ocupadas)
          BY <5>1, <5>2, FS_Subset
        <5> QED BY <5>3, FS_CardinalityType
      <4> QED BY <1>0, <1>5, <4>1 DEF B
    <3> QED BY <1>0, <1>10, <3>1
  <2>2. Enteras' = Enteras
    BY DEF Enteras
  <2> QED BY <1>13, <1>14, <1>15, <2>1, <2>2 DEF Reparto, Enteras
<1>17. SumaDe(huecos)' = SumaDe(huecos)
  <2>1. SumaDe(huecos)' = Cardinality(Cubre(huecos)')
    <3>1. PICK h : h = huecos'
      OBVIOUS
    <3>2. \A a \in B .. TamMemoria - 1 : a \in 0 .. TamMemoria - 1
      BY <1>0, <1>10
    <3>3. h \in Seq(HuecoR) /\ Separados(h) /\ Cubre(h) \subseteq 0 .. TamMemoria - 1
      BY <1>13, <3>1, <3>2
    <3>4. SumaDe(h) = Cardinality(Cubre(h))
      BY <3>3, SumaLista
    <3> QED BY <3>1, <3>4
  <2>2. Cardinality(B .. TamMemoria - 1) = IF B > TamMemoria - 1 THEN 0 ELSE TamMemoria - 1 - B + 1
    BY <1>0, <1>10, FS_Interval
  <2>3. Cardinality(B .. TamMemoria - 1) = TamMemoria - B
    BY <1>0, <1>10, <2>2
  <2> QED BY <1>10, <1>13, <2>1, <2>3
<1> QED BY <1>4, <1>12, <1>13, <1>16, <1>17

-----------------------------------------------------------------------------
(* What the compaction copies.                                                 *)

Contenidos == [0 .. TamMemoria - 1 -> Nat]
MoverUno(c, k) ==
    LET s == tabla[AMover[k][1]][AMover[k][2]]
        nueva == BaseNueva(k)
    IN  [a \in DOMAIN c |-> IF a \in nueva .. nueva + s.tam - 1
                            THEN c[s.base + a - nueva] ELSE c[a]]

\* Where piece k goes, and from where each of its addresses comes.
Llega(c, d, b, s, k) ==
    \A a \in 0 .. TamMemoria - 1 :
        d[a] = IF a \in b[k] .. b[k + 1] - 1 THEN c[s[k].base + a - b[k]] ELSE c[a]

\* One memcpy takes a segment down and leaves those above it as they were.
LEMMA UnaMovida ==
    ASSUME TablasBien, SinSolapes, Config, NEW M, NEW s, NEW b, Movidas(M, s, b),
           NEW k \in 1 .. M, NEW c \in Contenidos
    PROVE  MoverUno(c, k) \in Contenidos /\ Llega(c, MoverUno(c, k), b, s, k)
<1>1. PICK x, y, z, t : x = b[k] /\ y = b[k + 1] /\ z = s[k].base /\ t = s[k].tam
  OBVIOUS
<1>2. /\ x \in Nat /\ y \in Nat /\ y = x + t /\ x <= z /\ z \in Nat /\ t \in Nat
      /\ s[k] = tabla[AMover[k][1]][AMover[k][2]] /\ BaseNueva(k) = x
  <2>1. s[k] = De(AMover[k]) /\ s[k] \in SegmentoR /\ b[k] \in Nat /\ b[k] <= s[k].base
        /\ b[k + 1] \in Nat /\ b[k + 1] = b[k] + s[k].tam
    BY BasesMovidas
  <2>2. BaseNueva(k) = b[k]
    BY DEF Movidas
  <2> QED BY <1>1, <2>1, <2>2, TamaniosAssumption DEF SegmentoR, De
<1>3. z .. z + t - 1 \subseteq 0 .. TamMemoria - 1
  <2>1. TamSegmento \in Nat /\ TamMemoria \in Nat
    BY TamaniosAssumption
  <2>2. Hasta(s[k]) \subseteq Cubre(s) /\ Cubre(s) \subseteq TamSegmento .. TamMemoria - 1
    BY DEF Movidas, Aparte, Cubre
  <2>3. Hasta(s[k]) = z .. z + t - 1
    BY <1>1 DEF Hasta
  <2>4. \A a \in TamSegmento .. TamMemoria - 1 : a \in 0 .. TamMemoria - 1
    BY <2>1
  <2> QED BY <2>2, <2>3, <2>4
<1>4. \A a \in x .. y - 1 : z + a - x \in z .. z + t - 1
  BY <1>2
<1>5. x + t - 1 = y - 1 /\ DOMAIN c = 0 .. TamMemoria - 1
  <2>1. x + t - 1 = y - 1
    BY ONLY <1>2
  <2>2. DOMAIN c = 0 .. TamMemoria - 1
    BY SMTT(30) DEF Contenidos
  <2> QED BY <2>1, <2>2
<1>6. MoverUno(c, k) = [a \in 0 .. TamMemoria - 1 |->
                           IF a \in x .. y - 1 THEN c[z + a - x] ELSE c[a]]
  BY <1>1, <1>2, <1>5 DEF MoverUno
<1>7. \A a \in 0 .. TamMemoria - 1 : (IF a \in x .. y - 1 THEN c[z + a - x] ELSE c[a]) \in Nat
  BY <1>3, <1>4 DEF Contenidos
<1>8. MoverUno(c, k) \in Contenidos
  BY <1>6, <1>7 DEF Contenidos
<1>9. Llega(c, MoverUno(c, k), b, s, k)
  BY <1>1, <1>6 DEF Llega
<1> QED BY <1>8, <1>9

\* compactar_memoria is a memcpy after another.
LEMMA CopiarPasos ==
    ASSUME TablasBien, SinSolapes, Config, NEW M, NEW s, NEW b, Movidas(M, s, b),
           celdas \in Contenidos
    PROVE  \E it \in [0 .. M -> Contenidos] :
              /\ it[0] = celdas /\ \A k \in 1 .. M : it[k] = MoverUno(it[k - 1], k)
              /\ CeldasCompactadas = it[M]
<1> DEFINE P == SUBSET (1 .. M)
           V == Contenidos
           F == [k \in 1 .. M |-> [v \in V |-> MoverUno(v, k)]]
           ind == [k \in DOMAIN AMover |-> k]
           g == CHOOSE g : g = [q \in P |-> IF q = {} THEN celdas
                                            ELSE MoverUno(g[q \ {Max(q)}], ind[Max(q)])]
<1>0. M \in Nat /\ DOMAIN AMover = 1 .. M /\ DOMAIN ind = 1 .. M
  BY DEF Movidas, EnOrden
<1>1. CeldasCompactadas = g[1 .. M]
  <2> HIDE DEF ind
  <2>1. CeldasCompactadas = FoldLeft(LAMBDA c, k : MoverUno(c, k), celdas, ind)
    BY DEF CeldasCompactadas, MoverUno, ind
  <2> QED BY <1>0, <2>1 DEF FoldLeft, MapThenFoldSet
<1>2. F \in [1 .. M -> [V -> V]] /\ celdas \in V
  BY UnaMovida
<1>3. \A q \in P : q # {} => Max(q) \in q /\ q \ {Max(q)} \in P
  BY <1>0, MayorDe
<1>4. PICK h : EsPliegue(h, M, V, celdas, F)
  <2> HIDE DEF V, F
  <2> QED BY <1>0, <1>2, HayPliegue
<1>5. h = [q \in P |-> IF q = {} THEN celdas ELSE MoverUno(h[q \ {Max(q)}], ind[Max(q)])]
  <2>1. h \in [P -> V] /\ h[{}] = celdas
    BY <1>4 DEF EsPliegue
  <2>2. ASSUME NEW q \in P, q # {} PROVE h[q] = MoverUno(h[q \ {Max(q)}], ind[Max(q)])
    <3>1. h[q] = F[Max(q)][h[q \ {Max(q)}]]
      BY <1>4, <2>2 DEF EsPliegue
    <3>2. Max(q) \in 1 .. M /\ h[q \ {Max(q)}] \in V
      BY <1>3, <2>1, <2>2
    <3>3. ind[Max(q)] = Max(q)
      BY <1>0, <3>2
    <3> HIDE DEF V, ind
    <3> QED BY <3>1, <3>2, <3>3
  <2> HIDE DEF V, ind
  <2> QED BY <2>1, <2>2
<1>6. g = [q \in P |-> IF q = {} THEN celdas ELSE MoverUno(g[q \ {Max(q)}], ind[Max(q)])]
  <2> HIDE DEF ind
  <2> QED BY <1>5
<1>7. ConcuerdanHasta(M, g, h)
  <2> HIDE DEF g, ind
  <2>1. g[{}] = h[{}]
    BY <1>5, <1>6
  <2>2. ASSUME NEW q \in P, q # {}
        PROVE  g[q \ {Max(q)}] = h[q \ {Max(q)}] => g[q] = h[q]
    BY <1>5, <1>6, <2>2
  <2> QED BY <1>3, <2>1, <2>2 DEF Concuerdan, ConcuerdanHasta
<1>8. PICK it : Recorre(it, M, V, celdas, F, g)
  <2> HIDE DEF g, V, F
  <2> QED BY <1>0, <1>2, <1>4, <1>7, PasosPliegue
<1>9. it \in [0 .. M -> V] /\ it[0] = celdas /\ it[M] = g[1 .. M]
  <2> HIDE DEF g, V, F
  <2> QED BY <1>8 DEF Recorre
<1>10. \A k \in 1 .. M : it[k] = MoverUno(it[k - 1], k)
  <2> SUFFICES ASSUME NEW k \in 1 .. M PROVE it[k] = MoverUno(it[k - 1], k)
    OBVIOUS
  <2>1. k - 1 \in 0 .. M
    BY <1>0
  <2> HIDE DEF V
  <2>2. it[k - 1] \in V
    BY <1>9, <2>1
  <2> QED BY <1>8, <2>2 DEF Recorre
<1> HIDE DEF g
<1> QED BY <1>1, <1>9, <1>10

\* An address of a segment, moved with it.
LEMMA Traslado ==
    ASSUME NEW x \in Nat, NEW z \in Nat, NEW t \in Nat, NEW a \in Int,
           x <= a, a <= x + t - 1, x <= z
    PROVE  z + a - x \in z .. z + t - 1 /\ x <= z + a - x /\ a <= z + a - x
OBVIOUS

\* Each segment finds in its new place what it had in the old one: what is
\* copied over was either free or already moved.
Copiado(d, M, s, b) ==
    /\ d \in Contenidos
    /\ \A k \in 1 .. M : \A a \in b[k] .. b[k + 1] - 1 : d[a] = celdas[s[k].base + a - b[k]]

\* After all the memcpy each segment has at its new base what it had at the
\* old one.
LEMMA Copiadas ==
    ASSUME TablasBien, SinSolapes, Config, NEW M, NEW s, NEW b, Movidas(M, s, b),
           celdas \in Contenidos
    PROVE  Copiado(CeldasCompactadas, M, s, b)
<1>0. TamMemoria \in Nat /\ TamSegmento \in Nat
  BY TamaniosAssumption
<1>1. PICK it \in [0 .. M -> Contenidos] :
              /\ it[0] = celdas /\ \A k \in 1 .. M : it[k] = MoverUno(it[k - 1], k)
              /\ CeldasCompactadas = it[M]
  BY CopiarPasos
<1>2. /\ M \in Nat
      /\ \A k \in 1 .. M : /\ b[k] \in Nat /\ b[k] <= s[k].base /\ s[k].base \in Nat /\ s[k].tam \in Nat
                           /\ b[k + 1] \in Nat /\ b[k + 1] = b[k] + s[k].tam
                           /\ s[k].base .. s[k].base + s[k].tam - 1 \subseteq 0 .. TamMemoria - 1
  <2>1. /\ M \in Nat
        /\ \A k \in 1 .. M : /\ s[k] \in SegmentoR /\ b[k] \in Nat /\ b[k] <= s[k].base
                             /\ b[k + 1] \in Nat /\ b[k + 1] = b[k] + s[k].tam
    BY BasesMovidas
  <2>2. ASSUME NEW k \in 1 .. M
        PROVE  s[k].base .. s[k].base + s[k].tam - 1 \subseteq 0 .. TamMemoria - 1
    <3>1. Hasta(s[k]) \subseteq Cubre(s) /\ Cubre(s) \subseteq TamSegmento .. TamMemoria - 1
      BY DEF Movidas, Aparte, Cubre
    <3>2. \A a \in TamSegmento .. TamMemoria - 1 : a \in 0 .. TamMemoria - 1
      BY <1>0
    <3> QED BY <3>1, <3>2 DEF Hasta
  <2>3. \A k \in 1 .. M : s[k].base \in Nat /\ s[k].tam \in Nat
    BY <1>0, <2>1 DEF SegmentoR
  <2> QED BY <2>1, <2>2, <2>3
<1>3. \A i, k \in 1 .. M + 1 : i < k => b[i + 1] <= b[k]
  BY <1>2, Contiguas DEF Movidas
<1> DEFINE D == 0 .. TamMemoria - 1
           Intacta(k) == \A a \in D : b[k + 1] <= a => it[k][a] = celdas[a]
           Puestas(k) == \A i \in 1 .. k : \A a \in b[i] .. b[i + 1] - 1 :
                            it[k][a] = celdas[s[i].base + a - b[i]]
           Malos == {k \in 0 .. M : ~(Puestas(k) /\ (k # 0 => Intacta(k)))}
<1>4. SUFFICES ASSUME Malos # {} PROVE FALSE
  <2>1. M \in 0 .. M
    BY <1>2
  <2>2. Malos = {} => Puestas(M)
    BY <2>1
  <2> QED BY <1>1, <2>1, <2>2 DEF Copiado
<1>5. PICK k \in Malos : \A j \in Malos : k <= j
  <2>1. Malos \in SUBSET Nat
    OBVIOUS
  <2> HIDE DEF Malos
  <2> QED BY <1>4, <2>1, Primero
<1>6. k # 0
  <2>1. 1 .. 0 = {}
    OBVIOUS
  <2> QED BY <2>1
<1>7. PICK j \in 0 .. M - 1 : /\ j = k - 1 /\ k = j + 1 /\ k \in 1 .. M /\ j \in Int /\ j \in 0 .. M
                              /\ Puestas(j) /\ (j # 0 => Intacta(j))
  <2> HIDE DEF Puestas, Intacta
  <2>1. k \in 0 .. M /\ M \in Int /\ k \in Int
    BY <1>2
  <2>2. k - 1 \in 0 .. M - 1 /\ k - 1 \in 0 .. M /\ k \in 1 .. M /\ ~(k <= k - 1) /\ k = (k - 1) + 1
    BY <1>6, <2>1
  <2>3. k - 1 \notin Malos
    BY <1>5, <2>2
  <2> QED BY <2>1, <2>2, <2>3
<1>8. it[j] \in Contenidos /\ it[k] = MoverUno(it[j], k)
  BY <1>1, <1>7
<1>9. Llega(it[j], it[k], b, s, k)
  BY <1>7, <1>8, UnaMovida
<1>10. \A a \in D : b[k] <= a => it[j][a] = celdas[a]
  <2>1. CASE j = 0
    BY <1>1, <2>1
  <2>2. CASE j # 0
    BY <1>7, <2>2
  <2> QED BY <2>1, <2>2
<1>11. Intacta(k)
  <2> SUFFICES ASSUME NEW a \in D, b[k + 1] <= a PROVE it[k][a] = celdas[a]
    OBVIOUS
  <2>1. a \in Int /\ b[k] \in Nat /\ b[k + 1] \in Nat /\ b[k] <= b[k + 1]
    <3>1. PICK x \in Nat, y \in Nat, t \in Nat : x = b[k] /\ y = b[k + 1] /\ y = x + t
      BY <1>2, <1>7
    <3>2. x <= y
      BY <3>1
    <3>3. a \in Int
      BY <1>0
    <3> QED BY <3>1, <3>2, <3>3
  <2>2. a \notin b[k] .. b[k + 1] - 1 /\ b[k] <= a
    BY <2>1
  <2> QED BY <1>9, <1>10, <2>2 DEF Llega
<1>12. Puestas(k)
  <2> SUFFICES ASSUME NEW i \in 1 .. k, NEW a \in b[i] .. b[i + 1] - 1
               PROVE  it[k][a] = celdas[s[i].base + a - b[i]]
    OBVIOUS
  <2>1. i \in 1 .. M /\ i \in Int /\ i <= k /\ k \in Int /\ k <= M /\ M \in Int
    BY <1>2, <1>7
  <2>2. PICK x \in Nat, y \in Nat, z \in Nat, t \in Nat :
           /\ x = b[i] /\ y = b[i + 1] /\ z = s[i].base /\ t = s[i].tam /\ x <= z /\ y = x + t
           /\ z .. z + t - 1 \subseteq D
    BY <1>2, <2>1
  <2>3. a \in Int /\ x <= a /\ a <= y - 1 /\ z + a - x \in z .. z + t - 1 /\ x <= z + a - x /\ a <= z + a - x
    <3>1. a \in x .. y - 1
      BY <2>2
    <3>2. a \in Int /\ x <= a /\ a <= y - 1
      BY <2>2, <3>1
    <3>3. x <= z /\ a <= x + t - 1 /\ y = x + t
      BY SMTT(30), <2>2, <3>2
    <3> QED BY <3>2, <3>3, Traslado
  <2>4. a \in D
    <3>1. z + a - x \in D /\ TamMemoria \in Int
      BY <1>0, <2>2, <2>3
    <3> QED BY <2>2, <2>3, <3>1
  <2>5. CASE i = k
    <3>1. it[k][a] = it[j][z + a - x]
      BY <1>9, <2>2, <2>4, <2>5 DEF Llega
    <3>2. it[j][z + a - x] = celdas[z + a - x]
      BY <1>10, <2>2, <2>3, <2>5
    <3> QED BY <2>2, <2>5, <3>1, <3>2
  <2>6. CASE i # k
    <3>1. i < k /\ i \in 1 .. j /\ i \in 1 .. M + 1 /\ k \in 1 .. M + 1
      BY <1>7, <2>1, <2>6
    <3>2. y <= b[k] /\ b[k] \in Nat
      BY <1>2, <1>3, <1>7, <2>2, <3>1
    <3>3. a \notin b[k] .. b[k + 1] - 1
      BY <2>2, <2>3, <3>2
    <3>4. it[k][a] = it[j][a]
      BY <1>9, <2>4, <3>3 DEF Llega
    <3> QED BY <1>7, <3>1, <3>4
  <2> QED BY <2>5, <2>6
<1> QED BY <1>5, <1>7, <1>11, <1>12

-----------------------------------------------------------------------------
(* The inductive invariant.                                                    *)

\* The segment that the kernel waits for is not there yet; before the
\* compaction it fits in all the holes together, and after it in one.
Pendiente ==
    \/ pedido = SinPedido
    \/ /\ pedido \in [paso : {"compactar", "otra vez"}, pid : vivos, id : Ids, tam : Tamanios]
       /\ \A j \in DOMAIN tabla[pedido.pid] : tabla[pedido.pid][j].id # pedido.id
       /\ pedido.paso = "compactar" => HayEspacio(pedido.tam)
       /\ pedido.paso = "otra vez" => Alcanzan(huecos, pedido.tam) # {}

Muertos == \A p \in DOMAIN tabla \ vivos : Len(tabla[p]) = 1

\* The segment that was written is one of a process that did not end.
EscritoVive ==
    \/ escrito \in {Nadie, Borrado}
    \/ \E r \in Propios : r[1] \in vivos /\ escrito = <<r[1], De(r).id>>

MemoriaInv ==
    /\ TablasBien
    /\ Len(tabla) <= MaxProcesos /\ vivos \subseteq DOMAIN tabla
    /\ celdas \in Contenidos
    /\ sana \in BOOLEAN
    /\ huecos \in Seq([base : Nat, tam : Int])
    /\ sana => Reparto
    /\ Pendiente
    /\ Muertos
    /\ EscritoVive
    /\ ContenidoIntacto

-----------------------------------------------------------------------------
(* What the steps do to the tables.  After a step each segment is one that    *)
(* there was, c, and those of Q are gone.                                     *)

Restan(c, Q) ==
    /\ c \in [Propios' -> Propios]
    /\ \A r, q \in Propios' : c[r] = c[q] => r = q
    /\ \A q \in Propios : (\E r \in Propios' : c[r] = q) <=> q \notin Q
    /\ \A r \in Propios' : De(r)' = De(c[r]) /\ c[r][1] = r[1]

\* When the tables stay, all the segments stay.
LEMMA RestanTodas ==
    ASSUME UNCHANGED tabla
    PROVE  Restan([r \in Propios |-> r], {})
<1>1. Propios' = Propios /\ \A r : De(r)' = De(r)
  BY DEF Propios, De
<1> QED BY <1>1 DEF Restan

\* What is taken from the segments and given to the holes keeps the memory
\* shared out.
LEMMA RestanReparto ==
    ASSUME Reparto, NEW c, NEW Q \in SUBSET Propios, Restan(c, Q),
           huecos' \in Seq(HuecoR), Separados(huecos)',
           Cubre(huecos)' = Cubre(huecos) \union UNION {Hasta(De(q)) : q \in Q}
    PROVE  Reparto'
<1>1. Enteras' = Enteras /\ Ocupadas \subseteq Enteras
  BY DEF Enteras, Reparto, SinSolapes, Ocupadas
<1>2. PICK P : P = Propios'
  OBVIOUS
<1>3. /\ c \in [P -> Propios]
      /\ \A r, q \in P : c[r] = c[q] => r = q
      /\ \A q \in Propios : (\E r \in P : c[r] = q) <=> q \notin Q
      /\ \A r \in P : De(r)' = De(c[r])
  BY <1>2 DEF Restan
<1>4. \A r \in P : Hasta(De(r)') = Hasta(De(c[r])) /\ c[r] \in Propios
  <2> SUFFICES ASSUME NEW r \in P PROVE Hasta(De(r)') = Hasta(De(c[r])) /\ c[r] \in Propios
    OBVIOUS
  <2>1. PICK x : x = De(r)' /\ x = De(c[r])
    BY <1>3
  <2> QED BY <1>3, <2>1
<1>5. SinSolapes'
  <2>1. \A r \in P : Hasta(De(r)') \subseteq TamSegmento .. TamMemoria - 1
    BY <1>4 DEF Reparto, SinSolapes
  <2>2. \A r, q \in P : r # q => Hasta(De(r)') \cap Hasta(De(q)') = {}
    BY <1>3, <1>4 DEF Reparto, SinSolapes
  <2> QED BY <1>2, <2>1, <2>2 DEF SinSolapes
<1>6. Ocupadas' = Ocupadas \ UNION {Hasta(De(q)) : q \in Q}
  <2>1. \A a : a \in Ocupadas' <=> \E r \in P : a \in Hasta(De(r)')
    BY <1>2 DEF Ocupadas
  <2>2. \A a : a \in Ocupadas <=> \E q \in Propios : a \in Hasta(De(q))
    BY DEF Ocupadas
  <2>3. \A q, t \in Propios : q # t => Hasta(De(q)) \cap Hasta(De(t)) = {}
    BY DEF Reparto, SinSolapes
  <2>4. ASSUME NEW a, NEW r \in P, a \in Hasta(De(r)')
        PROVE  a \in Ocupadas /\ \A q \in Q : a \notin Hasta(De(q))
    <3>1. a \in Hasta(De(c[r])) /\ c[r] \in Propios /\ c[r] \notin Q
      BY <1>3, <1>4, <2>4
    <3> QED BY <2>2, <2>3, <3>1
  <2>5. ASSUME NEW a \in Ocupadas, \A q \in Q : a \notin Hasta(De(q))
        PROVE  \E r \in P : a \in Hasta(De(r)')
    <3>1. PICK q \in Propios : a \in Hasta(De(q))
      BY <2>2
    <3>2. PICK r \in P : c[r] = q
      BY <1>3, <2>5, <3>1
    <3> QED BY <1>4, <3>1, <3>2
  <2> QED BY <2>1, <2>4, <2>5
<1>7. UNION {Hasta(De(q)) : q \in Q} \subseteq Ocupadas
  BY DEF Ocupadas
<1> QED BY <1>1, <1>5, <1>6, <1>7 DEF Reparto

\* What was written stays where it was; the segments that are gone are those
\* of which nothing is said any more.
LEMMA RestanEscritos ==
    ASSUME ContenidoIntacto, EscritoVive, NEW c, NEW Q \in SUBSET Propios, Restan(c, Q),
           UNCHANGED celdas, 0 \notin DOMAIN tabla',
           \/ escrito' \in {Nadie, Borrado}
           \/ /\ escrito' = escrito /\ \A q \in Q : escrito # <<q[1], De(q).id>>
              /\ \A q \in Propios \ Q : q[1] \in vivos => q[1] \in vivos'
    PROVE  ContenidoIntacto' /\ EscritoVive'
<1>1. CASE escrito' \in {Nadie, Borrado}
  <2>1. \A r \in Propios' : r[1] # 0
    BY DEF Propios
  <2>2. \A r \in Propios' : escrito' # <<r[1], De(r)'.id>>
    BY <1>1, <2>1 DEF Nadie, Borrado
  <2>3. EscritoVive'
    BY <1>1 DEF EscritoVive, Nadie, Borrado
  <2> QED BY <2>2, <2>3 DEF ContenidoIntacto
<1>2. CASE /\ escrito' = escrito /\ \A q \in Q : escrito # <<q[1], De(q).id>>
           /\ \A q \in Propios \ Q : q[1] \in vivos => q[1] \in vivos'
  <2>1. ContenidoIntacto'
    <3> SUFFICES ASSUME NEW r \in Propios', escrito' = <<r[1], De(r)'.id>>,
                        NEW a \in Hasta(De(r)')
                 PROVE  celdas'[a] = a - De(r)'.base + 1
      BY DEF ContenidoIntacto
    <3>1. c[r] \in Propios /\ De(r)' = De(c[r]) /\ c[r][1] = r[1]
      BY DEF Restan
    <3>2. PICK x : x = De(r)' /\ x = De(c[r])
      BY <3>1
    <3> QED BY <1>2, <3>1, <3>2 DEF ContenidoIntacto
  <2>2. CASE escrito \in {Nadie, Borrado}
    <3>1. EscritoVive'
      BY <1>2, <2>2 DEF EscritoVive, Nadie, Borrado
    <3> QED BY <2>1, <3>1
  <2>3. CASE \E q \in Propios : q[1] \in vivos /\ escrito = <<q[1], De(q).id>>
    <3>1. PICK q \in Propios : q[1] \in vivos /\ escrito = <<q[1], De(q).id>>
      BY <2>3
    <3>2. PICK r \in Propios' : c[r] = q
      BY <1>2, <3>1 DEF Restan
    <3>3. De(r)' = De(q) /\ q[1] = r[1]
      BY <3>2 DEF Restan
    <3>4. escrito' = <<r[1], De(r)'.id>> /\ r[1] \in vivos'
      BY <1>2, <3>1, <3>3
    <3>5. EscritoVive'
      BY <3>4 DEF EscritoVive
    <3> QED BY <2>1, <3>5
  <2> QED BY <2>2, <2>3 DEF EscritoVive
<1> QED BY <1>1, <1>2

-----------------------------------------------------------------------------
\* The table of one process changes: it becomes s, of m segments.
Cambiada(p, s, m) ==
    /\ TablasBien' /\ Len(tabla') = Len(tabla) /\ DOMAIN tabla' = DOMAIN tabla
    /\ tabla'[p] = s /\ \A q \in DOMAIN tabla \ {p} : tabla'[q] = tabla[q]
    /\ \A r : r \in Propios' <=> \/ r \in Propios /\ r[1] # p
                                 \/ \E j \in 2 .. m : r = <<p, j>>
    /\ \A r \in Propios' : r[1] # p => De(r)' = De(r)
    /\ \A j : De(<<p, j>>)' = s[j]

\* A new table for one process leaves the tables well.
LEMMA CambiaUna ==
    ASSUME TablasBien, NEW p \in DOMAIN tabla, NEW s, TablaBien(s),
           tabla' = [tabla EXCEPT ![p] = s]
    PROVE  Cambiada(p, s, Len(s))
<1>1. PICK n \in Nat : n = Len(tabla) /\ DOMAIN tabla = 1 .. n
  BY LasTablas
<1>2. PICK t : t = tabla'
  OBVIOUS
<1>3. /\ DOMAIN t = DOMAIN tabla /\ t[p] = s
      /\ \A q \in DOMAIN tabla \ {p} : t[q] = tabla[q]
      /\ t = [q \in DOMAIN tabla |-> t[q]]
  BY <1>2
<1>4. \A q \in DOMAIN tabla : TablaBien(t[q]) /\ t[q] \in Seq(SegmentoR)
  <2> SUFFICES ASSUME NEW q \in DOMAIN tabla PROVE TablaBien(t[q]) /\ t[q] \in Seq(SegmentoR)
    OBVIOUS
  <2>1. PICK x : x = t[q]
    OBVIOUS
  <2>2. TablaBien(x)
    <3>1. CASE q = p
      BY <1>3, <2>1, <3>1
    <3>2. CASE q # p
      <4>1. x = tabla[q]
        BY <1>3, <2>1, <3>2
      <4> QED BY <4>1 DEF TablasBien
    <3> QED BY <3>1, <3>2
  <2> QED BY <2>1, <2>2 DEF TablaBien
<1>5. t \in Seq(Seq(SegmentoR)) /\ Len(t) = n
  <2>1. t \in [1 .. n -> Seq(SegmentoR)]
    BY <1>1, <1>3, <1>4
  <2> QED BY <2>1, EsLista
<1>6. TablasBien'
  BY <1>2, <1>3, <1>4, <1>5 DEF TablasBien
<1>7. ASSUME NEW r
      PROVE  r \in Propios' <=> \/ r \in Propios /\ r[1] # p
                                \/ \E j \in 2 .. Len(s) : r = <<p, j>>
  <2>1. r \in Propios' <=> \E q \in DOMAIN tabla : \E j \in 2 .. Len(t[q]) : r = <<q, j>>
    BY <1>2, <1>3 DEF Propios
  <2>2. r \in Propios <=> \E q \in DOMAIN tabla : \E j \in 2 .. Len(tabla[q]) : r = <<q, j>>
    BY DEF Propios
  <2>3. ASSUME NEW q \in DOMAIN tabla, NEW j \in 2 .. Len(t[q]), r = <<q, j>>
        PROVE  (r \in Propios /\ r[1] # p) \/ \E i \in 2 .. Len(s) : r = <<p, i>>
    <3>1. CASE q = p
      BY <1>3, <2>3, <3>1
    <3>2. CASE q # p
      BY <1>3, <2>2, <2>3, <3>2
    <3> QED BY <3>1, <3>2
  <2>4. ASSUME r \in Propios, r[1] # p PROVE r \in Propios'
    <3>1. PICK q \in DOMAIN tabla : \E j \in 2 .. Len(tabla[q]) : r = <<q, j>>
      BY <2>2, <2>4
    <3>2. q # p
      BY <2>4, <3>1
    <3> QED BY <1>3, <2>1, <3>1, <3>2
  <2>5. ASSUME NEW j \in 2 .. Len(s), r = <<p, j>> PROVE r \in Propios'
    BY <1>3, <2>1, <2>5
  <2> QED BY <2>1, <2>3, <2>4, <2>5
<1>8. ASSUME NEW r \in Propios', r[1] # p PROVE De(r)' = De(r)
  <2>1. r[1] \in DOMAIN tabla
    BY <1>2, <1>3 DEF Propios
  <2> QED BY <1>2, <1>3, <1>8, <2>1 DEF De
<1>9. \A j : De(<<p, j>>)' = s[j]
  BY <1>2, <1>3 DEF De
<1> QED BY <1>1, <1>2, <1>3, <1>5, <1>6, <1>7, <1>8, <1>9 DEF Cambiada

\* crear_segmento: the segment x, at n.
Crecida(p, n, x) ==
    /\ TablasBien' /\ Len(tabla') = Len(tabla) /\ DOMAIN tabla' = DOMAIN tabla
    /\ \A q \in DOMAIN tabla \ {p} : tabla'[q] = tabla[q]
    /\ Propios' = Propios \union {n} /\ n \notin Propios
    /\ De(n)' = x
    /\ \A r \in Propios : De(r)' = De(r)

\* agregar_segmento: one segment more, at the end of a table.
LEMMA Agregada ==
    ASSUME TablasBien, NEW p \in DOMAIN tabla, NEW id \in Ids, NEW tam \in Nat \ {0},
           NEW base \in 0 .. TamMemoria,
           \A j \in DOMAIN tabla[p] : tabla[p][j].id # id,
           Agregar(p, id, base, tam), NEW n, n = <<p, Len(tabla[p]) + 1>>
    PROVE  Crecida(p, n, Segmento(id, base, tam))
<1>1. PICK s : s = tabla[p]
  OBVIOUS
<1>2. PICK m \in Nat \ {0} : /\ m = Len(s) /\ DOMAIN s = 1 .. m /\ s \in Seq(SegmentoR)
                             /\ TablaBien(s)
  BY <1>1, LasTablas DEF TablaBien
<1>3. Segmento(id, base, tam) \in SegmentoR
  BY TamaniosAssumption DEF Segmento, SegmentoR
<1>4. PICK x : x = Segmento(id, base, tam)
  OBVIOUS
<1>5. PICK u : u = Append(s, x)
  OBVIOUS
<1>6. /\ u \in Seq(SegmentoR) /\ Len(u) = m + 1 /\ DOMAIN u = 1 .. m + 1
      /\ \A i \in 1 .. m : u[i] = s[i]
      /\ u[m + 1] = x
  <2>1. x \in SegmentoR /\ s \in Seq(SegmentoR)
    BY <1>2, <1>3, <1>4
  <2>2. /\ u \in Seq(SegmentoR) /\ Len(u) = Len(s) + 1
        /\ \A i \in 1 .. Len(s) : u[i] = s[i]
        /\ u[Len(s) + 1] = x
    BY <1>5, <2>1, AppendProperties
  <2>3. DOMAIN u = 1 .. Len(u)
    BY <2>2, ListaDe
  <2> QED BY <1>2, <2>2, <2>3
<1>7. 1 .. m + 1 = (1 .. m) \union {m + 1} /\ 2 .. m + 1 = (2 .. m) \union {m + 1}
      /\ 1 \in 1 .. m /\ m + 1 \notin 1 .. m /\ 2 .. m \subseteq 1 .. m
  BY <1>2
<1>8. x.id = id /\ x.tam = tam
  BY <1>4 DEF Segmento
<1>9. TablaBien(u)
  <2>1. SinRepetir(u)
    <3>1. \A i \in 1 .. m : u[i].id # id
      BY <1>1, <1>2, <1>6
    <3>2. \A i, k \in 1 .. m : u[i].id = u[k].id => i = k
      BY <1>2, <1>6 DEF TablaBien, SinRepetir
    <3> QED BY <1>6, <1>7, <1>8, <3>1, <3>2 DEF SinRepetir
  <2>2. u[1] = Cero /\ Len(u) # 0
    BY <1>2, <1>6, <1>7 DEF TablaBien
  <2>3. \A j \in 2 .. m : u[j].id \in Ids /\ u[j].tam # 0
    BY <1>2, <1>6, <1>7 DEF TablaBien
  <2>4. \A j \in 2 .. m + 1 : u[j].id \in Ids /\ u[j].tam # 0
    BY <1>6, <1>7, <1>8, <2>3
  <2> QED BY <1>6, <2>1, <2>2, <2>4 DEF TablaBien
<1>10. tabla' = [tabla EXCEPT ![p] = u]
  BY <1>1, <1>4, <1>5 DEF Agregar
<1>11. /\ TablasBien' /\ Len(tabla') = Len(tabla) /\ DOMAIN tabla' = DOMAIN tabla
       /\ \A q \in DOMAIN tabla \ {p} : tabla'[q] = tabla[q]
       /\ \A r : r \in Propios' <=> \/ r \in Propios /\ r[1] # p
                                    \/ \E j \in 2 .. m + 1 : r = <<p, j>>
       /\ \A r \in Propios' : r[1] # p => De(r)' = De(r)
       /\ \A j : De(<<p, j>>)' = u[j]
  <2>1. Cambiada(p, u, Len(u))
    BY <1>9, <1>10, CambiaUna
  <2>2. Cambiada(p, u, m + 1)
    BY <1>6, <2>1
  <2> QED BY <2>2 DEF Cambiada
<1>12. \A r : r \in Propios <=> \/ r \in Propios /\ r[1] # p
                                \/ \E j \in 2 .. m : r = <<p, j>>
  <2>1. \A r : r \in Propios <=> \E q \in DOMAIN tabla : \E j \in 2 .. Len(tabla[q]) : r = <<q, j>>
    BY DEF Propios
  <2>2. Len(tabla[p]) = m
    BY <1>1, <1>2
  <2>3. ASSUME NEW r, r \in Propios, r[1] = p PROVE \E j \in 2 .. m : r = <<p, j>>
    BY <2>1, <2>2, <2>3
  <2>4. ASSUME NEW j \in 2 .. m PROVE <<p, j>> \in Propios
    BY <2>1, <2>2
  <2> QED BY <2>3, <2>4
<1>0. n = <<p, m + 1>>
  BY <1>1, <1>2
<1>13. Propios' = Propios \union {n}
  <2>1. \A r : (\E j \in 2 .. m + 1 : r = <<p, j>>) <=> ((\E j \in 2 .. m : r = <<p, j>>) \/ r = n)
    BY <1>0, <1>7
  <2> QED BY <1>0, <1>11, <1>12, <2>1
<1>14. n \notin Propios
  <2> SUFFICES ASSUME n \in Propios PROVE FALSE
    OBVIOUS
  <2>1. PICK j \in 2 .. m : n = <<p, j>>
    BY <1>12
  <2>2. m + 1 = j
    BY <1>0, <2>1
  <2> QED BY <1>7, <2>2
<1>15. ASSUME NEW r \in Propios PROVE De(r)' = De(r)
  <2>1. CASE r[1] # p
    BY <1>11, <1>13, <2>1
  <2>2. CASE r[1] = p
    <3>1. PICK j \in 2 .. m : r = <<p, j>>
      BY <1>12, <2>2
    <3>2. u[j] = s[j]
      BY <1>6, <1>7
    <3>3. De(r) = s[j]
      BY <1>1, <3>1 DEF De
    <3> QED BY <1>11, <3>1, <3>2, <3>3
  <2> QED BY <2>1, <2>2
<1>16. De(n)' = x
  BY <1>0, <1>6, <1>11
<1> QED BY <1>4, <1>11, <1>13, <1>14, <1>15, <1>16 DEF Crecida

\* eliminar_segmento
LEMMA QuitadaUna ==
    ASSUME TablasBien, NEW p \in DOMAIN tabla, NEW j \in 2 .. Len(tabla[p]),
           tabla' = [tabla EXCEPT ![p] = RemoveAt(tabla[p], j)]
    PROVE  /\ TablasBien' /\ Len(tabla') = Len(tabla) /\ DOMAIN tabla' = DOMAIN tabla
           /\ \A q \in DOMAIN tabla \ {p} : tabla'[q] = tabla[q]
           /\ \E c : Restan(c, {<<p, j>>})
<1>1. PICK s : s = tabla[p]
  OBVIOUS
<1>2. PICK m \in Nat \ {0} : /\ m = Len(s) /\ DOMAIN s = 1 .. m /\ s \in Seq(SegmentoR)
                             /\ TablaBien(s)
  BY <1>1, LasTablas DEF TablaBien
<1>3. j \in Int /\ 2 <= j /\ j <= m /\ m \in Int /\ j \in 1 .. m /\ j \in 2 .. m
  BY <1>1, <1>2
<1>4. PICK u : u = RemoveAt(s, j)
  OBVIOUS
<1>5. /\ u \in Seq(SegmentoR) /\ Len(u) = m - 1
      /\ \A i \in 1 .. m - 1 : u[i] = IF i < j THEN s[i] ELSE s[i + 1]
  BY <1>2, <1>3, <1>4, Quitado
<1> DEFINE v(i) == IF i < j THEN i ELSE i + 1
<1>6. \A i \in 1 .. m - 1 : v(i) \in 1 .. m /\ (i \in 2 .. m - 1 => v(i) \in 2 .. m) /\ v(i) # j
  BY <1>3
<1>7. \A i, k \in 1 .. m - 1 : v(i) = v(k) => i = k
  BY <1>3
<1>8. \A k \in 2 .. m : k # j => \E i \in 2 .. m - 1 : v(i) = k
  <2> SUFFICES ASSUME NEW k \in 2 .. m, k # j PROVE \E i \in 2 .. m - 1 : v(i) = k
    OBVIOUS
  <2>1. CASE k < j
    <3>1. k \in 2 .. m - 1 /\ v(k) = k
      BY <1>3, <2>1
    <3> QED BY <3>1
  <2>2. CASE ~(k < j)
    <3>1. k - 1 \in 2 .. m - 1 /\ v(k - 1) = k
      BY <1>3, <2>2
    <3> QED BY <3>1
  <2> QED BY <2>1, <2>2
<1>9. \A i \in 1 .. m - 1 : u[i] = s[v(i)]
  BY <1>5
<1> HIDE DEF v
<1>10. DOMAIN u = 1 .. m - 1 /\ 1 \in 1 .. m - 1 /\ u[1] = s[1]
  <2>1. 1 \in 1 .. m - 1 /\ 1 < j
    BY <1>3
  <2> QED BY <1>5, <2>1, ListaDe
<1>11. TablaBien(u)
  <2>1. SinRepetir(u)
    BY <1>2, <1>6, <1>7, <1>9, <1>10 DEF TablaBien, SinRepetir
  <2>2. \A i \in 2 .. m - 1 : i \in 1 .. m - 1
    BY <1>3
  <2>3. \A i \in 2 .. m - 1 : u[i].id \in Ids /\ u[i].tam # 0
    BY <1>2, <1>6, <1>9, <2>2 DEF TablaBien
  <2>4. m - 1 # 0
    BY <1>3
  <2> QED BY <1>2, <1>5, <1>10, <2>1, <2>3, <2>4 DEF TablaBien
<1>12. /\ TablasBien' /\ Len(tabla') = Len(tabla) /\ DOMAIN tabla' = DOMAIN tabla
       /\ \A q \in DOMAIN tabla \ {p} : tabla'[q] = tabla[q]
       /\ \A r : r \in Propios' <=> \/ r \in Propios /\ r[1] # p
                                    \/ \E i \in 2 .. m - 1 : r = <<p, i>>
       /\ \A r \in Propios' : r[1] # p => De(r)' = De(r)
       /\ \A i : De(<<p, i>>)' = u[i]
  <2>1. tabla' = [tabla EXCEPT ![p] = u]
    BY <1>1, <1>4
  <2>2. Cambiada(p, u, Len(u))
    BY <1>11, <2>1, CambiaUna
  <2>3. Cambiada(p, u, m - 1)
    BY <1>5, <2>2
  <2> QED BY <2>3 DEF Cambiada
<1>13. \A r : r \in Propios <=> \/ r \in Propios /\ r[1] # p
                                \/ \E i \in 2 .. m : r = <<p, i>>
  <2>1. \A r : r \in Propios <=> \E q \in DOMAIN tabla : \E i \in 2 .. Len(tabla[q]) : r = <<q, i>>
    BY DEF Propios
  <2>2. Len(tabla[p]) = m
    BY <1>1, <1>2
  <2>3. ASSUME NEW r, r \in Propios, r[1] = p PROVE \E i \in 2 .. m : r = <<p, i>>
    BY <2>1, <2>2, <2>3
  <2>4. ASSUME NEW i \in 2 .. m PROVE <<p, i>> \in Propios
    BY <2>1, <2>2
  <2> QED BY <2>3, <2>4
<1>14. PICK P : P = Propios'
  OBVIOUS
<1> DEFINE c == [r \in P |-> IF r[1] = p THEN <<p, v(r[2])>> ELSE r]
<1>15. ASSUME NEW r \in P
       PROVE  \/ r[1] # p /\ c[r] = r /\ r \in Propios /\ De(r)' = De(r)
              \/ \E i \in 2 .. m - 1 : /\ r = <<p, i>> /\ c[r] = <<p, v(i)>> /\ c[r] \in Propios
                                       /\ De(r)' = De(c[r]) /\ r[1] = p /\ r[2] = i
  <2>1. CASE r \in Propios /\ r[1] # p
    BY <1>12, <1>14, <2>1
  <2>2. CASE \E i \in 2 .. m - 1 : r = <<p, i>>
    <3>1. PICK i \in 2 .. m - 1 : r = <<p, i>>
      BY <2>2
    <3>2. i \in 1 .. m - 1
      BY <1>3
    <3>3. c[r] = <<p, v(i)>> /\ v(i) \in 2 .. m /\ r[1] = p /\ r[2] = i
      BY <1>6, <3>1, <3>2
    <3>4. De(r)' = u[i] /\ De(c[r]) = s[v(i)]
      <4>1. De(r)' = u[i]
        BY <1>12, <3>1
      <4> HIDE DEF c
      <4> QED BY <1>1, <3>3, <4>1 DEF De
    <3> HIDE DEF c
    <3> QED BY <1>9, <1>13, <3>1, <3>2, <3>3, <3>4
  <2> QED BY <1>12, <1>14, <2>1, <2>2
<1> HIDE DEF c
<1>16. c \in [P -> Propios]
  <2>1. \A r \in P : c[r] \in Propios
    BY <1>15
  <2> QED BY <2>1 DEF c
<1>17. \A r, q \in P : c[r] = c[q] => r = q
  <2> SUFFICES ASSUME NEW r \in P, NEW q \in P, c[r] = c[q] PROVE r = q
    OBVIOUS
  <2>1. \A i \in 2 .. m - 1 : i \in 1 .. m - 1
    BY <1>3
  <2>2. CASE r[1] # p \/ q[1] # p
    BY <1>15, <2>2
  <2>3. CASE r[1] = p /\ q[1] = p
    <3>1. PICK i \in 2 .. m - 1 : r = <<p, i>> /\ c[r] = <<p, v(i)>>
      BY <1>15, <2>3
    <3>2. PICK k \in 2 .. m - 1 : q = <<p, k>> /\ c[q] = <<p, v(k)>>
      BY <1>15, <2>3
    <3>3. v(i) = v(k)
      BY <3>1, <3>2
    <3> QED BY <1>7, <2>1, <3>1, <3>2, <3>3
  <2> QED BY <2>2, <2>3
<1>18. ASSUME NEW q \in Propios PROVE (\E r \in P : c[r] = q) <=> q \notin {<<p, j>>}
  <2>1. ASSUME NEW r \in P, c[r] = <<p, j>> PROVE FALSE
    <3>1. PICK i \in 2 .. m - 1 : c[r] = <<p, v(i)>>
      BY <1>15, <2>1
    <3>2. i \in 1 .. m - 1 /\ v(i) = j
      BY <1>3, <2>1, <3>1
    <3> QED BY <1>6, <3>2
  <2>2. ASSUME q # <<p, j>> PROVE \E r \in P : c[r] = q
    <3>1. CASE q[1] # p
      <4>1. q \in P
        BY <1>12, <1>14, <3>1
      <4> QED BY <3>1, <4>1 DEF c
    <3>2. CASE q[1] = p
      <4>1. PICK k \in 2 .. m : q = <<p, k>>
        BY <1>13, <3>2
      <4>2. PICK i \in 2 .. m - 1 : v(i) = k
        BY <1>8, <2>2, <4>1
      <4>3. <<p, i>> \in P
        BY <1>12, <1>14
      <4>4. <<p, i>>[1] = p /\ <<p, i>>[2] = i
        OBVIOUS
      <4> QED BY <4>1, <4>2, <4>3, <4>4 DEF c
    <3> QED BY <3>1, <3>2
  <2> QED BY <2>1, <2>2
<1>19. \A r \in P : De(r)' = De(c[r]) /\ c[r][1] = r[1]
  <2> SUFFICES ASSUME NEW r \in P PROVE De(r)' = De(c[r]) /\ c[r][1] = r[1]
    OBVIOUS
  <2>1. CASE r[1] # p
    BY <1>15, <2>1
  <2>2. CASE r[1] = p
    BY <1>15, <2>2
  <2> QED BY <2>1, <2>2
<1>20. Restan(c, {<<p, j>>})
  BY <1>14, <1>16, <1>17, <1>18, <1>19 DEF Restan
<1> QED BY <1>12, <1>20

\* eliminar_proceso
LEMMA QuitadasTodas ==
    ASSUME TablasBien, NEW p \in DOMAIN tabla, NEW s \in Seq(SegmentoR), Len(s) = 1,
           s[1] = tabla[p][1], tabla' = [tabla EXCEPT ![p] = s]
    PROVE  /\ TablasBien' /\ Len(tabla') = Len(tabla) /\ DOMAIN tabla' = DOMAIN tabla
           /\ \A q \in DOMAIN tabla \ {p} : tabla'[q] = tabla[q]
           /\ tabla'[p] = s
           /\ \E c : Restan(c, {r \in Propios : r[1] = p})
<1>1. s[1] = Cero
  <2>1. PICK x : x = tabla[p]
    OBVIOUS
  <2>2. TablaBien(x)
    BY <2>1, LasTablas
  <2> QED BY <2>1, <2>2 DEF TablaBien
<1>2. DOMAIN s = {1} /\ 2 .. Len(s) = {}
  BY ListaDe
<1>3. TablaBien(s)
  BY <1>1, <1>2 DEF TablaBien, SinRepetir
<1>4. /\ TablasBien' /\ Len(tabla') = Len(tabla) /\ DOMAIN tabla' = DOMAIN tabla
      /\ tabla'[p] = s /\ \A q \in DOMAIN tabla \ {p} : tabla'[q] = tabla[q]
      /\ \A r : r \in Propios' <=> r \in Propios /\ r[1] # p
      /\ \A r \in Propios' : r[1] # p => De(r)' = De(r)
  <2>1. Cambiada(p, s, Len(s))
    BY <1>3, CambiaUna
  <2> QED BY <1>2, <2>1 DEF Cambiada
<1>5. PICK P : P = Propios'
  OBVIOUS
<1> DEFINE c == [r \in P |-> r]
<1>6. Restan(c, {r \in Propios : r[1] = p})
  BY <1>4, <1>5 DEF Restan
<1> QED BY <1>4, <1>6

\* inicializar_estructura
LEMMA UnaTablaMas ==
    ASSUME TablasBien, tabla' = Append(tabla, <<Segmento(0, 0, TamSegmento)>>), Config
    PROVE  /\ TablasBien' /\ Len(tabla') = Len(tabla) + 1
           /\ DOMAIN tabla' = DOMAIN tabla \union {Len(tabla) + 1}
           /\ \A q \in DOMAIN tabla : tabla'[q] = tabla[q]
           /\ tabla'[Len(tabla) + 1] = <<Cero>>
           /\ \E c : Restan(c, {})
<1>1. PICK n \in Nat : n = Len(tabla) /\ DOMAIN tabla = 1 .. n
  BY LasTablas
<1>2. PICK s : s = <<Cero>>
  OBVIOUS
<1>3. s \in Seq(SegmentoR) /\ Len(s) = 1 /\ DOMAIN s = {1} /\ s[1] = Cero /\ 2 .. Len(s) = {}
  <2>1. Cero \in SegmentoR
    BY TamaniosAssumption DEF Cero, Segmento, SegmentoR
  <2> QED BY <1>2, <2>1
<1>4. TablaBien(s)
  BY <1>3 DEF TablaBien, SinRepetir
<1>5. PICK t : t = tabla' /\ t = Append(tabla, s)
  BY <1>2 DEF Cero
<1>6. /\ t \in Seq(Seq(SegmentoR)) /\ Len(t) = n + 1 /\ DOMAIN t = (1 .. n) \union {n + 1}
      /\ \A i \in 1 .. n : t[i] = tabla[i]
      /\ t[n + 1] = s
  <2>1. tabla \in Seq(Seq(SegmentoR))
    BY DEF TablasBien
  <2>2. PICK R : R = Seq(SegmentoR)
    OBVIOUS
  <2>3. /\ t \in Seq(R) /\ Len(t) = Len(tabla) + 1
        /\ \A i \in 1 .. Len(tabla) : t[i] = tabla[i]
        /\ t[Len(tabla) + 1] = s
    <3>1. PICK z : z = tabla
      OBVIOUS
    <3>2. z \in Seq(R) /\ s \in R /\ t = Append(z, s)
      BY <1>3, <1>5, <2>1, <2>2, <3>1
    <3>3. /\ t \in Seq(R) /\ Len(t) = Len(z) + 1
          /\ \A i \in 1 .. Len(z) : t[i] = z[i]
          /\ t[Len(z) + 1] = s
      BY ONLY <3>2, AppendProperties
    <3> QED BY <3>1, <3>3
  <2>4. DOMAIN t = 1 .. n + 1
    BY <1>1, <2>3, ListaDe
  <2>5. 1 .. n + 1 = (1 .. n) \union {n + 1}
    BY <1>1
  <2> QED BY <1>1, <2>2, <2>3, <2>4, <2>5
<1>7. \A q \in DOMAIN t : TablaBien(t[q])
  <2> SUFFICES ASSUME NEW q \in DOMAIN t PROVE TablaBien(t[q])
    OBVIOUS
  <2>1. PICK x : x = t[q]
    OBVIOUS
  <2>2. x = s \/ (q \in DOMAIN tabla /\ x = tabla[q])
    BY <1>1, <1>6, <2>1
  <2>3. TablaBien(x)
    <3>1. CASE x = s
      BY <1>4, <3>1
    <3>2. CASE q \in DOMAIN tabla /\ x = tabla[q]
      BY <3>2 DEF TablasBien
    <3> QED BY <2>2, <3>1, <3>2
  <2> QED BY <2>1, <2>3
<1>8. TablasBien'
  BY <1>5, <1>6, <1>7 DEF TablasBien
<1>9. Propios' = Propios
  <2>1. \A r : r \in Propios' <=> \E q \in DOMAIN t : \E j \in 2 .. Len(t[q]) : r = <<q, j>>
    BY <1>5 DEF Propios
  <2>2. \A r : r \in Propios <=> \E q \in DOMAIN tabla : \E j \in 2 .. Len(tabla[q]) : r = <<q, j>>
    BY DEF Propios
  <2>3. 2 .. Len(t[n + 1]) = {}
    BY <1>3, <1>6
  <2>4. ASSUME NEW r PROVE r \in Propios' <=> r \in Propios
    <3>1. \A q \in DOMAIN tabla : q \in DOMAIN t /\ t[q] = tabla[q]
      BY <1>1, <1>6
    <3>2. \A q \in DOMAIN t : q \in DOMAIN tabla \/ 2 .. Len(t[q]) = {}
      BY <1>1, <1>6, <2>3
    <3> QED BY <2>1, <2>2, <3>1, <3>2
  <2> QED BY <2>4
<1>10. \A r \in Propios : De(r)' = De(r)
  BY <1>1, <1>5, <1>6 DEF Propios, De
<1> DEFINE c == [r \in Propios |-> r]
<1>11. Restan(c, {})
  BY <1>9, <1>10 DEF Restan
<1> QED BY <1>1, <1>2, <1>5, <1>6, <1>8, <1>11

-----------------------------------------------------------------------------
(* One lemma per step.                                                         *)

HuecoG == [base : Nat, tam : Int]

\* A table of holes is one whose sizes may be negative.
LEMMA HuecosEnteros ==
    ASSUME NEW l \in Seq(HuecoR)
    PROVE  l \in Seq(HuecoG)
<1>1. HuecoR \subseteq HuecoG
  BY TamaniosAssumption DEF HuecoR, HuecoG
<1>2. l \in [1 .. Len(l) -> HuecoR] /\ Len(l) \in Nat
  BY ListaDe
<1>3. l \in [1 .. Len(l) -> HuecoG]
  BY <1>1, <1>2
<1> QED BY <1>2, <1>3, EsLista

\* The segment 0 does not belong to the ids that programs use.
LEMMA InvInicial ==
    ASSUME Config, Init
    PROVE  MemoriaInv
<1>1. TamMemoria \in Nat /\ TamSegmento \in Nat /\ TamSegmento < TamMemoria
  BY TamaniosAssumption DEF Config
<1>2. PICK x : x = Hueco(TamSegmento, TamMemoria - TamSegmento)
  OBVIOUS
<1>3. huecos = <<x>>
  BY <1>1, <1>2 DEF Init
<1>4. x \in HuecoR /\ Hasta(x) = TamSegmento .. TamMemoria - 1
  <2>1. x.base = TamSegmento /\ x.tam = TamMemoria - TamSegmento
    BY <1>2 DEF Hueco
  <2>2. TamMemoria - TamSegmento \in Nat /\ TamSegmento \in 0 .. TamMemoria
        /\ TamSegmento + (TamMemoria - TamSegmento) - 1 = TamMemoria - 1
    BY <1>1
  <2> QED BY <1>2, <2>1, <2>2 DEF Hasta, Hueco, HuecoR
<1>5. tabla = <<>> /\ DOMAIN tabla = {} /\ Len(tabla) = 0 /\ Propios = {}
  BY DEF Init, Propios
<1>6. TablasBien
  BY <1>5 DEF TablasBien
<1>7. PICK h : h = huecos
  OBVIOUS
<1>8. h \in Seq(HuecoR) /\ DOMAIN h = {1} /\ h[1] = x
  BY <1>3, <1>4, <1>7
<1>9. Separados(h) /\ Cubre(h) = Hasta(x)
  BY <1>8 DEF Separados, Cubre
<1>10. Reparto
  <2>1. Ocupadas = {} /\ SinSolapes
    BY <1>5 DEF Ocupadas, SinSolapes
  <2> QED BY <1>4, <1>7, <1>8, <1>9, <2>1 DEF Reparto, Enteras
<1>11. huecos \in Seq([base : Nat, tam : Int])
  BY <1>7, <1>8, HuecosEnteros DEF HuecoG
<1>12. celdas \in Contenidos
  BY DEF Init, Contenidos
<1>13. ContenidoIntacto
  BY <1>5 DEF ContenidoIntacto
<1>14. Len(tabla) <= MaxProcesos
  BY <1>5, TamaniosAssumption
<1> QED BY <1>5, <1>6, <1>10, <1>11, <1>12, <1>13, <1>14
        DEF Init, MemoriaInv, Pendiente, Muertos, EscritoVive

\* INICIALIZAR_ESTRUCTURA keeps the invariant.
LEMMA InvInicializar ==
    ASSUME MemoriaInv, Config, InicializarEstructura
    PROVE  MemoriaInv'
<1>1. PICK n \in Nat : n = Len(tabla) /\ DOMAIN tabla = 1 .. n /\ n < MaxProcesos
  BY LasTablas DEF MemoriaInv, InicializarEstructura
<1>2. /\ TablasBien' /\ Len(tabla') = n + 1
      /\ DOMAIN tabla' = DOMAIN tabla \union {n + 1}
      /\ \A q \in DOMAIN tabla : tabla'[q] = tabla[q]
      /\ tabla'[n + 1] = <<Cero>>
  BY <1>1, UnaTablaMas DEF MemoriaInv, InicializarEstructura
<1>3. PICK c : Restan(c, {})
  BY UnaTablaMas DEF MemoriaInv, InicializarEstructura
<1>4. UNCHANGED <<huecos, celdas, pedido, sana, escrito>> /\ vivos' = vivos \union {n + 1} /\ sana
  BY <1>1 DEF InicializarEstructura
<1>5. Reparto'
  <2>1. Reparto
    BY <1>4 DEF MemoriaInv
  <2>2. /\ huecos' \in Seq(HuecoR) /\ Separados(huecos)'
        /\ Cubre(huecos)' = Cubre(huecos) \union UNION {Hasta(De(q)) : q \in {}}
    BY <1>4, <2>1 DEF Reparto
  <2> QED BY <1>3, <2>1, <2>2, RestanReparto
<1>6. ContenidoIntacto' /\ EscritoVive'
  <2>1. 0 \notin DOMAIN tabla'
    BY <1>1, <1>2
  <2>2. escrito' = escrito /\ (\A q \in Propios \ {} : q[1] \in vivos => q[1] \in vivos') /\ UNCHANGED celdas
    BY <1>4
  <2> QED BY <1>3, <2>1, <2>2, RestanEscritos DEF MemoriaInv
<1>7. Pendiente'
  <2>1. CASE pedido = SinPedido
    BY <1>4, <2>1 DEF Pendiente
  <2>2. CASE /\ pedido \in [paso : {"compactar", "otra vez"}, pid : vivos, id : Ids, tam : Tamanios]
             /\ \A j \in DOMAIN tabla[pedido.pid] : tabla[pedido.pid][j].id # pedido.id
             /\ pedido.paso = "compactar" => HayEspacio(pedido.tam)
             /\ pedido.paso = "otra vez" => Alcanzan(huecos, pedido.tam) # {}
    <3>1. pedido.pid \in vivos /\ pedido.pid \in DOMAIN tabla
      BY <2>2 DEF MemoriaInv
    <3>2. tabla'[pedido.pid] = tabla[pedido.pid]
      BY <1>2, <3>1
    <3>3. pedido' \in [paso : {"compactar", "otra vez"}, pid : vivos', id : Ids, tam : Tamanios]
      <4>1. [paso : {"compactar", "otra vez"}, pid : vivos, id : Ids, tam : Tamanios] \subseteq
              [paso : {"compactar", "otra vez"}, pid : vivos', id : Ids, tam : Tamanios]
        BY <1>4
      <4> QED BY <1>4, <2>2, <4>1
    <3> QED BY <1>4, <2>2, <3>2, <3>3 DEF Pendiente, HayEspacio, Alcanzan
  <2> QED BY <2>1, <2>2 DEF MemoriaInv, Pendiente
<1>8. Muertos'
  <2>1. \A q \in DOMAIN tabla' \ vivos' : q \in DOMAIN tabla \ vivos /\ tabla'[q] = tabla[q]
    BY <1>2, <1>4
  <2> QED BY <2>1 DEF MemoriaInv, Muertos
<1>9. Len(tabla)' <= MaxProcesos /\ (vivos \subseteq DOMAIN tabla)'
  <2>1. n + 1 <= MaxProcesos
    BY <1>1, TamaniosAssumption
  <2> QED BY <1>2, <1>4, <2>1 DEF MemoriaInv
<1> QED BY <1>2, <1>4, <1>5, <1>6, <1>7, <1>8, <1>9 DEF MemoriaInv, Contenidos

-----------------------------------------------------------------------------
(* CREAR_SEGMENTO.                                                             *)

\* Each algorithm returns a hole that is large enough, if there is one.
LEMMA BuscarAlcanza ==
    ASSUME NEW l \in Seq(HuecoR), NEW tam \in Nat, Alcanzan(l, tam) # {}
    PROVE  Buscar(l, tam) \in DOMAIN l /\ l[Buscar(l, tam)].tam >= tam
<1>1. PICK n \in Nat : DOMAIN l = 1 .. n /\ \A i \in 1 .. n : l[i].tam \in Nat
  <2>1. Len(l) \in Nat /\ DOMAIN l = 1 .. Len(l) /\ \A i \in 1 .. Len(l) : l[i] \in HuecoR
    BY ListaDe
  <2> QED BY <2>1 DEF HuecoR
<1>2. Alcanzan(l, tam) \in SUBSET Nat /\ Alcanzan(l, tam) \subseteq DOMAIN l
      /\ \A j \in Alcanzan(l, tam) : l[j].tam >= tam
  BY <1>1 DEF Alcanzan
<1>3. BuscarPorFirst(l, tam) \in Alcanzan(l, tam)
  BY <1>2, MenorDe DEF BuscarPorFirst
<1>4. BuscarPorBest(l, tam) \in Alcanzan(l, tam)
  <2> DEFINE i == BuscarPorFirst(l, tam)
             mejores == {j \in Alcanzan(l, tam) : j > i /\ l[j].tam < l[i].tam}
  <2>1. CASE mejores = {}
    BY <1>3, <2>1 DEF BuscarPorBest
  <2>2. CASE mejores # {}
    <3>1. BuscarPorBest(l, tam) = Min(mejores)
      BY <2>2 DEF BuscarPorBest
    <3>2. mejores \in SUBSET Nat /\ mejores \subseteq Alcanzan(l, tam)
      BY <1>2
    <3> HIDE DEF mejores
    <3>3. Min(mejores) \in mejores
      BY <2>2, <3>2, MenorDe
    <3> QED BY <3>1, <3>2, <3>3
  <2> QED BY <2>1, <2>2
<1>5. BuscarPorWorst(l, tam) \in DOMAIN l /\ l[BuscarPorWorst(l, tam)].tam >= tam
  <2> DEFINE i == BuscarPorFirst(l, tam)
             mejores == {j \in DOMAIN l : j > i /\ l[j].tam > l[i].tam}
  <2>1. CASE mejores = {}
    BY <1>2, <1>3, <2>1 DEF BuscarPorWorst
  <2>2. CASE mejores # {}
    <3>1. BuscarPorWorst(l, tam) = Min(mejores)
      BY <2>2 DEF BuscarPorWorst
    <3>2. mejores \in SUBSET Nat
      BY <1>1
    <3>3. \A j \in mejores : j \in DOMAIN l /\ l[j].tam >= tam
      <4>1. l[i].tam >= tam /\ i \in 1 .. n
        BY <1>1, <1>2, <1>3
      <4> HIDE DEF i
      <4> QED BY <1>1, <4>1
    <3> HIDE DEF mejores
    <3>4. Min(mejores) \in mejores
      BY <2>2, <3>2, MenorDe
    <3> QED BY <3>1, <3>3, <3>4
  <2> QED BY <2>1, <2>2
<1> QED BY <1>2, <1>3, <1>4, <1>5, AsignacionAssumption DEF Buscar

\* A segment more, x at n, whatever the hole it comes from.
TrasAgregar(n, x) ==
    /\ TablasBien' /\ Len(tabla)' <= MaxProcesos /\ (vivos \subseteq DOMAIN tabla)'
    /\ Muertos' /\ EscritoVive' /\ ContenidoIntacto'
    /\ Propios' = Propios \union {n} /\ n \notin Propios
    /\ De(n)' = x
    /\ \A r \in Propios : De(r)' = De(r)

\* A new segment disturbs neither the dead, nor the one written, nor what is
\* kept of it.
LEMMA InvAgregar ==
    ASSUME MemoriaInv, NEW p \in vivos, NEW id \in Ids, NEW tam \in Tamanios,
           NEW base \in 0 .. TamMemoria,
           \A j \in DOMAIN tabla[p] : tabla[p][j].id # id,
           Agregar(p, id, base, tam), UNCHANGED <<celdas, vivos, escrito>>,
           NEW n, n = <<p, Len(tabla[p]) + 1>>
    PROVE  TrasAgregar(n, Segmento(id, base, tam))
<1>1. tam \in Nat \ {0} /\ p \in DOMAIN tabla /\ TablasBien
  BY TamaniosAssumption DEF MemoriaInv
<1>2. /\ TablasBien' /\ Len(tabla') = Len(tabla) /\ DOMAIN tabla' = DOMAIN tabla
      /\ \A q \in DOMAIN tabla \ {p} : tabla'[q] = tabla[q]
      /\ Propios' = Propios \union {n} /\ n \notin Propios
      /\ De(n)' = Segmento(id, base, tam)
      /\ \A r \in Propios : De(r)' = De(r)
  <2>1. Crecida(p, n, Segmento(id, base, tam))
    BY <1>1, Agregada
  <2> QED BY <2>1 DEF Crecida
<1>3. Muertos'
  <2>1. \A q \in DOMAIN tabla \ vivos : q # p /\ tabla'[q] = tabla[q]
    BY <1>2
  <2> QED BY <1>2, <2>1 DEF MemoriaInv, Muertos
<1>4. EscritoVive'
  <2>1. CASE escrito \in {Nadie, Borrado}
    BY <2>1 DEF EscritoVive, Nadie, Borrado
  <2>2. CASE \E r \in Propios : r[1] \in vivos /\ escrito = <<r[1], De(r).id>>
    BY <1>2, <2>2 DEF EscritoVive
  <2> QED BY <2>1, <2>2 DEF MemoriaInv, EscritoVive
<1>5. escrito # <<p, id>>
  <2> SUFFICES ASSUME escrito = <<p, id>> PROVE FALSE
    OBVIOUS
  <2>1. p # 0
    BY <1>1, LasTablas
  <2>2. escrito # Nadie /\ escrito # Borrado
    BY <2>1 DEF Nadie, Borrado
  <2>3. PICK r \in Propios : escrito = <<r[1], De(r).id>>
    BY <2>2 DEF MemoriaInv, EscritoVive
  <2>4. r[1] = p /\ De(r).id = id
    BY <2>3
  <2>5. \E j \in 2 .. Len(tabla[p]) : r = <<p, j>>
    BY <2>4 DEF Propios
  <2>6. DOMAIN tabla[p] = 1 .. Len(tabla[p])
    BY <1>1, LasTablas
  <2> QED BY <2>4, <2>5, <2>6 DEF De
<1>6. ContenidoIntacto'
  <2> SUFFICES ASSUME NEW r \in Propios', escrito' = <<r[1], De(r)'.id>>, NEW a \in Hasta(De(r)')
               PROVE  celdas'[a] = a - De(r)'.base + 1
    BY DEF ContenidoIntacto
  <2>1. CASE r = n
    <3>1. n[1] = p /\ De(n)'.id = id
      BY <1>2 DEF Segmento
    <3> QED BY <1>5, <2>1, <3>1
  <2>2. CASE r \in Propios
    <3>1. PICK x : x = De(r)' /\ x = De(r)
      BY <1>2, <2>2
    <3> QED BY <2>2, <3>1 DEF MemoriaInv, ContenidoIntacto
  <2> QED BY <1>2, <2>1, <2>2
<1> QED BY <1>1, <1>2, <1>3, <1>4, <1>6 DEF MemoriaInv, TrasAgregar

\* The list of holes is put in order and nothing else.
LEMMA InvOrdenar ==
    ASSUME Reparto, huecos' \in Ordenamientos(huecos) \/ huecos' = huecos, UNCHANGED tabla
    PROVE  Reparto' /\ SumaDe(huecos)' = SumaDe(huecos)
<1>1. PICK h : h = huecos'
  OBVIOUS
<1>2. h \in Seq(HuecoR) /\ Separados(h) /\ Cubre(h) = Cubre(huecos)
  BY <1>1, Ordenado DEF Reparto
<1>3. Restan([r \in Propios |-> r], {})
  BY RestanTodas
<1>4. PICK c : Restan(c, {})
  BY <1>3
<1>5. Cubre(huecos)' = Cubre(huecos) \union UNION {Hasta(De(q)) : q \in {}}
  BY <1>1, <1>2
<1>6. Reparto'
  BY <1>1, <1>2, <1>4, <1>5, RestanReparto
<1>7. SumaDe(huecos) = Cardinality(Cubre(huecos)) /\ Cubre(huecos) \subseteq 0 .. TamMemoria - 1
  BY SumaHuecos
<1>8. SumaDe(h) = Cardinality(Cubre(h))
  BY <1>2, <1>7, SumaLista
<1> QED BY <1>1, <1>2, <1>6, <1>7, <1>8

\* The tables, the contents and the processes stay as they are.
LEMMA InvQuieto ==
    ASSUME MemoriaInv, UNCHANGED <<tabla, celdas, vivos, escrito>>
    PROVE  /\ TablasBien' /\ Len(tabla)' <= MaxProcesos /\ (vivos \subseteq DOMAIN tabla)'
           /\ (celdas \in Contenidos)'
           /\ Muertos' /\ EscritoVive' /\ ContenidoIntacto'
<1>1. Propios' = Propios /\ \A r : De(r)' = De(r)
  BY DEF Propios, De
<1>2. EscritoVive'
  BY <1>1 DEF MemoriaInv, EscritoVive, Nadie, Borrado
<1>3. ContenidoIntacto'
  <2> SUFFICES ASSUME NEW r \in Propios, escrito' = <<r[1], De(r)'.id>>, NEW a \in Hasta(De(r)')
               PROVE  celdas'[a] = a - De(r)'.base + 1
    BY <1>1 DEF ContenidoIntacto
  <2>1. PICK x : x = De(r)' /\ x = De(r)
    BY <1>1
  <2> QED BY <2>1 DEF MemoriaInv, ContenidoIntacto
<1> QED BY <1>2, <1>3 DEF MemoriaInv, TablasBien, Contenidos, Muertos

-----------------------------------------------------------------------------
\* The segment is taken from the start of a hole.
LEMMA RepartoCrear ==
    ASSUME MemoriaInv, sana, NEW p \in vivos, NEW id \in Ids, NEW tam \in Tamanios,
           \A j \in DOMAIN tabla[p] : tabla[p][j].id # id,
           HayHueco(p, id, tam), UNCHANGED <<celdas, vivos, escrito>>
    PROVE  /\ Reparto' /\ TablasBien' /\ Len(tabla)' <= MaxProcesos
           /\ (vivos \subseteq DOMAIN tabla)'
           /\ Muertos' /\ EscritoVive' /\ ContenidoIntacto'
           /\ SumaDe(huecos)' = SumaDe(huecos) - tam
<1>1. Reparto /\ huecos \in Seq(HuecoR) /\ Separados(huecos) /\ tam \in Nat \ {0}
      /\ TamMemoria \in Nat
  BY TamaniosAssumption DEF MemoriaInv, Reparto
<1>2. PICK i : i = Buscar(huecos, tam)
  OBVIOUS
<1>3. i \in DOMAIN huecos /\ huecos[i].tam >= tam
  BY <1>1, <1>2, BuscarAlcanza DEF HayHueco
<1>4. PICK b \in 0 .. TamMemoria, t \in Nat : b = huecos[i].base /\ t = huecos[i].tam /\ tam <= t
  <2>1. huecos[i] \in HuecoR
    BY <1>1, <1>3, ListaDe
  <2> QED BY <1>1, <1>3, <2>1 DEF HuecoR
<1>5. Agregar(p, id, b, tam)
  BY <1>2, <1>4 DEF HayHueco
<1>n. PICK n : n = <<p, Len(tabla[p]) + 1>>
  OBVIOUS
<1> DEFINE area == b .. b + tam - 1
<1>6. PICK o : o = Ocupar(huecos, i, tam) /\ huecos' \in Ordenamientos(o)
  BY <1>2 DEF HayHueco
<1>7. Cubre(huecos) \subseteq 0 .. TamMemoria - 1
  BY <1>1, SumaHuecos
<1>8. /\ o \in Seq(HuecoR) /\ Separados(o)
      /\ area \subseteq Cubre(huecos) /\ Cubre(o) = Cubre(huecos) \ area
  BY <1>1, <1>3, <1>4, <1>6, <1>7, Ocupado
<1>9. huecos' \in Seq(HuecoR) /\ Separados(huecos)' /\ Cubre(huecos)' = Cubre(huecos) \ area
  <2>1. PICK h : h = huecos'
    OBVIOUS
  <2>2. h \in Seq(HuecoR) /\ Separados(h) /\ Cubre(h) = Cubre(o)
    BY <1>6, <1>8, <2>1, Ordenado
  <2> QED BY <1>8, <2>1, <2>2
<1>10. /\ TablasBien' /\ Len(tabla)' <= MaxProcesos /\ (vivos \subseteq DOMAIN tabla)'
       /\ Muertos' /\ EscritoVive' /\ ContenidoIntacto'
       /\ Propios' = Propios \union {n} /\ n \notin Propios
       /\ De(n)' = Segmento(id, b, tam)
       /\ \A r \in Propios : De(r)' = De(r)
  <2> HIDE DEF area
  <2>1. TrasAgregar(n, Segmento(id, b, tam))
    BY <1>5, <1>n, InvAgregar
  <2> QED BY <2>1 DEF TrasAgregar
<1>11. Hasta(De(n)') = area
  <2>1. PICK x : x = De(n)' /\ x = Segmento(id, b, tam)
    BY <1>10
  <2>2. Hasta(x) = area
    BY <2>1 DEF Hasta, Segmento
  <2> QED BY <2>1, <2>2
<1> HIDE DEF area
<1>12. \A r \in Propios : Hasta(De(r)') = Hasta(De(r)) /\ Hasta(De(r)) \subseteq Ocupadas
  <2> SUFFICES ASSUME NEW r \in Propios
               PROVE  Hasta(De(r)') = Hasta(De(r)) /\ Hasta(De(r)) \subseteq Ocupadas
    OBVIOUS
  <2>1. PICK x : x = De(r)' /\ x = De(r)
    BY <1>10
  <2> QED BY <2>1 DEF Ocupadas
<1>13. area \subseteq Enteras /\ area \cap Ocupadas = {}
  BY <1>1, <1>8 DEF Reparto
<1>0. PICK P : P = Propios'
  OBVIOUS
<1>14. SinSolapes'
  <2>1. ASSUME NEW r \in P PROVE Hasta(De(r)') \subseteq TamSegmento .. TamMemoria - 1
    <3>1. CASE r = n
      BY <1>11, <1>13, <3>1 DEF Enteras
    <3>2. CASE r \in Propios
      BY <1>1, <1>12, <3>2 DEF Reparto, SinSolapes
    <3> QED BY <1>0, <1>10, <3>1, <3>2
  <2>2. ASSUME NEW r \in P, NEW q \in P, r # q PROVE Hasta(De(r)') \cap Hasta(De(q)') = {}
    <3>1. CASE r \in Propios /\ q \in Propios
      <4>1. Hasta(De(r)) \cap Hasta(De(q)) = {}
        BY <1>1, <2>2, <3>1 DEF Reparto, SinSolapes
      <4> QED BY <1>12, <3>1, <4>1
    <3>2. CASE r = n /\ q \in Propios
      BY <1>11, <1>12, <1>13, <3>2
    <3>3. CASE r \in Propios /\ q = n
      BY <1>11, <1>12, <1>13, <3>3
    <3> QED BY <1>0, <1>10, <2>2, <3>1, <3>2, <3>3
  <2> QED BY <1>0, <2>1, <2>2 DEF SinSolapes
<1>15. Ocupadas' = Ocupadas \union area
  <2>1. \A a : a \in Ocupadas' <=> \E r \in P : a \in Hasta(De(r)')
    BY <1>0 DEF Ocupadas
  <2>2. \A a : a \in Ocupadas <=> \E r \in Propios : a \in Hasta(De(r))
    BY DEF Ocupadas
  <2>3. ASSUME NEW a, a \in Ocupadas' PROVE a \in Ocupadas \union area
    <3>1. PICK r \in P : a \in Hasta(De(r)')
      BY <2>1, <2>3
    <3>2. CASE r = n
      BY <1>11, <3>1, <3>2
    <3>3. CASE r \in Propios
      BY <1>12, <3>1, <3>3
    <3> QED BY <1>0, <1>10, <3>2, <3>3
  <2>4. ASSUME NEW a, a \in Ocupadas PROVE a \in Ocupadas'
    <3>1. PICK r \in Propios : a \in Hasta(De(r))
      BY <2>2, <2>4
    <3>2. r \in P /\ a \in Hasta(De(r)')
      BY <1>0, <1>10, <1>12, <3>1
    <3> QED BY <2>1, <3>2
  <2>5. ASSUME NEW a, a \in area PROVE a \in Ocupadas'
    <3>1. n \in P /\ a \in Hasta(De(n)')
      BY <1>0, <1>10, <1>11, <2>5
    <3> QED BY <2>1, <3>1
  <2> QED BY <2>3, <2>4, <2>5
<1>16. Reparto'
  <2>1. Enteras' = Enteras
    BY DEF Enteras
  <2> QED BY <1>1, <1>9, <1>14, <1>15, <2>1 DEF Reparto
<1>17. SumaDe(huecos)' = SumaDe(huecos) - tam
  <2>1. SumaDe(huecos) = Cardinality(Cubre(huecos)) /\ IsFiniteSet(Cubre(huecos)) /\ SumaDe(huecos) \in Nat
    BY <1>1, SumaHuecos
  <2>2. PICK h : h = huecos'
    OBVIOUS
  <2>3. h \in Seq(HuecoR) /\ Separados(h) /\ Cubre(h) = Cubre(huecos) \ area
    BY <1>9, <2>2
  <2>4. SumaDe(h) = Cardinality(Cubre(h))
    BY <1>7, <2>3, SumaLista
  <2>5. Cardinality(area) = tam
    <3>1. PICK z \in Int : z = b + tam - 1 /\ b \in Int
      BY <1>1, <1>4
    <3>2. Cardinality(b .. z) = IF b > z THEN 0 ELSE z - b + 1
      BY <3>1, FS_Interval
    <3> QED BY <1>1, <1>4, <3>1, <3>2 DEF area
  <2>7. Cardinality(Cubre(huecos) \ area) = Cardinality(Cubre(huecos)) - Cardinality(area)
    <3>1. PICK C : C = Cubre(huecos)
      OBVIOUS
    <3>2. IsFiniteSet(C) /\ C \cap area = area
      BY <1>8, <2>1, <3>1
    <3>3. Cardinality(C \ area) = Cardinality(C) - Cardinality(C \cap area)
      BY <3>2, FS_Difference
    <3> QED BY <3>1, <3>2, <3>3
  <2> QED BY <2>1, <2>2, <2>3, <2>4, <2>5, <2>7
<1> QED BY <1>10, <1>16, <1>17

\* CREAR_SEGMENTO in a hole that is large enough keeps the invariant.
LEMMA InvHayHueco ==
    ASSUME MemoriaInv, sana, NEW p \in vivos, NEW id \in Ids, NEW tam \in Tamanios,
           \A j \in DOMAIN tabla[p] : tabla[p][j].id # id,
           HayHueco(p, id, tam), UNCHANGED <<celdas, vivos, escrito>>
    PROVE  MemoriaInv'
<1>1. /\ Reparto' /\ TablasBien' /\ Len(tabla)' <= MaxProcesos
      /\ (vivos \subseteq DOMAIN tabla)'
      /\ Muertos' /\ EscritoVive' /\ ContenidoIntacto'
  BY RepartoCrear
<1>2. huecos' \in Seq([base : Nat, tam : Int])
  BY <1>1, HuecosEnteros DEF Reparto, HuecoG
<1>3. Pendiente' /\ sana' = sana
  BY DEF HayHueco, Pendiente, SinPedido
<1> QED BY <1>1, <1>2, <1>3 DEF MemoriaInv, Contenidos

\* The kernel is told to ask for a compaction, or that there is no memory.
LEMMA InvPideCompactar ==
    ASSUME MemoriaInv, sana, NEW p \in vivos, NEW id \in Ids, NEW tam \in Tamanios,
           \A j \in DOMAIN tabla[p] : tabla[p][j].id # id,
           PideCompactar(p, id, tam) \/ SinMemoria(tam), UNCHANGED <<celdas, vivos, escrito>>
    PROVE  MemoriaInv' /\ SumaDe(huecos)' = SumaDe(huecos)
<1>1. UNCHANGED tabla /\ (huecos' \in Ordenamientos(huecos) \/ huecos' = huecos) /\ sana' = sana
  BY DEF PideCompactar, SinMemoria
<1>2. Reparto' /\ SumaDe(huecos)' = SumaDe(huecos)
  BY <1>1, InvOrdenar DEF MemoriaInv
<1>3. huecos' \in Seq([base : Nat, tam : Int])
  BY <1>2, HuecosEnteros DEF Reparto, HuecoG
<1>4. Pendiente'
  <2>1. CASE SinMemoria(tam)
    BY <2>1 DEF SinMemoria, Pendiente, SinPedido
  <2>2. CASE PideCompactar(p, id, tam)
    <3>1. pedido' = [paso |-> "compactar", pid |-> p, id |-> id, tam |-> tam] /\ HayEspacio(tam)
      BY <2>2 DEF PideCompactar
    <3>2. pedido' \in [paso : {"compactar", "otra vez"}, pid : vivos', id : Ids, tam : Tamanios]
      BY <3>1
    <3>3. tam <= SumaDe(huecos')
      BY <1>2, <3>1 DEF HayEspacio
    <3> QED BY <1>1, <3>1, <3>2, <3>3 DEF Pendiente, HayEspacio
  <2> QED BY <2>1, <2>2
<1>5. /\ TablasBien' /\ Len(tabla)' <= MaxProcesos /\ (vivos \subseteq DOMAIN tabla)'
      /\ (celdas \in Contenidos)'
      /\ Muertos' /\ EscritoVive' /\ ContenidoIntacto'
  BY <1>1, InvQuieto
<1> QED BY <1>1, <1>2, <1>3, <1>4, <1>5 DEF MemoriaInv

\* The uninitialised index: what is known of the holes is lost, and no more.
LEMMA InvIndice ==
    ASSUME MemoriaInv, sana, NEW p \in vivos, NEW id \in Ids, NEW tam \in Tamanios,
           \A j \in DOMAIN tabla[p] : tabla[p][j].id # id,
           IndiceSinValor(p, id, tam), UNCHANGED <<celdas, vivos, escrito>>
    PROVE  MemoriaInv'
<1>1. Reparto /\ huecos \in Seq(HuecoR) /\ tam \in Nat \ {0} /\ TamMemoria \in Nat
  BY TamaniosAssumption DEF MemoriaInv, Reparto
<1>2. PICK u \in Nat : u = Len(huecos) /\ DOMAIN huecos = 1 .. u /\ \A i \in 1 .. u : huecos[i] \in HuecoR
  BY <1>1, ListaDe
<1>3. u # 0
  <2> SUFFICES ASSUME u = 0 PROVE FALSE
    OBVIOUS
  <2>1. Cubre(huecos) = {}
    BY <1>2 DEF Cubre
  <2>2. SumaDe(huecos) = 0
    BY <1>1, <2>1, SumaHuecos, FS_EmptySet
  <2>3. tam <= SumaDe(huecos)
    BY DEF IndiceSinValor, HayEspacio
  <2> QED BY <1>1, <2>2, <2>3
<1>4. u \in 1 .. u /\ huecos[u] \in HuecoR /\ Last(huecos) = huecos[u]
  <2>1. u \in 1 .. u
    BY <1>2, <1>3
  <2> QED BY <1>2, <2>1 DEF Last
<1>5. PICK b \in 0 .. TamMemoria, t \in Nat : b = huecos[u].base /\ t = huecos[u].tam
  BY <1>4 DEF HuecoR
<1>6. Agregar(p, id, b, tam)
  BY <1>4, <1>5 DEF IndiceSinValor
<1>7. /\ TablasBien' /\ Len(tabla)' <= MaxProcesos /\ (vivos \subseteq DOMAIN tabla)'
      /\ Muertos' /\ EscritoVive' /\ ContenidoIntacto'
  <2>1. PICK n : n = <<p, Len(tabla[p]) + 1>>
    OBVIOUS
  <2>2. TrasAgregar(n, Segmento(id, b, tam))
    BY <1>6, <2>1, InvAgregar
  <2> QED BY <2>2 DEF TrasAgregar
<1>8. huecos' \in Seq(HuecoG)
  <2>1. PICK x : x = Hueco(b + tam, t - tam)
    OBVIOUS
  <2>2. x \in HuecoG
    BY <1>1, <1>5, <2>1 DEF Hueco, HuecoG
  <2>3. huecos \in [1 .. u -> HuecoG]
    BY <1>1, <1>2, HuecosEnteros, ListaDe
  <2>4. PICK menos : menos = [huecos EXCEPT ![u] = x]
    OBVIOUS
  <2>5. menos = Ocupar(huecos, u, tam)
    BY <1>5, <2>1, <2>4 DEF Ocupar
  <2>6. menos \in [1 .. u -> HuecoG] /\ menos[u] = x
    BY <1>4, <2>2, <2>3, <2>4
  <2>7. PICK i \in 1 .. u + 1 :
           huecos' \in Ordenamientos(IF i > u THEN menos ELSE [menos EXCEPT ![i] = menos[u]])
    BY <1>2, <2>5 DEF IndiceSinValor
  <2>8. PICK m : m = IF i > u THEN menos ELSE [menos EXCEPT ![i] = menos[u]]
    OBVIOUS
  <2>9. m \in [1 .. u -> HuecoG]
    BY <2>2, <2>6, <2>8
  <2>10. m \in Seq(HuecoG)
    BY <2>9, EsLista
  <2> QED BY <2>7, <2>8, <2>10, OrdenadoTipo
<1>9. Pendiente' /\ sana' = FALSE
  BY DEF IndiceSinValor, Pendiente, SinPedido
<1> QED BY <1>7, <1>8, <1>9 DEF MemoriaInv, Contenidos, HuecoG

\* CREAR_SEGMENTO keeps the invariant, whatever the answer.
LEMMA InvCrear ==
    ASSUME MemoriaInv, NEW p \in vivos, NEW id \in Ids, NEW tam \in Tamanios,
           \A j \in DOMAIN tabla[p] : tabla[p][j].id # id,
           CrearSegmento(p, id, tam)
    PROVE  MemoriaInv'
<1>1. sana /\ UNCHANGED <<celdas, vivos, escrito>>
  BY DEF CrearSegmento
<1>2. CASE HayHueco(p, id, tam)
  BY <1>1, <1>2, InvHayHueco
<1>3. CASE PideCompactar(p, id, tam) \/ SinMemoria(tam)
  BY <1>1, <1>3, InvPideCompactar
<1>4. CASE IndiceSinValor(p, id, tam)
  BY <1>1, <1>4, InvIndice
<1> QED BY <1>2, <1>3, <1>4 DEF CrearSegmento

-----------------------------------------------------------------------------
(* REALIZAR_COMPACTACION                                                       *)
LEMMA InvCompactar ==
    ASSUME MemoriaInv, Config, RealizarCompactacion
    PROVE  MemoriaInv' /\ SumaDe(huecos)' = SumaDe(huecos)
<1>1. /\ sana /\ tabla' = TablaCompactada /\ huecos' = HuecosCompactados
      /\ celdas' = CeldasCompactadas /\ UNCHANGED <<vivos, negada, sana, escrito>>
      /\ pedido.paso = "compactar" /\ pedido' = [pedido EXCEPT !.paso = "otra vez"]
  BY DEF RealizarCompactacion
<1>2. Reparto /\ SinSolapes /\ TablasBien
  BY <1>1 DEF MemoriaInv, Reparto
<1>3. /\ TablasBien' /\ Reparto' /\ Propios' = Propios
      /\ \A r \in Propios : De(r)'.id = De(r).id /\ De(r)'.tam = De(r).tam
      /\ SumaDe(huecos)' = SumaDe(huecos)
      /\ DOMAIN huecos' = {1} /\ huecos'[1].tam = SumaDe(huecos)
  BY <1>1, <1>2, CompactarReparto
<1>4. PICK M, s, b : Movidas(M, s, b)
  BY <1>2, HayMovidas
<1>5. PICK am : am = AMover
  OBVIOUS
<1>6. Bajadas(tabla', M, s, b)
  <2>1. Bajadas(TablaCompactada, M, s, b)
    BY <1>2, <1>4, HayBajadas
  <2> QED BY <1>1, <2>1
<1>7. \A k \in 1 .. M : De(am[k])'.base = b[k]
  BY <1>2, <1>4, <1>5, <1>6, TablasBajadas
<1>8. /\ celdas' \in Contenidos
      /\ \A k \in 1 .. M : \A a \in b[k] .. b[k + 1] - 1 :
            celdas'[a] = celdas[s[k].base + a - b[k]]
  <2>1. celdas \in Contenidos
    BY DEF MemoriaInv
  <2>2. Copiado(CeldasCompactadas, M, s, b)
    BY <1>2, <1>4, <2>1, Copiadas
  <2> QED BY <1>1, <2>2 DEF Copiado
<1>9. \A k \in 1 .. M : /\ s[k] = De(am[k]) /\ s[k] \in SegmentoR
                        /\ b[k] \in Nat /\ b[k + 1] \in Nat /\ b[k + 1] = b[k] + s[k].tam
  BY <1>2, <1>4, <1>5, BasesMovidas
<1>10. ContenidoIntacto'
  <2> SUFFICES ASSUME NEW r \in Propios, escrito' = <<r[1], De(r)'.id>>, NEW a \in Hasta(De(r)')
               PROVE  celdas'[a] = a - De(r)'.base + 1
    BY <1>3 DEF ContenidoIntacto
  <2>1. PICK k \in 1 .. M : am[k] = r
    BY <1>4, <1>5 DEF Movidas, EnOrden
  <2>2. PICK x \in Nat, y \in Nat, z \in Nat, t \in Nat :
           x = b[k] /\ y = b[k + 1] /\ z = s[k].base /\ t = s[k].tam /\ y = x + t
    BY <1>9, TamaniosAssumption DEF SegmentoR
  <2>3. De(r)'.base = x /\ De(r)'.tam = t /\ De(r).base = z /\ De(r).tam = t
    BY <1>3, <1>7, <1>9, <2>1, <2>2
  <2>4. a \in x .. x + t - 1
    <3>1. PICK v : v = De(r)'
      OBVIOUS
    <3>2. a \in Hasta(v) /\ v.base = x /\ v.tam = t
      BY <2>3, <3>1
    <3> QED BY <3>2 DEF Hasta
  <2>5. a \in x .. y - 1 /\ z + a - x \in z .. z + t - 1 /\ a \in Int
    BY <2>2, <2>4
  <2>6. celdas'[a] = celdas[z + a - x]
    BY <1>8, <2>2, <2>5
  <2>7. celdas[z + a - x] = z + a - x - z + 1
    <3>1. z + a - x \in Hasta(De(r))
      <4>1. PICK v : v = De(r)
        OBVIOUS
      <4>2. Hasta(v) = z .. z + t - 1
        BY <2>3, <4>1 DEF Hasta
      <4> QED BY <2>5, <4>1, <4>2
    <3>2. escrito = <<r[1], De(r).id>>
      BY <1>1, <1>3
    <3>3. \A w \in Hasta(De(r)) : celdas[w] = w - De(r).base + 1
      BY <3>2 DEF MemoriaInv, ContenidoIntacto
    <3>4. PICK w : w = z + a - x
      OBVIOUS
    <3>5. celdas[w] = w - De(r).base + 1
      BY <3>1, <3>3, <3>4
    <3>6. w \in Int /\ z \in Int
      BY <2>2, <2>5, <3>4
    <3>7. celdas[w] = w - z + 1
      BY <2>3, <3>5
    <3>8. w - z + 1 = z + a - x - z + 1
      BY <2>5, <3>4
    <3> QED BY <3>4, <3>7, <3>8
  <2> QED BY <2>2, <2>3, <2>5, <2>6, <2>7
<1>11. EscritoVive'
  <2>1. CASE escrito \in {Nadie, Borrado}
    BY <1>1, <2>1 DEF EscritoVive, Nadie, Borrado
  <2>2. CASE \E r \in Propios : r[1] \in vivos /\ escrito = <<r[1], De(r).id>>
    BY <1>1, <1>3, <2>2 DEF EscritoVive
  <2> QED BY <2>1, <2>2 DEF MemoriaInv, EscritoVive
<1>12. /\ DOMAIN tabla' = DOMAIN tabla /\ Len(tabla') = Len(tabla)
       /\ \A p \in DOMAIN tabla :
             /\ Len(tabla'[p]) = Len(tabla[p])
             /\ \A j \in 1 .. Len(tabla[p]) : tabla'[p][j].id = tabla[p][j].id
  BY <1>6 DEF Bajadas
<1>13. Muertos' /\ (vivos \subseteq DOMAIN tabla)' /\ Len(tabla)' <= MaxProcesos
  BY <1>1, <1>12 DEF MemoriaInv, Muertos
<1>14. Pendiente'
  <2>1. /\ pedido \in [paso : {"compactar", "otra vez"}, pid : vivos, id : Ids, tam : Tamanios]
        /\ \A j \in DOMAIN tabla[pedido.pid] : tabla[pedido.pid][j].id # pedido.id
        /\ HayEspacio(pedido.tam)
    <3>1. Pendiente
      BY DEF MemoriaInv
    <3>2. pedido # SinPedido
      <4>1. SinPedido.paso = "ninguno"
        BY DEF SinPedido
      <4>2. pedido.paso # "ninguno"
        BY <1>1
      <4> HIDE DEF SinPedido
      <4> QED BY <4>1, <4>2
    <3> QED BY <1>1, <3>1, <3>2 DEF Pendiente
  <2>2. PICK q, x, t : q = pedido.pid /\ x = pedido.id /\ t = pedido.tam
    OBVIOUS
  <2>3. /\ pedido' \in [paso : {"compactar", "otra vez"}, pid : vivos, id : Ids, tam : Tamanios]
        /\ pedido'.paso = "otra vez" /\ pedido'.pid = q /\ pedido'.id = x /\ pedido'.tam = t
    BY <1>1, <2>1, <2>2
  <2>4. q \in DOMAIN tabla
    BY <2>1, <2>2 DEF MemoriaInv
  <2>5. DOMAIN tabla'[q] = 1 .. Len(tabla[q]) /\ DOMAIN tabla[q] = 1 .. Len(tabla[q])
    <3>1. tabla'[q] \in Seq(SegmentoR) /\ Len(tabla'[q]) = Len(tabla[q])
      BY <1>6, <2>4 DEF Bajadas
    <3>2. DOMAIN tabla[q] = 1 .. Len(tabla[q])
      BY <1>2, <2>4, LasTablas
    <3> QED BY <3>1, <3>2, ListaDe
  <2>6. \A j \in DOMAIN tabla'[q] : tabla'[q][j].id # x
    BY <1>12, <2>1, <2>2, <2>4, <2>5
  <2>7. Alcanzan(huecos', t) # {}
    <3>1. t <= SumaDe(huecos) /\ t \in Nat /\ SumaDe(huecos) \in Nat
      BY <1>2, <2>1, <2>2, SumaHuecos, TamaniosAssumption DEF HayEspacio
    <3>2. PICK h : h = huecos'
      OBVIOUS
    <3>3. DOMAIN h = {1} /\ h[1].tam >= t
      BY <1>3, <3>1, <3>2
    <3>4. 1 \in Alcanzan(h, t)
      BY <3>3 DEF Alcanzan
    <3> QED BY <3>2, <3>4
  <2> QED BY <1>1, <2>2, <2>3, <2>6, <2>7 DEF Pendiente
<1>15. huecos' \in Seq([base : Nat, tam : Int])
  BY <1>3, HuecosEnteros DEF Reparto, HuecoG
<1> QED BY <1>1, <1>3, <1>8, <1>10, <1>11, <1>13, <1>14, <1>15 DEF MemoriaInv

-----------------------------------------------------------------------------
(* ELIMINAR_SEGMENTO and FINALIZAR.                                            *)

\* The segments of Q, all of p, are released.
LEMMA InvQuitar ==
    ASSUME MemoriaInv, Config, sana, NEW p \in vivos,
           NEW Q \in SUBSET Propios, NEW c, Restan(c, Q),
           TablasBien', Len(tabla') = Len(tabla), DOMAIN tabla' = DOMAIN tabla,
           \A q \in DOMAIN tabla \ {p} : tabla'[q] = tabla[q],
           huecos' \in Seq(HuecoR), Separados(huecos)',
           Cubre(huecos)' = Cubre(huecos) \union UNION {Hasta(De(q)) : q \in Q},
           pedido = SinPedido, UNCHANGED <<celdas, pedido, sana>>,
           vivos' = vivos \/ (vivos' = vivos \ {p} /\ Len(tabla'[p]) = 1),
           \/ escrito' \in {Nadie, Borrado}
           \/ /\ escrito' = escrito /\ \A q \in Q : escrito # <<q[1], De(q).id>>
              /\ \A q \in Propios \ Q : q[1] \in vivos => q[1] \in vivos'
    PROVE  MemoriaInv'
<1>1. Reparto'
  BY RestanReparto DEF MemoriaInv
<1>2. ContenidoIntacto' /\ EscritoVive'
  <2>1. 0 \notin DOMAIN tabla'
    <3>1. 0 \notin DOMAIN tabla
      BY LasTablas DEF MemoriaInv
    <3> QED BY <3>1
  <2> QED BY <2>1, RestanEscritos DEF MemoriaInv
<1>3. Muertos'
  <2>1. ASSUME NEW q \in DOMAIN tabla' \ vivos' PROVE Len(tabla'[q]) = 1
    <3>1. CASE q = p
      BY <2>1, <3>1
    <3>2. CASE q # p
      <4>1. q \in DOMAIN tabla \ vivos /\ tabla'[q] = tabla[q]
        BY <2>1, <3>2
      <4> QED BY <4>1 DEF MemoriaInv, Muertos
    <3> QED BY <3>1, <3>2
  <2> QED BY <2>1 DEF Muertos
<1>4. Pendiente'
  BY DEF Pendiente, SinPedido
<1>5. huecos' \in Seq([base : Nat, tam : Int])
  BY HuecosEnteros DEF HuecoG
<1>6. Len(tabla)' <= MaxProcesos /\ (vivos \subseteq DOMAIN tabla)' /\ (celdas \in Contenidos)'
      /\ (sana \in BOOLEAN)'
  BY DEF MemoriaInv, Contenidos
<1> QED BY <1>1, <1>2, <1>3, <1>4, <1>5, <1>6 DEF MemoriaInv

\* The segments of p are apart, the segment 0 included, and no hole is over them.
LEMMA LosDeUno ==
    ASSUME MemoriaInv, Config, sana, NEW p \in DOMAIN tabla, NEW s, s = tabla[p]
    PROVE  /\ s \in Seq(SegmentoR) /\ TablaBien(s) /\ Separados(s)
           /\ \A j \in 2 .. Len(s) : /\ <<p, j>> \in Propios /\ De(<<p, j>>) = s[j]
                                     /\ Cubre(huecos) \cap Hasta(s[j]) = {}
<1>1. PICK m \in Nat \ {0} : m = Len(s) /\ DOMAIN s = 1 .. m /\ s \in Seq(SegmentoR) /\ TablaBien(s)
  BY LasTablas DEF MemoriaInv, TablaBien
<1>2. \A j \in 2 .. m : <<p, j>> \in Propios /\ De(<<p, j>>) = s[j]
  BY <1>1 DEF Propios, De
<1>3. Reparto /\ SinSolapes
  BY DEF MemoriaInv, Reparto
<1>4. \A j \in 2 .. m : Hasta(s[j]) \subseteq Enteras /\ Cubre(huecos) \cap Hasta(s[j]) = {}
  <2> SUFFICES ASSUME NEW j \in 2 .. m
               PROVE  Hasta(s[j]) \subseteq Enteras /\ Cubre(huecos) \cap Hasta(s[j]) = {}
    OBVIOUS
  <2>1. PICK r \in Propios : De(r) = s[j]
    BY <1>2
  <2> QED BY <1>3, <2>1 DEF Reparto, SinSolapes, Enteras, Ocupadas
<1>5. Hasta(s[1]) \cap Enteras = {}
  <2>1. s[1].base = 0 /\ s[1].tam = TamSegmento /\ TamSegmento \in Nat
    BY <1>1, TamaniosAssumption DEF TablaBien, Cero, Segmento
  <2> QED BY <2>1, TamaniosAssumption DEF Hasta, Enteras
<1>6. Separados(s)
  <2> SUFFICES ASSUME NEW i \in 1 .. m, NEW k \in 1 .. m, i # k
               PROVE  Hasta(s[i]) \cap Hasta(s[k]) = {}
    BY <1>1 DEF Separados
  <2>1. (i = 1 \/ i \in 2 .. m) /\ (k = 1 \/ k \in 2 .. m)
    BY <1>1
  <2>2. CASE i = 1 \/ k = 1
    BY <1>4, <1>5, <2>1, <2>2
  <2>3. CASE i \in 2 .. m /\ k \in 2 .. m
    <3>1. PICK r \in Propios : r = <<p, i>> /\ De(r) = s[i]
      BY <1>2, <2>3
    <3>2. PICK q \in Propios : q = <<p, k>> /\ De(q) = s[k]
      BY <1>2, <2>3
    <3>3. r # q
      BY <3>1, <3>2
    <3> QED BY <1>3, <3>1, <3>2, <3>3 DEF SinSolapes
  <2> QED BY <2>1, <2>2, <2>3
<1> QED BY <1>1, <1>2, <1>4, <1>6

\* What eliminar_segmento leaves: the same, or one segment less, whose
\* addresses are free.
EliminaNada(p, id) ==
    /\ \A j \in DOMAIN tabla[p] : tabla[p][j].id # id
    /\ tabla' = tabla
    /\ huecos' \in Seq(HuecoR) /\ Separados(huecos)' /\ Cubre(huecos)' = Cubre(huecos)
EliminaUno(p, id, j) ==
    /\ j \in 2 .. Len(tabla[p]) /\ tabla[p][j].id = id
    /\ tabla' = [tabla EXCEPT ![p] = RemoveAt(tabla[p], j)]
    /\ Cubre(huecos) \cap Hasta(tabla[p][j]) = {}
    /\ huecos' \in Seq(HuecoR) /\ Separados(huecos)'
    /\ Cubre(huecos)' = Cubre(huecos) \union Hasta(tabla[p][j])

\* ELIMINAR_SEGMENTO takes away one segment, or none when there is none with
\* that id.
LEMMA LoEliminado ==
    ASSUME MemoriaInv, Config, NEW p \in vivos, EliminarSegmento(p)
    PROVE  \E id \in Ids : /\ escrito' = IF escrito = <<p, id>> THEN Borrado ELSE escrito
                           /\ EliminaNada(p, id) \/ \E j : EliminaUno(p, id, j)
<1>1. sana /\ p \in DOMAIN tabla
  BY DEF EliminarSegmento, MemoriaInv
<1>2. PICK s : s = tabla[p]
  OBVIOUS
<1>3. PICK id \in Ids : /\ \E e \in Liberar(s, huecos, id) :
                               tabla' = [tabla EXCEPT ![p] = e.segs] /\ huecos' = e.huecos
                        /\ escrito' = IF escrito = <<p, id>> THEN Borrado ELSE escrito
  BY <1>2 DEF EliminarSegmento
<1>4. PICK e \in Liberar(s, huecos, id) :
              tabla' = [tabla EXCEPT ![p] = e.segs] /\ huecos' = e.huecos
  BY <1>3
<1>5. PICK h : h = huecos
  OBVIOUS
<1>6. h \in Seq(HuecoR) /\ Separados(h) /\ e \in Liberar(s, h, id)
  BY <1>1, <1>4, <1>5 DEF MemoriaInv, Reparto
<1>7. /\ s \in Seq(SegmentoR) /\ TablaBien(s)
      /\ \A j \in 2 .. Len(s) : Cubre(h) \cap Hasta(s[j]) = {}
  BY <1>1, <1>2, <1>5, LosDeUno
<1>8. TablasBien
  BY DEF MemoriaInv
<1>9. CASE \A j \in DOMAIN s : s[j].id # id
  <2>1. e.segs = s /\ e.huecos \in Seq(HuecoR) /\ Separados(e.huecos) /\ Cubre(e.huecos) = Cubre(h)
    BY <1>6, <1>7, <1>9, LiberadoNada
  <2>2. tabla' = tabla
    <3>1. PICK t : t = tabla
      OBVIOUS
    <3>2. t \in [1 .. Len(t) -> Seq(SegmentoR)]
      BY <1>8, <3>1, ListaDe DEF TablasBien
    <3>3. tabla' = [t EXCEPT ![p] = t[p]]
      BY <1>2, <1>4, <2>1, <3>1
    <3> QED BY <3>1, <3>2, <3>3
  <2>3. EliminaNada(p, id)
    BY <1>2, <1>4, <1>5, <1>9, <2>1, <2>2 DEF EliminaNada
  <2> QED BY <1>3, <2>3
<1>10. CASE \E j \in DOMAIN s : s[j].id = id
  <2>1. PICK j \in DOMAIN s : s[j].id = id
    BY <1>10
  <2>2. j \in 2 .. Len(s)
    <3>1. j # 1
      BY <1>7, <2>1 DEF TablaBien, Cero, Segmento, Config
    <3>2. j \in 1 .. Len(s) /\ Len(s) \in Nat
      BY <1>7, ListaDe
    <3> QED BY <3>1, <3>2
  <2>3. Cubre(h) \cap Hasta(s[j]) = {} /\ SinRepetir(s)
    BY <1>7, <2>2 DEF TablaBien
  <2>4. /\ e.segs = RemoveAt(s, j) /\ e.huecos \in Seq(HuecoR)
        /\ Separados(e.huecos) /\ Cubre(e.huecos) = Cubre(h) \union Hasta(s[j])
    BY <1>6, <1>7, <2>1, <2>3, Liberado
  <2>5. EliminaUno(p, id, j)
    BY <1>2, <1>4, <1>5, <2>1, <2>2, <2>3, <2>4 DEF EliminaUno
  <2> QED BY <1>3, <2>5
<1> QED BY <1>9, <1>10

\* ELIMINAR_SEGMENTO keeps the invariant.
LEMMA InvEliminar ==
    ASSUME MemoriaInv, Config, NEW p \in vivos, EliminarSegmento(p)
    PROVE  MemoriaInv'
<1>1. /\ sana /\ pedido = SinPedido /\ UNCHANGED <<celdas, vivos, pedido, sana>>
      /\ p \in DOMAIN tabla /\ TablasBien
  BY DEF EliminarSegmento, MemoriaInv
<1>2. PICK id \in Ids : /\ escrito' = IF escrito = <<p, id>> THEN Borrado ELSE escrito
                        /\ EliminaNada(p, id) \/ \E j : EliminaUno(p, id, j)
  BY LoEliminado
<1>3. CASE EliminaNada(p, id)
  <2>1. /\ tabla' = tabla /\ huecos' \in Seq(HuecoR) /\ Separados(huecos)'
        /\ Cubre(huecos)' = Cubre(huecos) \union UNION {Hasta(De(q)) : q \in {}}
    BY <1>3 DEF EliminaNada
  <2>2. PICK c : Restan(c, {})
    <3>1. Restan([r \in Propios |-> r], {})
      BY <2>1, RestanTodas
    <3> QED BY <3>1
  <2>3. TablasBien'
    BY <1>1, <2>1 DEF TablasBien
  <2>4. escrito' \in {Nadie, Borrado} \/ escrito' = escrito
    BY <1>2
  <2> QED BY <1>1, <2>1, <2>2, <2>3, <2>4, InvQuitar
<1>4. ASSUME NEW j, EliminaUno(p, id, j) PROVE MemoriaInv'
  <2>1. /\ j \in 2 .. Len(tabla[p]) /\ tabla[p][j].id = id
        /\ tabla' = [tabla EXCEPT ![p] = RemoveAt(tabla[p], j)]
        /\ huecos' \in Seq(HuecoR) /\ Separados(huecos)'
        /\ Cubre(huecos)' = Cubre(huecos) \union Hasta(tabla[p][j])
    BY <1>4 DEF EliminaUno
  <2>2. PICK q : q = <<p, j>>
    OBVIOUS
  <2>3. q \in Propios /\ De(q) = tabla[p][j]
    BY <1>1, <2>1, <2>2 DEF Propios, De
  <2>4. /\ TablasBien' /\ Len(tabla') = Len(tabla) /\ DOMAIN tabla' = DOMAIN tabla
        /\ \A r \in DOMAIN tabla \ {p} : tabla'[r] = tabla[r]
        /\ \E c : Restan(c, {q})
    BY <1>1, <2>1, <2>2, QuitadaUna
  <2>5. PICK c : Restan(c, {q})
    BY <2>4
  <2>6. Cubre(huecos)' = Cubre(huecos) \union UNION {Hasta(De(r)) : r \in {q}}
    <3>1. UNION {Hasta(De(r)) : r \in {q}} = Hasta(De(q))
      OBVIOUS
    <3>2. Hasta(De(q)) = Hasta(tabla[p][j])
      BY <2>3
    <3> QED BY <2>1, <3>1, <3>2
  <2>7. \/ escrito' \in {Nadie, Borrado}
        \/ /\ escrito' = escrito /\ \A r \in {q} : escrito # <<r[1], De(r).id>>
           /\ \A r \in Propios \ {q} : r[1] \in vivos => r[1] \in vivos'
    <3>1. q[1] = p /\ De(q).id = id
      BY <2>1, <2>2, <2>3
    <3> QED BY <1>1, <1>2, <3>1
  <2> QED BY <1>1, <2>1, <2>3, <2>4, <2>5, <2>6, <2>7, InvQuitar
<1> QED BY <1>2, <1>3, <1>4

\* What eliminar_proceso leaves: the segment 0, and the addresses of all the
\* others are free.
LiberaTodos(p) ==
    /\ \E s \in Seq(SegmentoR) : /\ Len(s) = 1 /\ s[1] = tabla[p][1]
                                 /\ tabla' = [tabla EXCEPT ![p] = s]
    /\ huecos' \in Seq(HuecoR) /\ Separados(huecos)'
    /\ Cubre(huecos)' = Cubre(huecos) \union UNION {Hasta(tabla[p][j]) : j \in 2 .. Len(tabla[p])}

\* FINALIZAR takes away all the segments of a process but the segment 0.
LEMMA LoFinalizado ==
    ASSUME MemoriaInv, Config, NEW p \in vivos, Finalizar(p)
    PROVE  LiberaTodos(p)
<1>1. sana /\ p \in DOMAIN tabla
  BY DEF Finalizar, MemoriaInv
<1>2. PICK s : s = tabla[p]
  OBVIOUS
<1>3. PICK h : h = huecos
  OBVIOUS
<1>4. PICK e \in LiberarTodos(s, h) :
              tabla' = [tabla EXCEPT ![p] = e.segs] /\ huecos' = e.huecos
  BY <1>2, <1>3 DEF Finalizar
<1>5. h \in Seq(HuecoR) /\ Separados(h)
  BY <1>1, <1>3 DEF MemoriaInv, Reparto
<1>6. /\ s \in Seq(SegmentoR) /\ TablaBien(s) /\ Separados(s)
      /\ \A j \in 2 .. Len(s) : Cubre(h) \cap Hasta(s[j]) = {}
  BY <1>1, <1>2, <1>3, LosDeUno
<1>7. /\ e.segs \in Seq(SegmentoR) /\ Len(e.segs) = 1 /\ e.segs[1] = s[1]
      /\ e.huecos \in Seq(HuecoR) /\ Separados(e.huecos)
      /\ Cubre(e.huecos) = Cubre(h) \union UNION {Hasta(s[j]) : j \in 2 .. Len(s)}
  BY <1>5, <1>6, LiberadosTodos DEF TablaBien
<1> QED BY <1>2, <1>3, <1>4, <1>7 DEF LiberaTodos

\* FINALIZAR keeps the invariant.
LEMMA InvFinalizar ==
    ASSUME MemoriaInv, Config, NEW p \in vivos, Finalizar(p)
    PROVE  MemoriaInv'
<1>1. /\ sana /\ pedido = SinPedido /\ UNCHANGED <<celdas, pedido, sana>>
      /\ p \in DOMAIN tabla /\ vivos' = vivos \ {p} /\ TablasBien
      /\ escrito' = IF escrito # Nadie /\ escrito[1] = p THEN Borrado ELSE escrito
  BY DEF Finalizar, MemoriaInv
<1>2. LiberaTodos(p)
  BY LoFinalizado
<1>3. PICK s \in Seq(SegmentoR) : /\ Len(s) = 1 /\ s[1] = tabla[p][1]
                                  /\ tabla' = [tabla EXCEPT ![p] = s]
  BY <1>2 DEF LiberaTodos
<1>4. PICK Q : Q = {r \in Propios : r[1] = p}
  OBVIOUS
<1>5. /\ TablasBien' /\ Len(tabla') = Len(tabla) /\ DOMAIN tabla' = DOMAIN tabla
      /\ \A q \in DOMAIN tabla \ {p} : tabla'[q] = tabla[q]
      /\ tabla'[p] = s
      /\ \E c : Restan(c, Q)
  BY <1>1, <1>3, <1>4, QuitadasTodas
<1>6. PICK c : Restan(c, Q)
  BY <1>5
<1>7. UNION {Hasta(tabla[p][j]) : j \in 2 .. Len(tabla[p])} = UNION {Hasta(De(q)) : q \in Q}
  <2>1. \A r : r \in Q <=> \E j \in 2 .. Len(tabla[p]) : r = <<p, j>>
    BY <1>1, <1>4 DEF Propios
  <2>2. ASSUME NEW a, NEW j \in 2 .. Len(tabla[p]), a \in Hasta(tabla[p][j])
        PROVE  \E q \in Q : a \in Hasta(De(q))
    <3>1. PICK q \in Q : q = <<p, j>>
      BY <2>1
    <3>2. De(q) = tabla[p][j]
      BY <3>1 DEF De
    <3> QED BY <2>2, <3>2
  <2>3. ASSUME NEW a, NEW q \in Q, a \in Hasta(De(q))
        PROVE  \E j \in 2 .. Len(tabla[p]) : a \in Hasta(tabla[p][j])
    <3>1. PICK j \in 2 .. Len(tabla[p]) : q = <<p, j>>
      BY <2>1
    <3>2. De(q) = tabla[p][j]
      BY <3>1 DEF De
    <3> QED BY <2>3, <3>2
  <2> QED BY <2>2, <2>3
<1>8. /\ huecos' \in Seq(HuecoR) /\ Separados(huecos)'
      /\ Cubre(huecos)' = Cubre(huecos) \union UNION {Hasta(De(q)) : q \in Q}
  BY <1>2, <1>7 DEF LiberaTodos
<1>9. \/ escrito' \in {Nadie, Borrado}
      \/ /\ escrito' = escrito /\ \A q \in Q : escrito # <<q[1], De(q).id>>
         /\ \A q \in Propios \ Q : q[1] \in vivos => q[1] \in vivos'
  <2>1. CASE escrito = Nadie \/ escrito[1] = p
    BY <1>1, <2>1
  <2>2. CASE ~(escrito = Nadie \/ escrito[1] = p)
    <3>1. escrito' = escrito
      BY <1>1, <2>2
    <3>2. \A q \in Q : escrito # <<q[1], De(q).id>>
      BY <1>4, <2>2
    <3>3. \A q \in Propios \ Q : q[1] \in vivos => q[1] \in vivos'
      BY <1>1, <1>4
    <3> QED BY <3>1, <3>2, <3>3
  <2> QED BY <2>1, <2>2
<1>10. Q \in SUBSET Propios /\ Len(tabla'[p]) = 1
  BY <1>3, <1>4, <1>5
<1> QED BY <1>1, <1>5, <1>6, <1>8, <1>9, <1>10, InvQuitar

-----------------------------------------------------------------------------
(* ACCEDER_PARA_ESCRITURA                                                      *)
LEMMA InvEscribir ==
    ASSUME MemoriaInv, Config, NEW p \in vivos, Escribir(p)
    PROVE  MemoriaInv'
<1>1. /\ sana /\ pedido = SinPedido /\ UNCHANGED <<huecos, tabla, vivos, pedido, sana>>
      /\ p \in DOMAIN tabla
  BY DEF Escribir, MemoriaInv
<1>2. PICK j \in 2 .. Len(tabla[p]) :
         /\ celdas' = [a \in DOMAIN celdas |-> IF a \in Hasta(tabla[p][j])
                                               THEN a - tabla[p][j].base + 1 ELSE celdas[a]]
         /\ escrito' = <<p, tabla[p][j].id>>
  BY DEF Escribir
<1>3. PICK x : x = tabla[p][j]
  OBVIOUS
<1>4. PICK n : n = <<p, j>>
  OBVIOUS
<1>5. n \in Propios /\ De(n) = x
  BY <1>1, <1>2, <1>3, <1>4 DEF Propios, De
<1>6. TablasBien /\ Reparto
  BY <1>1 DEF MemoriaInv
<1>7. x \in SegmentoR /\ Hasta(x) \subseteq 0 .. TamMemoria - 1 /\ x.base \in Int
  <2>1. x \in SegmentoR
    BY <1>5, <1>6, TodosSon
  <2>2. \A a \in TamSegmento .. TamMemoria - 1 : a \in 0 .. TamMemoria - 1
    BY TamaniosAssumption
  <2>3. Hasta(x) \subseteq TamSegmento .. TamMemoria - 1
    BY <1>5, <1>6 DEF Reparto, SinSolapes
  <2>4. x.base \in Int
    BY <2>1, TamaniosAssumption DEF SegmentoR
  <2> QED BY <2>1, <2>2, <2>3, <2>4
<1>8. /\ celdas' \in Contenidos
      /\ \A a \in Hasta(x) : celdas'[a] = a - x.base + 1
  <2>1. PICK d : d = celdas'
    OBVIOUS
  <2>2. celdas \in [0 .. TamMemoria - 1 -> Nat]
    BY DEF MemoriaInv, Contenidos
  <2>3. d = [a \in 0 .. TamMemoria - 1 |-> IF a \in Hasta(x) THEN a - x.base + 1 ELSE celdas[a]]
    BY <1>2, <1>3, <2>1, <2>2
  <2>4. \A a \in 0 .. TamMemoria - 1 : (a \in Hasta(x) => a - x.base + 1 \in Nat) /\ celdas[a] \in Nat
    <3>1. x.base \in Nat /\ x.tam \in Nat
      BY <1>7, TamaniosAssumption DEF SegmentoR
    <3> QED BY <2>2, <3>1 DEF Hasta
  <2>5. d \in [0 .. TamMemoria - 1 -> Nat]
    BY <2>3, <2>4
  <2>6. \A a \in Hasta(x) : d[a] = a - x.base + 1
    BY <1>7, <2>3
  <2> QED BY <2>1, <2>5, <2>6 DEF Contenidos
<1>9. ContenidoIntacto'
  <2> SUFFICES ASSUME NEW r \in Propios', escrito' = <<r[1], De(r)'.id>>, NEW a \in Hasta(De(r)')
               PROVE  celdas'[a] = a - De(r)'.base + 1
    BY DEF ContenidoIntacto
  <2>1. r \in Propios /\ De(r)' = De(r)
    BY <1>1 DEF Propios, De
  <2>2. PICK i \in 2 .. Len(tabla[p]) : r = <<p, i>>
    BY <1>2, <2>1 DEF Propios
  <2>3. tabla[p][i].id = tabla[p][j].id
    BY <1>2, <2>1, <2>2 DEF De
  <2>4. PICK s : s = tabla[p]
    OBVIOUS
  <2>5. SinRepetir(s) /\ DOMAIN s = 1 .. Len(s) /\ Len(s) \in Nat
    BY <1>1, <1>6, <2>4, LasTablas DEF TablaBien
  <2>6. i = j
    BY <2>3, <2>4, <2>5 DEF SinRepetir
  <2>7. De(r)' = x
    BY <1>4, <1>5, <2>1, <2>2, <2>6
  <2> QED BY <1>8, <2>7
<1>10. EscritoVive'
  <2>1. n[1] = p /\ escrito' = <<n[1], De(n).id>>
    BY <1>2, <1>3, <1>4, <1>5
  <2>2. n \in Propios' /\ De(n)' = De(n)
    BY <1>1, <1>5 DEF Propios, De
  <2> QED BY <1>1, <2>1, <2>2 DEF EscritoVive
<1>11. Reparto' /\ TablasBien' /\ Muertos' /\ Pendiente'
  <2>1. Propios' = Propios /\ \A r : De(r)' = De(r)
    BY <1>1 DEF Propios, De
  <2>2. Reparto'
    BY <1>1, <1>6, InvOrdenar
  <2> QED BY <1>1, <1>6, <2>2 DEF TablasBien, MemoriaInv, Muertos, Pendiente, SinPedido
<1> QED BY <1>1, <1>8, <1>9, <1>10, <1>11 DEF MemoriaInv

-----------------------------------------------------------------------------
\* So does a request of the kernel ...
LEMMA InvPedir ==
    ASSUME MemoriaInv, NEW p \in vivos, Pedir(p)
    PROVE  MemoriaInv'
<1>1. PICK id \in Ids, tam \in Tamanios :
         /\ id \notin {tabla[p][j].id : j \in DOMAIN tabla[p]}
         /\ CrearSegmento(p, id, tam)
  BY DEF Pedir
<1>2. \A j \in DOMAIN tabla[p] : tabla[p][j].id # id
  BY <1>1
<1> QED BY <1>1, <1>2, InvCrear

\* What the invariant says when the kernel is about to ask again ...
LEMMA LoPendiente ==
    ASSUME MemoriaInv, pedido.paso = "otra vez"
    PROVE  /\ pedido.pid \in vivos /\ pedido.id \in Ids /\ pedido.tam \in Tamanios
           /\ \A j \in DOMAIN tabla[pedido.pid] : tabla[pedido.pid][j].id # pedido.id
           /\ Alcanzan(huecos, pedido.tam) # {}
<1>1. Pendiente
  BY DEF MemoriaInv
<1>2. pedido # SinPedido
  <2>1. SinPedido.paso = "ninguno"
    BY DEF SinPedido
  <2> HIDE DEF SinPedido
  <2> QED BY <2>1
<1> QED BY <1>1, <1>2 DEF Pendiente

\* ... and the second request.
LEMMA InvPedirDeNuevo ==
    ASSUME MemoriaInv, PedirDeNuevo
    PROVE  MemoriaInv'
<1>1. pedido.paso = "otra vez" /\ CrearSegmento(pedido.pid, pedido.id, pedido.tam)
  BY DEF PedirDeNuevo
<1>2. PICK p, id, tam : p = pedido.pid /\ id = pedido.id /\ tam = pedido.tam
  OBVIOUS
<1>3. /\ p \in vivos /\ id \in Ids /\ tam \in Tamanios
      /\ \A j \in DOMAIN tabla[p] : tabla[p][j].id # id
      /\ CrearSegmento(p, id, tam)
  BY <1>1, <1>2, LoPendiente
<1> QED BY <1>3, InvCrear

\* A step that changes nothing keeps the invariant.
LEMMA InvStutter ==
    ASSUME MemoriaInv, UNCHANGED vars
    PROVE  MemoriaInv'
<1>1. UNCHANGED <<huecos, tabla, celdas, vivos, pedido, sana, escrito>>
  BY DEF vars
<1>2. sana => Reparto'
  BY <1>1, InvOrdenar DEF MemoriaInv
<1>3. /\ TablasBien' /\ Len(tabla)' <= MaxProcesos /\ (vivos \subseteq DOMAIN tabla)'
      /\ (celdas \in Contenidos)'
      /\ Muertos' /\ EscritoVive' /\ ContenidoIntacto'
  BY <1>1, InvQuieto
<1>4. Pendiente'
  BY <1>1 DEF MemoriaInv, Pendiente, SinPedido, HayEspacio, Alcanzan
<1> QED BY <1>1, <1>2, <1>3, <1>4 DEF MemoriaInv

\* Each step of the memory keeps the invariant.
LEMMA InvPaso ==
    ASSUME MemoriaInv, Config, [Next]_vars
    PROVE  MemoriaInv'
<1>1. CASE InicializarEstructura
  BY <1>1, InvInicializar
<1>2. ASSUME NEW p \in vivos, Pedir(p) PROVE MemoriaInv'
  BY <1>2, InvPedir
<1>3. ASSUME NEW p \in vivos, EliminarSegmento(p) PROVE MemoriaInv'
  BY <1>3, InvEliminar
<1>4. ASSUME NEW p \in vivos, Finalizar(p) PROVE MemoriaInv'
  BY <1>4, InvFinalizar
<1>5. ASSUME NEW p \in vivos, Escribir(p) PROVE MemoriaInv'
  BY <1>5, InvEscribir
<1>6. CASE PedirDeNuevo
  BY <1>6, InvPedirDeNuevo
<1>7. CASE RealizarCompactacion
  BY <1>7, InvCompactar
<1>8. CASE UNCHANGED vars
  BY <1>8, InvStutter
<1> QED BY <1>1, <1>2, <1>3, <1>4, <1>5, <1>6, <1>7, <1>8 DEF Next

\* The inductive invariant of the memory: well-formed tables, the memory shared
\* out while the sorts and the searches used no index without a value, the
\* request that waits for a compaction, the dead, and the contents.
THEOREM MemoriaInvariante ==
    ASSUME Config
    PROVE  Spec => []MemoriaInv
<1>1. Init => MemoriaInv
  BY InvInicial
<1>2. MemoriaInv /\ [Next]_vars => MemoriaInv'
  BY InvPaso
<1> QED BY <1>1, <1>2, PTL DEF Spec

-----------------------------------------------------------------------------
(* What the invariant gives.                                                   *)

\* The invariant gives the types.
LEMMA TipoMemoria ==
    ASSUME MemoriaInv
    PROVE  TypeOK
<1>1. sana => \A i \in DOMAIN huecos : huecos[i] \in [base : 0 .. TamMemoria, tam : Nat]
  <2> SUFFICES ASSUME sana PROVE \A i \in DOMAIN huecos : huecos[i] \in HuecoR
    BY DEF HuecoR
  <2>1. huecos \in Seq(HuecoR)
    BY DEF MemoriaInv, Reparto
  <2> QED BY <2>1, ListaDe
<1>2. ASSUME NEW p \in DOMAIN tabla
      PROVE  tabla[p] \in Seq([id : Nat, base : Nat, tam : Nat])
  <2>1. PICK s : s = tabla[p]
    OBVIOUS
  <2>2. s \in Seq(SegmentoR)
    BY <2>1, LasTablas DEF MemoriaInv, TablaBien
  <2>3. PICK R : R = [id : Nat, base : Nat, tam : Nat]
    OBVIOUS
  <2>4. SegmentoR \subseteq R
    BY <2>3, TamaniosAssumption DEF SegmentoR
  <2>5. s \in [1 .. Len(s) -> SegmentoR] /\ Len(s) \in Nat
    BY <2>2, ListaDe
  <2>6. s \in [1 .. Len(s) -> R]
    BY <2>4, <2>5
  <2>7. s \in Seq(R)
    BY <2>5, <2>6, EsLista
  <2> QED BY <2>1, <2>3, <2>7
<1>3. DOMAIN celdas = 0 .. TamMemoria - 1
  BY DEF MemoriaInv, Contenidos
<1>4. \/ pedido = SinPedido
      \/ pedido \in [paso : {"compactar", "otra vez"}, pid : DOMAIN tabla,
                     id : Ids, tam : Tamanios]
  <2>1. CASE pedido = SinPedido
    BY <2>1
  <2>2. CASE pedido \in [paso : {"compactar", "otra vez"}, pid : vivos, id : Ids, tam : Tamanios]
    <3>1. vivos \subseteq DOMAIN tabla
      BY DEF MemoriaInv
    <3> QED BY <2>2, <3>1
  <2> QED BY <2>1, <2>2 DEF MemoriaInv, Pendiente
<1>5. escrito \in {Nadie, Borrado} \union ((DOMAIN tabla) \X Ids)
  <2>1. CASE escrito \in {Nadie, Borrado}
    BY <2>1
  <2>2. CASE \E r \in Propios : escrito = <<r[1], De(r).id>>
    <3>1. PICK r \in Propios : escrito = <<r[1], De(r).id>>
      BY <2>2
    <3>2. De(r).id \in Ids
      BY TodosSon DEF MemoriaInv
    <3>3. r[1] \in DOMAIN tabla
      BY DEF Propios
    <3> QED BY <3>1, <3>2, <3>3
  <2> QED BY <2>1, <2>2 DEF MemoriaInv, EscritoVive
<1> QED BY <1>1, <1>2, <1>3, <1>4, <1>5 DEF MemoriaInv, TypeOK

\* How many sets of a family of disjoint ones an element is in.
LEMMA CuantosLoTienen ==
    ASSUME NEW D, NEW F, NEW a,
           \A i, k \in D : i # k => F[i] \cap F[k] = {}
    PROVE  Cardinality({i \in D : a \in F[i]}) = IF \E i \in D : a \in F[i] THEN 1 ELSE 0
<1>1. CASE \E i \in D : a \in F[i]
  <2>1. PICK i \in D : a \in F[i]
    BY <1>1
  <2>2. {k \in D : a \in F[k]} = {i}
    BY <2>1
  <2> QED BY <1>1, <2>2, FS_Singleton
<1>2. CASE ~\E i \in D : a \in F[i]
  <2>1. {k \in D : a \in F[k]} = {}
    BY <1>2
  <2> QED BY <1>2, <2>1, FS_EmptySet
<1> QED BY <1>1, <1>2

\* While the memory is sane the invariant gives each address one owner.
LEMMA UnDuenio ==
    ASSUME MemoriaInv, Config
    PROVE  Particion
<1> SUFFICES ASSUME sana, NEW a \in 0 .. TamMemoria - 1
             PROVE  Cardinality({i \in DOMAIN huecos : a \in Hasta(huecos[i])})
                      + Cardinality({r \in Propios : a \in Hasta(De(r))})
                          = IF a < TamSegmento THEN 0 ELSE 1
  BY DEF Particion
<1>1. Reparto
  BY DEF MemoriaInv
<1>2. Cardinality({i \in DOMAIN huecos : a \in Hasta(huecos[i])})
        = IF a \in Cubre(huecos) THEN 1 ELSE 0
  <2>1. PICK F : F = [i \in DOMAIN huecos |-> Hasta(huecos[i])]
    OBVIOUS
  <2>2. \A i, k \in DOMAIN huecos : i # k => F[i] \cap F[k] = {}
    BY <1>1, <2>1 DEF Reparto, Separados
  <2>3. Cardinality({i \in DOMAIN huecos : a \in F[i]})
          = IF \E i \in DOMAIN huecos : a \in F[i] THEN 1 ELSE 0
    BY <2>2, CuantosLoTienen
  <2>4. {i \in DOMAIN huecos : a \in F[i]} = {i \in DOMAIN huecos : a \in Hasta(huecos[i])}
    BY <2>1
  <2>5. (\E i \in DOMAIN huecos : a \in F[i]) <=> a \in Cubre(huecos)
    BY <2>1 DEF Cubre
  <2> QED BY <2>3, <2>4, <2>5
<1>3. Cardinality({r \in Propios : a \in Hasta(De(r))}) = IF a \in Ocupadas THEN 1 ELSE 0
  <2>1. PICK F : F = [r \in Propios |-> Hasta(De(r))]
    OBVIOUS
  <2>2. \A r, q \in Propios : r # q => F[r] \cap F[q] = {}
    BY <1>1, <2>1 DEF Reparto, SinSolapes
  <2>3. Cardinality({r \in Propios : a \in F[r]})
          = IF \E r \in Propios : a \in F[r] THEN 1 ELSE 0
    BY <2>2, CuantosLoTienen
  <2>4. {r \in Propios : a \in F[r]} = {r \in Propios : a \in Hasta(De(r))}
    BY <2>1
  <2>5. (\E r \in Propios : a \in F[r]) <=> a \in Ocupadas
    BY <2>1 DEF Ocupadas
  <2> QED BY <2>3, <2>4, <2>5
<1>4. a < TamSegmento => a \notin Cubre(huecos) /\ a \notin Ocupadas
  BY <1>1, TamaniosAssumption DEF Reparto, SinSolapes, Ocupadas, Enteras
<1>5. ~(a < TamSegmento) => (a \in Cubre(huecos) <=> a \notin Ocupadas)
  <2>1. ~(a < TamSegmento) => a \in Enteras
    BY TamaniosAssumption DEF Enteras
  <2> QED BY <1>1, <2>1 DEF Reparto
<1> QED BY <1>2, <1>3, <1>4, <1>5

\* The invariant gives that the dead have only the segment 0.
LEMMA QuedaCero ==
    ASSUME MemoriaInv
    PROVE  SinRestos
<1> SUFFICES ASSUME NEW p \in DOMAIN tabla \ vivos
             PROVE  tabla[p] = <<Segmento(0, 0, TamSegmento)>>
  BY DEF SinRestos
<1>1. PICK s : s = tabla[p]
  OBVIOUS
<1>2. TablaBien(s) /\ Len(s) = 1
  BY <1>1, LasTablas DEF MemoriaInv, Muertos
<1>3. s \in Seq(SegmentoR) /\ s[1] = Cero
  BY <1>2 DEF TablaBien
<1>4. s = <<Cero>>
  <2>1. s \in [1 .. 1 -> SegmentoR]
    BY <1>2, <1>3, ListaDe
  <2>2. s = [i \in 1 .. 1 |-> s[i]]
    BY <2>1
  <2> QED BY <1>3, <2>2
<1> QED BY <1>1, <1>4 DEF Cero

\* The types of the state of the memory.
THEOREM TiposDeLaMemoria ==
    ASSUME Config
    PROVE  Spec => []TypeOK
BY MemoriaInvariante, TipoMemoria, PTL

\* For a memory of any size, any number of processes and any of the three
\* algorithms, every address after the segment 0 is in one hole or in one
\* segment, never in two and never in none, until BEST or WORST use an index
\* without a value (with FIRST always: FirstSinSolapes).
THEOREM MemoriaRepartida ==
    ASSUME Config
    PROVE  Spec => []Particion
BY MemoriaInvariante, UnDuenio, PTL

\* After a compaction the segment that made it necessary fits.
THEOREM ReintentoSinFallo ==
    ASSUME Config
    PROVE  Spec => []ReintentoEntra
<1>1. MemoriaInv => ReintentoEntra
  BY LoPendiente DEF ReintentoEntra
<1> QED BY <1>1, MemoriaInvariante, PTL

\* What a process wrote in a segment is there, however often compactions copied
\* it, also over its own old place (where memcpy is taken to copy in increasing
\* order).
THEOREM ContenidosIntactos ==
    ASSUME Config
    PROVE  Spec => []ContenidoIntacto
<1>1. MemoriaInv => ContenidoIntacto
  BY DEF MemoriaInv
<1> QED BY <1>1, MemoriaInvariante, PTL

\* A process that ended leaves only its entry with the segment 0.
THEOREM NadaQueda ==
    ASSUME Config
    PROVE  Spec => []SinRestos
BY MemoriaInvariante, QuedaCero, PTL

-----------------------------------------------------------------------------
(* The memory keeps the promise of Segmentacion: first the sums, then what     *)
(* each step does to the named segments of the processes.                      *)

Suma(S) == Promesa!MapThenSumSet(LAMBDA s : s.tam, S)

\* A set of things that have sizes, and a place for each, apart from the others:
\* the sum of the sizes counts the addresses.
EnLugares(S, l, M) ==
    \A s \in S : /\ l[s].base \in Nat /\ l[s].tam \in Nat /\ l[s].tam = s.tam
                 /\ Hasta(l[s]) \subseteq 0 .. M
                 /\ \A t \in S : s # t => Hasta(l[s]) \cap Hasta(l[t]) = {}

\* The sum over a set of segments, each with its own addresses.
LEMMA SumaConjunto ==
    ASSUME NEW S, IsFiniteSet(S), NEW l, NEW M \in Nat, EnLugares(S, l, M)
    PROVE  Suma(S) = Cardinality(UNION {Hasta(l[s]) : s \in S})
<1> DEFINE P == SUBSET S
           Los(s) == UNION {Hasta(l[i]) : i \in s}
           h == [s \in P |-> Cardinality(Los(s))]
           Uno(s) == CHOOSE x \in s : TRUE
           g == CHOOSE g : g = [s \in P |-> IF s = {} THEN 0
                                            ELSE Uno(s).tam + g[s \ {Uno(s)}]]
<1>1. Suma(S) = g[S]
  BY DEF Suma, Promesa!MapThenSumSet, Promesa!MapThenFoldSet
<1>2. \A s \in P : IsFiniteSet(Los(s)) /\ Cardinality(Los(s)) \in Nat
  <2>1. \A s \in P : Los(s) \in SUBSET (0 .. M)
    BY DEF EnLugares
  <2>2. IsFiniteSet(0 .. M)
    BY FS_Interval
  <2> HIDE DEF Los
  <2>3. \A s \in P : IsFiniteSet(Los(s))
    BY <2>1, <2>2, FS_Subset
  <2> QED BY <2>3, FS_CardinalityType
<1>3. ASSUME NEW s \in P, NEW m \in s
      PROVE  h[s] = m.tam + h[s \ {m}]
  <2>1. Los(s) = Los(s \ {m}) \union Hasta(l[m])
    OBVIOUS
  <2>2. Los(s \ {m}) \cap Hasta(l[m]) = {}
    BY DEF EnLugares
  <2>3. s \ {m} \in P /\ m \in S
    OBVIOUS
  <2>4. IsFiniteSet(Hasta(l[m])) /\ Cardinality(Hasta(l[m])) = m.tam /\ m.tam \in Nat
    BY <2>3, CuantoCubre DEF EnLugares
  <2> HIDE DEF Los
  <2>5. Cardinality(Los(s)) = Cardinality(Los(s \ {m})) + m.tam - 0
    <3>1. Cardinality(Los(s \ {m}) \cap Hasta(l[m])) = 0
      BY <2>2, FS_EmptySet
    <3>2. IsFiniteSet(Los(s \ {m}))
      BY <1>2, <2>3
    <3> QED BY <2>1, <2>4, <3>1, <3>2, FS_Union
  <2>6. Cardinality(Los(s \ {m})) \in Nat
    BY <1>2, <2>3
  <2> QED BY <2>3, <2>4, <2>5, <2>6
<1>4. h[{}] = 0
  BY FS_EmptySet
<1>5. \A s \in P : s # {} => Uno(s) \in s
  OBVIOUS
<1> HIDE DEF Uno
<1>6. h = [s \in P |-> IF s = {} THEN 0 ELSE Uno(s).tam + h[s \ {Uno(s)}]]
  <2> HIDE DEF Los
  <2>1. \A s \in P : h[s] = IF s = {} THEN 0 ELSE Uno(s).tam + h[s \ {Uno(s)}]
    BY <1>3, <1>4, <1>5
  <2>2. h = [s \in P |-> h[s]]
    OBVIOUS
  <2> HIDE DEF h
  <2> QED BY <2>1, <2>2
<1>7. g = [s \in P |-> IF s = {} THEN 0 ELSE Uno(s).tam + g[s \ {Uno(s)}]]
  <2> HIDE DEF h
  <2> QED BY <1>6
<1> HIDE DEF g
<1>8. Concuerdan(S, g, h)
  <2>1. g[{}] = h[{}]
    BY <1>4, <1>7
  <2>2. ASSUME NEW s \in SUBSET S, s # {}
        PROVE  \E x \in s : g[s \ {x}] = h[s \ {x}] => g[s] = h[s]
    <3>1. Uno(s) \in s
      BY <1>5, <2>2
    <3> HIDE DEF h
    <3>2. h[s] = Uno(s).tam + h[s \ {Uno(s)}]
      BY <1>3, <3>1
    <3>3. g[s] = Uno(s).tam + g[s \ {Uno(s)}]
      BY <1>7, <2>2
    <3> QED BY <3>1, <3>2, <3>3
  <2> QED BY <2>1, <2>2 DEF Concuerdan
<1>9. g[S] = h[S]
  <2> HIDE DEF h
  <2> QED BY <1>8, Iguales
<1> QED BY <1>1, <1>9

-----------------------------------------------------------------------------
\* The segments of a table, without their places; those of all the processes.
Lados(s) == {[id |-> s[j].id, tam |-> s[j].tam] : j \in 2 .. Len(s)}
Vistos == [p \in DOMAIN tabla |-> Lados(tabla[p])]
ConId(s, id) == {x \in Lados(s) : x.id = id}

\* What Segmentacion sees, when the table of one process changes.
LEMMA VistosCambia ==
    ASSUME NEW p \in DOMAIN tabla, DOMAIN tabla' = DOMAIN tabla,
           \A q \in DOMAIN tabla \ {p} : tabla'[q] = tabla[q]
    PROVE  Vistos' = [Vistos EXCEPT ![p] = Lados(tabla'[p])]
<1>1. PICK t, u : t = tabla /\ u = tabla'
  OBVIOUS
<1>2. DOMAIN u = DOMAIN t /\ \A q \in DOMAIN t : q # p => Lados(u[q]) = Lados(t[q])
  <2>1. \A q \in DOMAIN t : q # p => u[q] = t[q]
    BY <1>1
  <2> QED BY <1>1, <2>1
<1>3. Vistos = [q \in DOMAIN t |-> Lados(t[q])] /\ Vistos' = [q \in DOMAIN u |-> Lados(u[q])]
  BY <1>1 DEF Vistos
<1> QED BY <1>1, <1>2, <1>3

\* One segment more.
LEMMA LadosMas ==
    ASSUME NEW s \in Seq(SegmentoR), Len(s) # 0, NEW x \in SegmentoR
    PROVE  Lados(Append(s, x)) = Lados(s) \union {[id |-> x.id, tam |-> x.tam]}
<1>1. PICK u : u = Append(s, x)
  OBVIOUS
<1>2. PICK m \in Nat \ {0} : m = Len(s)
  BY ListaDe
<1>3. Len(u) = m + 1 /\ u[m + 1] = x /\ \A i \in 1 .. m : u[i] = s[i]
  <2>1. /\ Len(u) = Len(s) + 1 /\ \A i \in 1 .. Len(s) : u[i] = s[i]
        /\ u[Len(s) + 1] = x
    BY <1>1, AppendProperties
  <2> QED BY <1>2, <2>1
<1>4. 2 .. m + 1 = (2 .. m) \union {m + 1} /\ 2 .. m \subseteq 1 .. m
  BY <1>2
<1>5. \A i \in 2 .. m : u[i] = s[i]
  BY <1>3, <1>4
<1>6. Lados(u) = {[id |-> u[j].id, tam |-> u[j].tam] : j \in (2 .. m) \union {m + 1}}
  BY <1>3, <1>4 DEF Lados
<1>7. Lados(s) = {[id |-> s[j].id, tam |-> s[j].tam] : j \in 2 .. m}
  BY <1>2 DEF Lados
<1> QED BY <1>1, <1>3, <1>5, <1>6, <1>7

\* One segment less.
LEMMA LadosSin ==
    ASSUME NEW s, TablaBien(s), NEW j \in 2 .. Len(s)
    PROVE  /\ Lados(RemoveAt(s, j)) = Lados(s) \ ConId(s, s[j].id)
           /\ ConId(s, s[j].id) = {[id |-> s[j].id, tam |-> s[j].tam]}
<1>1. PICK m \in Nat \ {0} : m = Len(s) /\ DOMAIN s = 1 .. m /\ s \in Seq(SegmentoR)
  BY ListaDe DEF TablaBien
<1>2. j \in Int /\ 2 <= j /\ j <= m /\ m \in Int /\ j \in 1 .. m /\ j \in 2 .. m
  BY <1>1
<1>3. PICK u : u = RemoveAt(s, j)
  OBVIOUS
<1>4. /\ Len(u) = m - 1
      /\ \A i \in 1 .. m - 1 : u[i] = IF i < j THEN s[i] ELSE s[i + 1]
  BY <1>1, <1>2, <1>3, Quitado
<1>5. \A i, k \in 2 .. m : s[i].id = s[k].id => i = k
  <2>1. \A i \in 2 .. m : i \in 1 .. m
    BY <1>1
  <2> QED BY <1>1, <2>1 DEF TablaBien, SinRepetir
<1>6. Lados(u) = {[id |-> u[i].id, tam |-> u[i].tam] : i \in 2 .. m - 1}
  BY <1>4 DEF Lados
<1>7. Lados(s) = {[id |-> s[i].id, tam |-> s[i].tam] : i \in 2 .. m}
  BY <1>1 DEF Lados
<1>8. ASSUME NEW x, x \in Lados(u) PROVE x \in Lados(s) /\ x.id # s[j].id
  <2>1. PICK i \in 2 .. m - 1 : x = [id |-> u[i].id, tam |-> u[i].tam]
    BY <1>6, <1>8
  <2>2. PICK k \in 2 .. m : u[i] = s[k] /\ k # j
    <3>1. i \in Int /\ i \in 1 .. m - 1 /\ i \in 2 .. m /\ i + 1 \in 2 .. m
      BY <1>2
    <3>2. CASE i < j
      BY <1>2, <1>4, <3>1, <3>2
    <3>3. CASE ~(i < j)
      <4>1. u[i] = s[i + 1] /\ i + 1 # j
        BY <1>2, <1>4, <3>1, <3>3
      <4> QED BY <3>1, <4>1
    <3> QED BY <3>2, <3>3
  <2> QED BY <1>2, <1>5, <1>7, <2>1, <2>2
<1>9. ASSUME NEW x, x \in Lados(s), x.id # s[j].id PROVE x \in Lados(u)
  <2>1. PICK k \in 2 .. m : x = [id |-> s[k].id, tam |-> s[k].tam]
    BY <1>7, <1>9
  <2>2. k # j
    BY <1>9, <2>1
  <2>3. PICK i \in 2 .. m - 1 : u[i] = s[k]
    <3>1. k \in Int /\ 2 <= k /\ k <= m
      BY <1>2
    <3>2. CASE k < j
      <4>1. k \in 2 .. m - 1 /\ k \in 1 .. m - 1
        BY <1>2, <3>1, <3>2
      <4> QED BY <1>4, <3>2, <4>1
    <3>3. CASE ~(k < j)
      <4>1. k - 1 \in 2 .. m - 1 /\ k - 1 \in 1 .. m - 1 /\ ~(k - 1 < j) /\ (k - 1) + 1 = k
        BY <1>2, <2>2, <3>1, <3>3
      <4>2. u[k - 1] = s[k]
        BY <1>4, <4>1
      <4> QED BY <4>1, <4>2
    <3> QED BY <3>2, <3>3
  <2> QED BY <1>6, <2>1, <2>3
<1>10. ConId(s, s[j].id) = {[id |-> s[j].id, tam |-> s[j].tam]}
  <2>1. ASSUME NEW x, x \in Lados(s), x.id = s[j].id
        PROVE  x = [id |-> s[j].id, tam |-> s[j].tam]
    <3>1. PICK k \in 2 .. m : x = [id |-> s[k].id, tam |-> s[k].tam]
      BY <1>7, <2>1
    <3>2. k = j
      BY <1>2, <1>5, <2>1, <3>1
    <3> QED BY <3>1, <3>2
  <2>2. [id |-> s[j].id, tam |-> s[j].tam] \in Lados(s)
    BY <1>2, <1>7
  <2> QED BY <2>1, <2>2 DEF ConId
<1> QED BY <1>3, <1>8, <1>9, <1>10 DEF ConId

\* Without segments of that name there is nothing to add.
LEMMA SumaDeNadie == Suma({}) = 0
<1> DEFINE l == [s \in {} |-> s]
<1>1. EnLugares({}, l, 0) /\ IsFiniteSet({})
  BY FS_EmptySet DEF EnLugares
<1>2. Suma({}) = Cardinality(UNION {Hasta(l[s]) : s \in {}})
  BY <1>1, SumaConjunto
<1>3. UNION {Hasta(l[s]) : s \in {}} = {}
  OBVIOUS
<1> QED BY <1>2, <1>3, FS_EmptySet

\* The sizes of segments that are apart count their addresses.
LEMMA SumaDeTabla ==
    ASSUME NEW s, TablaBien(s), Separados(s),
           \A j \in 2 .. Len(s) : Hasta(s[j]) \subseteq 0 .. TamMemoria - 1,
           NEW J \in SUBSET (2 .. Len(s)), NEW S,
           S = {[id |-> s[j].id, tam |-> s[j].tam] : j \in J}
    PROVE  Suma(S) = Cardinality(UNION {Hasta(s[j]) : j \in J})
<1>1. PICK m \in Nat \ {0} : m = Len(s) /\ DOMAIN s = 1 .. m /\ s \in Seq(SegmentoR)
                             /\ \A i \in 1 .. m : s[i] \in SegmentoR
  BY ListaDe DEF TablaBien
<1>2. J \subseteq 2 .. m /\ \A j \in 2 .. m : j \in 1 .. m
  BY <1>1
<1>3. \A i, k \in J : s[i].id = s[k].id => i = k
  BY <1>1, <1>2 DEF TablaBien, SinRepetir
<1>4. \A j \in J : s[j].base \in Nat /\ s[j].tam \in Nat
  BY <1>1, <1>2, TamaniosAssumption DEF SegmentoR
<1>5. PICK l : l = [x \in S |-> s[CHOOSE j \in J : s[j].id = x.id]]
  OBVIOUS
<1>6. ASSUME NEW x \in S
      PROVE  \E j \in J : l[x] = s[j] /\ x = [id |-> s[j].id, tam |-> s[j].tam]
  <2>1. PICK j \in J : x = [id |-> s[j].id, tam |-> s[j].tam]
    OBVIOUS
  <2>2. (CHOOSE i \in J : s[i].id = x.id) = j
    BY <1>3, <2>1
  <2> QED BY <1>5, <2>1, <2>2
<1>7. ASSUME NEW j \in J PROVE \E x \in S : l[x] = s[j]
  <2>1. PICK x \in S : x = [id |-> s[j].id, tam |-> s[j].tam]
    OBVIOUS
  <2>2. PICK i \in J : l[x] = s[i] /\ x = [id |-> s[i].id, tam |-> s[i].tam]
    BY <1>6
  <2>3. i = j
    BY <1>3, <2>1, <2>2
  <2> QED BY <2>2, <2>3
<1>8. EnLugares(S, l, TamMemoria)
  <2>1. \A a \in 0 .. TamMemoria - 1 : a \in 0 .. TamMemoria
    BY TamaniosAssumption
  <2>2. ASSUME NEW x \in S
        PROVE  /\ l[x].base \in Nat /\ l[x].tam \in Nat /\ l[x].tam = x.tam
               /\ Hasta(l[x]) \subseteq 0 .. TamMemoria
    <3>1. PICK j \in J : l[x] = s[j] /\ x = [id |-> s[j].id, tam |-> s[j].tam]
      BY <1>6
    <3>2. Hasta(s[j]) \subseteq 0 .. TamMemoria
      BY <2>1
    <3> QED BY <1>4, <3>1, <3>2
  <2>3. ASSUME NEW x \in S, NEW y \in S, x # y PROVE Hasta(l[x]) \cap Hasta(l[y]) = {}
    <3>1. PICK j \in J : l[x] = s[j] /\ x = [id |-> s[j].id, tam |-> s[j].tam]
      BY <1>6
    <3>2. PICK k \in J : l[y] = s[k] /\ y = [id |-> s[k].id, tam |-> s[k].tam]
      BY <1>6
    <3>3. j # k
      BY <2>3, <3>1, <3>2
    <3> QED BY <1>1, <1>2, <3>1, <3>2, <3>3 DEF Separados
  <2> QED BY <2>2, <2>3 DEF EnLugares
<1>9. IsFiniteSet(S)
  <2>1. IsFiniteSet(J)
    <3>1. IsFiniteSet(1 .. m)
      BY Finitos
    <3>2. J \subseteq 1 .. m
      BY <1>2
    <3> QED BY <3>1, <3>2, FS_Subset
  <2>2. PICK f : f = [j \in J |-> [id |-> s[j].id, tam |-> s[j].tam]]
    OBVIOUS
  <2>3. f \in Surjection(J, S)
    BY <2>2 DEF Surjection
  <2> QED BY <2>1, <2>3, FS_Surjection
<1>10. UNION {Hasta(l[x]) : x \in S} = UNION {Hasta(s[j]) : j \in J}
  <2>1. ASSUME NEW a, NEW x \in S, a \in Hasta(l[x]) PROVE \E j \in J : a \in Hasta(s[j])
    <3>1. PICK j \in J : l[x] = s[j]
      BY <1>6
    <3> QED BY <2>1, <3>1
  <2>2. ASSUME NEW a, NEW j \in J, a \in Hasta(s[j]) PROVE \E x \in S : a \in Hasta(l[x])
    <3>1. PICK x \in S : l[x] = s[j]
      BY <1>7
    <3> QED BY <2>2, <3>1
  <2> QED BY <2>1, <2>2
<1>11. Suma(S) = Cardinality(UNION {Hasta(l[x]) : x \in S})
  BY <1>8, <1>9, SumaConjunto, TamaniosAssumption
<1> QED BY <1>10, <1>11

-----------------------------------------------------------------------------
(* The steps of Segmentacion, said of Vistos.                                  *)

\* What each action of Segmentacion asks, in terms of Vistos: Nacer ...
LEMMA PromesaNacer ==
    ASSUME Vistos' = Append(Vistos, {}), negada' = 0, SumaDe(huecos)' = SumaDe(huecos)
    PROVE  Promesa!Nacer
BY DEF Promesa!Nacer, Vistos, Lados

\* ... Crear ...
LEMMA PromesaCrear ==
    ASSUME NEW p, NEW id, NEW tam, tam <= SumaDe(huecos),
           id \notin {s.id : s \in Vistos[p]},
           Vistos' = [Vistos EXCEPT ![p] = Vistos[p] \union {[id |-> id, tam |-> tam]}],
           SumaDe(huecos)' = SumaDe(huecos) - tam, negada' = 0
    PROVE  Promesa!Crear(p, id, tam)
BY DEF Promesa!Crear, Vistos, Lados

\* ... Negar ...
LEMMA PromesaNegar ==
    ASSUME NEW tam, tam > SumaDe(huecos), negada' = tam, Vistos' = Vistos,
           SumaDe(huecos)' = SumaDe(huecos)
    PROVE  Promesa!Negar(tam)
BY DEF Promesa!Negar, Vistos, Lados

\* ... Eliminar ...
LEMMA PromesaEliminar ==
    ASSUME NEW p, NEW id, NEW S, S = {s \in Vistos[p] : s.id = id},
           Vistos' = [Vistos EXCEPT ![p] = Vistos[p] \ S],
           SumaDe(huecos)' = SumaDe(huecos) + Suma(S), negada' = 0
    PROVE  Promesa!Eliminar(p, id)
BY DEF Promesa!Eliminar, Vistos, Lados, Suma

\* ... Terminar, ...
LEMMA PromesaTerminar ==
    ASSUME NEW p, NEW S, S = Vistos[p],
           Vistos' = [Vistos EXCEPT ![p] = {}],
           SumaDe(huecos)' = SumaDe(huecos) + Suma(S), negada' = 0
    PROVE  Promesa!Terminar(p)
BY DEF Promesa!Terminar, Vistos, Lados, Suma

\* ... and a step that does not show.
LEMMA PromesaQuieta ==
    ASSUME Vistos' = Vistos, SumaDe(huecos)' = SumaDe(huecos), negada' = negada
    PROVE  UNCHANGED Promesa!vars
BY DEF Promesa!vars, Vistos, Lados

\* What Segmentacion sees of each table.
LEMMA LosVistos ==
    ASSUME TablasBien
    PROVE  DOMAIN Vistos = DOMAIN tabla /\ \A p \in DOMAIN tabla : Vistos[p] = Lados(tabla[p])
BY DEF Vistos

\* Segments released, whatever the holes they were joined to: the sum grows by
\* their sizes.
LEMMA SumaLibera ==
    ASSUME Reparto, huecos' \in Seq(HuecoR), Separados(huecos)', NEW A,
           A \subseteq 0 .. TamMemoria - 1, Cubre(huecos) \cap A = {},
           Cubre(huecos)' = Cubre(huecos) \union A
    PROVE  SumaDe(huecos)' = SumaDe(huecos) + Cardinality(A)
<1>1. /\ SumaDe(huecos) = Cardinality(Cubre(huecos)) /\ IsFiniteSet(Cubre(huecos))
      /\ SumaDe(huecos) \in Nat /\ Cubre(huecos) \subseteq 0 .. TamMemoria - 1
  BY SumaHuecos
<1>2. PICK h, C : h = huecos' /\ C = Cubre(huecos)
  OBVIOUS
<1>3. h \in Seq(HuecoR) /\ Separados(h) /\ Cubre(h) = C \union A
      /\ Cubre(h) \subseteq 0 .. TamMemoria - 1
  BY <1>1, <1>2
<1>4. SumaDe(h) = Cardinality(C \union A)
  <2>1. SumaDe(h) = Cardinality(Cubre(h))
    BY <1>3, SumaLista
  <2> QED BY <1>3, <2>1
<1>5. IsFiniteSet(A) /\ Cardinality(A) \in Nat
  <2>1. IsFiniteSet(0 .. TamMemoria - 1)
    <3>1. TamMemoria - 1 \in Int /\ 0 \in Int
      BY TamaniosAssumption
    <3> QED BY <3>1, FS_Interval
  <2> QED BY <2>1, FS_Subset, FS_CardinalityType
<1>6. Cardinality(C \union A) = Cardinality(C) + Cardinality(A) - Cardinality(C \cap A)
  BY <1>1, <1>2, <1>5, FS_Union
<1>7. Cardinality(C \cap A) = 0
  BY <1>2, FS_EmptySet
<1> QED BY <1>1, <1>2, <1>4, <1>5, <1>6, <1>7

-----------------------------------------------------------------------------
(* The steps of the memory.                                                    *)

\* The memory starts as Segmentacion does.
LEMMA CumpleInicio ==
    ASSUME Config, Init
    PROVE  Promesa!Init
<1>1. Reparto
  BY InvInicial DEF MemoriaInv, Init
<1>2. Ocupadas = {}
  BY DEF Ocupadas, Propios, Init
<1>3. SumaDe(huecos) = TamMemoria - TamSegmento
  <2>1. SumaDe(huecos) = Cardinality(TamSegmento .. TamMemoria - 1)
    BY <1>1, <1>2, SumaHuecos DEF Reparto, Enteras
  <2>2. PICK a \in Int, b \in Int : a = TamSegmento /\ b = TamMemoria - 1
    BY TamaniosAssumption
  <2>3. Cardinality(a .. b) = IF a > b THEN 0 ELSE b - a + 1
    BY FS_Interval
  <2> QED BY <2>1, <2>2, <2>3, TamaniosAssumption DEF Config
<1>4. Vistos = <<>>
  BY DEF Init, Vistos
<1> QED BY <1>3, <1>4 DEF Init, Promesa!Init, Vistos, Lados

\* INICIALIZAR_ESTRUCTURA is Nacer.
LEMMA CumpleInicializar ==
    ASSUME MemoriaInv, Config, InicializarEstructura
    PROVE  Promesa!Nacer
<1>1. /\ Len(tabla') = Len(tabla) + 1
      /\ DOMAIN tabla' = DOMAIN tabla \union {Len(tabla) + 1}
      /\ \A q \in DOMAIN tabla : tabla'[q] = tabla[q]
      /\ tabla'[Len(tabla) + 1] = <<Cero>>
  BY SMTT(30), UnaTablaMas DEF MemoriaInv, InicializarEstructura
<1>2. PICK n \in Nat : n = Len(tabla) /\ DOMAIN tabla = 1 .. n
  BY LasTablas DEF MemoriaInv
<1>3. PICK t, u : t = tabla /\ u = tabla'
  OBVIOUS
<1>4. Lados(<<Cero>>) = {}
  BY DEF Lados
<1>5. PICK v : v = Vistos
  OBVIOUS
<1>6. v = [q \in 1 .. n |-> Lados(t[q])] /\ Vistos' = [q \in DOMAIN u |-> Lados(u[q])]
  BY <1>2, <1>3, <1>5 DEF Vistos
<1>7. DOMAIN u = 1 .. n + 1 /\ Lados(u[n + 1]) = {} /\ \A q \in 1 .. n : Lados(u[q]) = Lados(t[q])
  <2>1. \A q \in 1 .. n : u[q] = t[q]
    BY <1>1, <1>2, <1>3
  <2>2. DOMAIN u = 1 .. n + 1
    BY <1>1, <1>2, <1>3
  <2> QED BY <1>1, <1>2, <1>3, <1>4, <2>1, <2>2
<1>8. Vistos' = Append(v, {})
  <2>1. PICK R : R = {Lados(t[q]) : q \in 1 .. n} \union {{}}
    OBVIOUS
  <2>2. v \in [1 .. n -> R] /\ {} \in R
    BY <1>6, <2>1
  <2>3. v \in Seq(R) /\ Len(v) = n
    BY <2>2, EsLista
  <2>4. PICK w : w = Append(v, {})
    OBVIOUS
  <2>5. /\ w \in Seq(R) /\ Len(w) = Len(v) + 1 /\ \A i \in 1 .. Len(v) : w[i] = v[i]
        /\ w[Len(v) + 1] = {}
    BY <2>2, <2>3, <2>4, AppendProperties
  <2>6. w \in [1 .. Len(w) -> R]
    BY <2>5, ListaDe
  <2>7. Len(w) = n + 1 /\ w[n + 1] = {} /\ \A i \in 1 .. n : w[i] = v[i]
    BY <2>3, <2>5
  <2>8. \A q \in 1 .. n + 1 : q \in 1 .. n \/ q = n + 1
    BY <1>2
  <2>9. \A q \in 1 .. n + 1 : w[q] = Lados(u[q])
    BY <1>6, <1>7, <2>7, <2>8
  <2>10. w = [q \in 1 .. n + 1 |-> w[q]]
    BY <2>6, <2>7
  <2>11. Vistos' = [q \in 1 .. n + 1 |-> Lados(u[q])]
    BY <1>6, <1>7
  <2> QED BY <2>4, <2>9, <2>10, <2>11
<1>9. negada' = 0 /\ SumaDe(huecos)' = SumaDe(huecos)
  BY DEF InicializarEstructura
<1> QED BY <1>5, <1>8, <1>9, PromesaNacer

\* CREAR_SEGMENTO in a hole is Crear: the free addresses go down by the size.
LEMMA CumpleHayHueco ==
    ASSUME MemoriaInv, sana, NEW p \in vivos, NEW id \in Ids, NEW tam \in Tamanios,
           \A j \in DOMAIN tabla[p] : tabla[p][j].id # id,
           HayHueco(p, id, tam), UNCHANGED <<celdas, vivos, escrito>>
    PROVE  Promesa!Crear(p, id, tam)
<1>1. SumaDe(huecos)' = SumaDe(huecos) - tam /\ tam <= SumaDe(huecos) /\ negada' = 0
  BY RepartoCrear DEF HayHueco, HayEspacio
<1>2. PICK s, t : s = tabla[p] /\ t = tabla
  OBVIOUS
<1>3. /\ p \in DOMAIN tabla /\ TablasBien /\ s \in Seq(SegmentoR) /\ Len(s) # 0
      /\ Len(s) \in Nat /\ DOMAIN s = 1 .. Len(s)
  BY <1>2, LasTablas DEF MemoriaInv, TablaBien
<1>4. PICK b, x : /\ b \in 0 .. TamMemoria /\ x = Segmento(id, b, tam)
                  /\ tabla' = [t EXCEPT ![p] = Append(s, x)]
  <2>1. PICK i : i = Buscar(huecos, tam)
    OBVIOUS
  <2>2. huecos \in Seq(HuecoR) /\ tam \in Nat
    BY TamaniosAssumption DEF MemoriaInv, Reparto
  <2>3. i \in DOMAIN huecos
    BY <2>1, <2>2, BuscarAlcanza DEF HayHueco
  <2>4. huecos[i].base \in 0 .. TamMemoria
    <3>1. huecos[i] \in HuecoR
      BY <2>2, <2>3, ListaDe
    <3> QED BY <3>1 DEF HuecoR
  <2>5. Agregar(p, id, huecos[i].base, tam)
    BY <2>1 DEF HayHueco
  <2> QED BY <1>2, <2>4, <2>5 DEF Agregar
<1>5. x \in SegmentoR /\ x.id = id /\ x.tam = tam
  BY <1>4, TamaniosAssumption DEF Segmento, SegmentoR
<1>6. Vistos' = [Vistos EXCEPT ![p] = Vistos[p] \union {[id |-> id, tam |-> tam]}]
  <2>1. /\ DOMAIN tabla' = DOMAIN tabla /\ tabla'[p] = Append(s, x)
        /\ \A q \in DOMAIN tabla \ {p} : tabla'[q] = tabla[q]
    BY <1>2, <1>3, <1>4
  <2>2. Vistos' = [Vistos EXCEPT ![p] = Lados(tabla'[p])]
    BY <1>3, <2>1, VistosCambia
  <2>3. Lados(Append(s, x)) = Lados(s) \union {[id |-> x.id, tam |-> x.tam]}
    BY <1>3, <1>5, LadosMas
  <2>4. Vistos[p] = Lados(s)
    BY <1>2, <1>3, LosVistos
  <2> QED BY <1>5, <2>1, <2>2, <2>3, <2>4
<1>7. id \notin {y.id : y \in Vistos[p]}
  <2>1. Vistos[p] = Lados(s)
    BY <1>2, <1>3, LosVistos
  <2>2. \A j \in 2 .. Len(s) : s[j].id # id
    BY <1>2, <1>3
  <2>3. \A y \in Lados(s) : y.id # id
    BY <2>2 DEF Lados
  <2> QED BY <2>1, <2>3
<1> QED BY <1>1, <1>6, <1>7, PromesaCrear

\* CREAR_SEGMENTO is Crear, Negar or, when it asks for a compaction, nothing.
LEMMA CumpleCrear ==
    ASSUME MemoriaInv, NEW p \in vivos, NEW id \in Ids, NEW tam \in Tamanios,
           \A j \in DOMAIN tabla[p] : tabla[p][j].id # id,
           CrearSegmento(p, id, tam), Algoritmo = "FIRST" \/ sana'
    PROVE  Promesa!Crear(p, id, tam) \/ Promesa!Negar(tam) \/ UNCHANGED Promesa!vars
<1>1. sana /\ UNCHANGED <<celdas, vivos, escrito>>
  BY DEF CrearSegmento
<1>2. CASE HayHueco(p, id, tam)
  BY <1>1, <1>2, CumpleHayHueco
<1>3. CASE PideCompactar(p, id, tam)
  <2>1. SumaDe(huecos)' = SumaDe(huecos)
    BY <1>1, <1>3, InvPideCompactar
  <2>2. Vistos' = Vistos /\ negada' = negada
    BY <1>3 DEF PideCompactar, Vistos
  <2> QED BY <2>1, <2>2, PromesaQuieta
<1>4. CASE SinMemoria(tam)
  <2>1. Vistos' = Vistos /\ SumaDe(huecos)' = SumaDe(huecos) /\ negada' = tam
    BY <1>4 DEF SinMemoria, Vistos
  <2>2. tam > SumaDe(huecos)
    <3>1. SumaDe(huecos) \in Nat /\ tam \in Nat
      BY <1>1, SumaHuecos, TamaniosAssumption DEF MemoriaInv
    <3> QED BY <1>4, <3>1 DEF SinMemoria, HayEspacio
  <2> QED BY <2>1, <2>2, PromesaNegar
<1>5. CASE IndiceSinValor(p, id, tam)
  BY <1>5 DEF IndiceSinValor
<1> QED BY <1>2, <1>3, <1>4, <1>5 DEF CrearSegmento

\* A compaction does not show.
LEMMA CumpleCompactar ==
    ASSUME MemoriaInv, Config, RealizarCompactacion
    PROVE  UNCHANGED Promesa!vars
<1>1. SumaDe(huecos)' = SumaDe(huecos)
  BY InvCompactar
<1>2. TablasBien /\ Reparto
  BY DEF MemoriaInv, RealizarCompactacion
<1>3. PICK M, s, b : Movidas(M, s, b)
  BY <1>2, HayMovidas DEF Reparto
<1>4. Bajadas(tabla', M, s, b)
  <2>1. Bajadas(TablaCompactada, M, s, b)
    BY <1>2, <1>3, HayBajadas DEF Reparto
  <2> QED BY <2>1 DEF RealizarCompactacion
<1>5. PICK t, u : t = tabla /\ u = tabla'
  OBVIOUS
<1>6. DOMAIN u = DOMAIN t /\ \A p \in DOMAIN t : Lados(u[p]) = Lados(t[p])
  <2>1. /\ DOMAIN u = DOMAIN t
        /\ \A p \in DOMAIN t :
             /\ Len(u[p]) = Len(t[p])
             /\ \A j \in 1 .. Len(t[p]) : u[p][j].id = t[p][j].id /\ u[p][j].tam = t[p][j].tam
    BY <1>4, <1>5 DEF Bajadas
  <2>2. ASSUME NEW p \in DOMAIN t PROVE Lados(u[p]) = Lados(t[p])
    <3>1. PICK x, y : x = u[p] /\ y = t[p]
      OBVIOUS
    <3>2. PICK m \in Nat : m = Len(y)
      BY <1>2, <1>5, <3>1, LasTablas
    <3>3. Len(x) = m /\ \A j \in 2 .. m : x[j].id = y[j].id /\ x[j].tam = y[j].tam
      <4>1. \A j \in 2 .. m : j \in 1 .. m
        BY <3>2
      <4> QED BY <2>1, <3>1, <3>2, <4>1
    <3>4. Lados(x) = Lados(y)
      BY <3>2, <3>3 DEF Lados
    <3> QED BY <3>1, <3>4
  <2> QED BY <2>1, <2>2
<1>7. Vistos' = Vistos
  <2>1. Vistos = [q \in DOMAIN t |-> Lados(t[q])] /\ Vistos' = [q \in DOMAIN u |-> Lados(u[q])]
    BY <1>5 DEF Vistos
  <2> QED BY <1>6, <2>1
<1>8. negada' = negada
  BY DEF RealizarCompactacion
<1> QED BY <1>1, <1>7, <1>8, PromesaQuieta

-----------------------------------------------------------------------------
\* ELIMINAR_SEGMENTO is Eliminar.
LEMMA CumpleEliminar ==
    ASSUME MemoriaInv, Config, NEW p \in vivos, EliminarSegmento(p)
    PROVE  \E id \in Ids : Promesa!Eliminar(p, id)
<1>1. sana /\ p \in DOMAIN tabla /\ TablasBien /\ Reparto /\ negada' = 0
  BY DEF EliminarSegmento, MemoriaInv
<1>2. PICK id \in Ids : EliminaNada(p, id) \/ \E j : EliminaUno(p, id, j)
  BY LoEliminado
<1>3. PICK s, t : s = tabla[p] /\ t = tabla
  OBVIOUS
<1>4. /\ s \in Seq(SegmentoR) /\ TablaBien(s) /\ Separados(s)
      /\ \A j \in 2 .. Len(s) : <<p, j>> \in Propios /\ De(<<p, j>>) = s[j]
  BY <1>1, <1>3, LosDeUno
<1>5. Vistos[p] = Lados(s)
  BY <1>1, <1>3, LosVistos
<1>6. PICK S : S = ConId(s, id)
  OBVIOUS
<1>7. S = {x \in Vistos[p] : x.id = id}
  BY <1>5, <1>6 DEF ConId
<1>8. DOMAIN s = 1 .. Len(s) /\ Len(s) \in Nat
  BY <1>4, ListaDe
<1>9. CASE EliminaNada(p, id)
  <2>1. S = {}
    <3>1. \A j \in 2 .. Len(s) : s[j].id # id
      <4>1. \A j \in 2 .. Len(s) : j \in DOMAIN s
        BY <1>8
      <4> QED BY <1>3, <1>9, <4>1 DEF EliminaNada
    <3> QED BY <1>6, <3>1 DEF ConId, Lados
  <2>2. SumaDe(huecos)' = SumaDe(huecos) + Suma(S)
    <3>1. SumaDe(huecos)' = SumaDe(huecos) + Cardinality({})
      <4>1. /\ huecos' \in Seq(HuecoR) /\ Separados(huecos)'
            /\ Cubre(huecos)' = Cubre(huecos) \union {}
        BY <1>9 DEF EliminaNada
      <4> QED BY <1>1, <4>1, SumaLibera
    <3> QED BY <2>1, <3>1, SumaDeNadie, FS_EmptySet
  <2>3. Vistos' = [Vistos EXCEPT ![p] = Vistos[p] \ S]
    <3>1. Vistos' = Vistos
      BY <1>9 DEF EliminaNada, Vistos
    <3>2. PICK v : v = Vistos /\ v = [q \in DOMAIN v |-> v[q]]
      BY DEF Vistos
    <3>3. [v EXCEPT ![p] = v[p] \ S] = v
      BY <2>1, <3>2
    <3> QED BY <3>1, <3>2, <3>3
  <2>4. Promesa!Eliminar(p, id)
    BY <1>1, <1>7, <2>2, <2>3, PromesaEliminar
  <2> QED BY <2>4
<1>10. ASSUME NEW j, EliminaUno(p, id, j) PROVE Promesa!Eliminar(p, id)
  <2>1. /\ j \in 2 .. Len(s) /\ s[j].id = id
        /\ tabla' = [t EXCEPT ![p] = RemoveAt(s, j)]
        /\ Cubre(huecos) \cap Hasta(s[j]) = {}
        /\ huecos' \in Seq(HuecoR) /\ Separados(huecos)'
        /\ Cubre(huecos)' = Cubre(huecos) \union Hasta(s[j])
    BY <1>3, <1>10 DEF EliminaUno
  <2>2. \A k \in 2 .. Len(s) : Hasta(s[k]) \subseteq 0 .. TamMemoria - 1
    <3>1. \A a \in TamSegmento .. TamMemoria - 1 : a \in 0 .. TamMemoria - 1
      BY TamaniosAssumption
    <3>2. ASSUME NEW k \in 2 .. Len(s) PROVE Hasta(s[k]) \subseteq TamSegmento .. TamMemoria - 1
      <4>1. PICK r \in Propios : De(r) = s[k]
        BY <1>4
      <4> QED BY <1>1, <4>1 DEF Reparto, SinSolapes
    <3> QED BY <3>1, <3>2
  <2>3. S = {[id |-> s[k].id, tam |-> s[k].tam] : k \in {j}}
    BY <1>4, <1>6, <2>1, LadosSin
  <2>4. Suma(S) = Cardinality(Hasta(s[j]))
    <3>1. PICK J : J = {j}
      OBVIOUS
    <3>2. Suma(S) = Cardinality(UNION {Hasta(s[k]) : k \in J})
      <4>1. J \in SUBSET (2 .. Len(s)) /\ S = {[id |-> s[k].id, tam |-> s[k].tam] : k \in J}
        BY <2>1, <2>3, <3>1
      <4> QED BY <1>4, <2>2, <4>1, SumaDeTabla
    <3>3. UNION {Hasta(s[k]) : k \in J} = Hasta(s[j])
      BY <3>1
    <3> QED BY <3>2, <3>3
  <2>5. SumaDe(huecos)' = SumaDe(huecos) + Suma(S)
    BY <1>1, <2>1, <2>2, <2>4, SumaLibera
  <2>6. Vistos' = [Vistos EXCEPT ![p] = Vistos[p] \ S]
    <3>1. /\ DOMAIN tabla' = DOMAIN tabla /\ tabla'[p] = RemoveAt(s, j)
          /\ \A q \in DOMAIN tabla \ {p} : tabla'[q] = tabla[q]
      BY <1>1, <1>3, <2>1
    <3>2. Vistos' = [Vistos EXCEPT ![p] = Lados(tabla'[p])]
      BY <1>1, <3>1, VistosCambia
    <3>3. Lados(RemoveAt(s, j)) = Lados(s) \ S
      BY <1>4, <1>6, <2>1, LadosSin
    <3> QED BY <1>5, <3>1, <3>2, <3>3
  <2> QED BY <1>1, <1>7, <2>5, <2>6, PromesaEliminar
<1> QED BY <1>2, <1>9, <1>10

\* FINALIZAR is Terminar.
LEMMA CumpleFinalizar ==
    ASSUME MemoriaInv, Config, NEW p \in vivos, Finalizar(p)
    PROVE  Promesa!Terminar(p)
<1>1. sana /\ p \in DOMAIN tabla /\ TablasBien /\ Reparto /\ negada' = 0
  BY DEF Finalizar, MemoriaInv
<1>2. LiberaTodos(p)
  BY LoFinalizado
<1>3. PICK s, t : s = tabla[p] /\ t = tabla
  OBVIOUS
<1>4. /\ s \in Seq(SegmentoR) /\ TablaBien(s) /\ Separados(s)
      /\ \A j \in 2 .. Len(s) : /\ <<p, j>> \in Propios /\ De(<<p, j>>) = s[j]
                                /\ Cubre(huecos) \cap Hasta(s[j]) = {}
  BY <1>1, <1>3, LosDeUno
<1>5. PICK z \in Seq(SegmentoR) : Len(z) = 1 /\ tabla' = [t EXCEPT ![p] = z]
  BY <1>2, <1>3 DEF LiberaTodos
<1>6. PICK S : S = Vistos[p] /\ S = Lados(s)
  BY <1>1, <1>3, LosVistos
<1>7. PICK A : A = UNION {Hasta(s[j]) : j \in 2 .. Len(s)}
  OBVIOUS
<1>8. \A j \in 2 .. Len(s) : Hasta(s[j]) \subseteq 0 .. TamMemoria - 1
  <2>1. \A a \in TamSegmento .. TamMemoria - 1 : a \in 0 .. TamMemoria - 1
    BY TamaniosAssumption
  <2>2. ASSUME NEW j \in 2 .. Len(s) PROVE Hasta(s[j]) \subseteq TamSegmento .. TamMemoria - 1
    <3>1. PICK r \in Propios : De(r) = s[j]
      BY <1>4
    <3> QED BY <1>1, <3>1 DEF Reparto, SinSolapes
  <2> QED BY <2>1, <2>2
<1>9. Suma(S) = Cardinality(A)
  <2>1. PICK J : J = 2 .. Len(s)
    OBVIOUS
  <2>2. S = {[id |-> s[j].id, tam |-> s[j].tam] : j \in J}
    BY <1>6, <2>1 DEF Lados
  <2>3. Suma(S) = Cardinality(UNION {Hasta(s[j]) : j \in J})
    BY <1>4, <1>8, <2>1, <2>2, SumaDeTabla
  <2> QED BY <1>7, <2>1, <2>3
<1>10. A \subseteq 0 .. TamMemoria - 1 /\ Cubre(huecos) \cap A = {}
  <2>1. PICK J, M, X : /\ J = 2 .. Len(s) /\ M = 0 .. TamMemoria - 1
                       /\ X = [j \in J |-> Hasta(s[j])]
    OBVIOUS
  <2>2. \A j \in J : X[j] \subseteq M /\ Cubre(huecos) \cap X[j] = {}
    BY <1>4, <1>8, <2>1
  <2>3. A = UNION {X[j] : j \in J}
    BY <1>7, <2>1
  <2>4. A \subseteq M /\ Cubre(huecos) \cap A = {}
    BY ONLY <2>2, <2>3
  <2> QED BY <2>1, <2>4
<1>11. SumaDe(huecos)' = SumaDe(huecos) + Suma(S)
  <2>1. /\ huecos' \in Seq(HuecoR) /\ Separados(huecos)'
        /\ Cubre(huecos)' = Cubre(huecos) \union A
    BY <1>2, <1>3, <1>7 DEF LiberaTodos
  <2> QED BY <1>1, <1>9, <1>10, <2>1, SumaLibera
<1>12. Vistos' = [Vistos EXCEPT ![p] = {}]
  <2>1. /\ DOMAIN tabla' = DOMAIN tabla /\ tabla'[p] = z
        /\ \A q \in DOMAIN tabla \ {p} : tabla'[q] = tabla[q]
    BY <1>1, <1>3, <1>5
  <2>2. Vistos' = [Vistos EXCEPT ![p] = Lados(tabla'[p])]
    BY <1>1, <2>1, VistosCambia
  <2>3. Lados(z) = {}
    BY <1>5 DEF Lados
  <2> QED BY <2>1, <2>2, <2>3
<1> QED BY <1>1, <1>6, <1>11, <1>12, PromesaTerminar

-----------------------------------------------------------------------------
\* The steps of Segmentacion are named by processes it knows.
LEMMA CumpleConocidos ==
    ASSUME MemoriaInv, NEW p \in vivos,
           \/ \E id \in Ids, tam \in Tamanios : Promesa!Crear(p, id, tam)
           \/ \E id \in Ids : Promesa!Eliminar(p, id)
           \/ Promesa!Terminar(p)
    PROVE  Promesa!Next
<1>1. p \in DOMAIN Vistos
  BY DEF MemoriaInv, Vistos
<1>2. p \in DOMAIN [q \in DOMAIN tabla |->
                      {[id |-> tabla[q][j].id, tam |-> tabla[q][j].tam] : j \in 2 .. Len(tabla[q])}]
  BY <1>1 DEF Vistos, Lados
<1> QED BY <1>2 DEF Promesa!Next

\* A step that changes nothing does not show.
LEMMA CumpleQuieta ==
    ASSUME UNCHANGED vars
    PROVE  UNCHANGED Promesa!vars
<1>1. Vistos' = Vistos /\ SumaDe(huecos)' = SumaDe(huecos) /\ negada' = negada
  BY DEF vars, Vistos
<1> QED BY <1>1, PromesaQuieta

\* Each step is one of Segmentacion or does not show.
LEMMA CumplePaso ==
    ASSUME MemoriaInv, Config, [Next]_vars, Algoritmo = "FIRST" \/ sana'
    PROVE  [Promesa!Next]_(Promesa!vars)
<1>1. CASE InicializarEstructura
  BY <1>1, CumpleInicializar DEF Promesa!Next
<1>2. ASSUME NEW p \in vivos, NEW id \in Ids, NEW tam \in Tamanios,
             \A j \in DOMAIN tabla[p] : tabla[p][j].id # id, CrearSegmento(p, id, tam)
      PROVE  [Promesa!Next]_(Promesa!vars)
  <2>1. CASE Promesa!Crear(p, id, tam)
    BY <2>1, CumpleConocidos
  <2>2. CASE Promesa!Negar(tam)
    BY <2>2 DEF Promesa!Next
  <2>3. CASE UNCHANGED Promesa!vars
    BY <2>3
  <2> QED BY <1>2, <2>1, <2>2, <2>3, CumpleCrear
<1>3. ASSUME NEW p \in vivos, Pedir(p) PROVE [Promesa!Next]_(Promesa!vars)
  <2>1. PICK id \in Ids, tam \in Tamanios :
           /\ id \notin {tabla[p][j].id : j \in DOMAIN tabla[p]}
           /\ CrearSegmento(p, id, tam)
    BY <1>3 DEF Pedir
  <2> QED BY <1>2, <2>1
<1>4. CASE PedirDeNuevo
  <2>1. PICK p, id, tam : p = pedido.pid /\ id = pedido.id /\ tam = pedido.tam
    OBVIOUS
  <2>2. /\ p \in vivos /\ id \in Ids /\ tam \in Tamanios
        /\ \A j \in DOMAIN tabla[p] : tabla[p][j].id # id
        /\ CrearSegmento(p, id, tam)
    BY <1>4, <2>1, LoPendiente DEF PedirDeNuevo
  <2> QED BY <1>2, <2>2
<1>5. ASSUME NEW p \in vivos, EliminarSegmento(p) PROVE [Promesa!Next]_(Promesa!vars)
  BY <1>5, CumpleEliminar, CumpleConocidos
<1>6. ASSUME NEW p \in vivos, Finalizar(p) PROVE [Promesa!Next]_(Promesa!vars)
  BY <1>6, CumpleFinalizar, CumpleConocidos
<1>7. ASSUME NEW p \in vivos, Escribir(p) PROVE [Promesa!Next]_(Promesa!vars)
  <2>1. Vistos' = Vistos /\ SumaDe(huecos)' = SumaDe(huecos) /\ negada' = negada
    BY <1>7 DEF Escribir, Vistos
  <2> QED BY <2>1, PromesaQuieta
<1>8. CASE RealizarCompactacion
  BY <1>8, CumpleCompactar
<1>9. CASE UNCHANGED vars
  BY <1>9, CumpleQuieta
<1> QED BY <1>1, <1>3, <1>4, <1>5, <1>6, <1>7, <1>8, <1>9 DEF Next

\* With FIRST the memory does what Segmentacion promises.
THEOREM FirstCumple ==
    ASSUME Config, Algoritmo = "FIRST"
    PROVE  Spec => PromesaCumplida
<1>1. Init => Promesa!Init
  BY CumpleInicio
<1>2. MemoriaInv /\ [Next]_vars => [Promesa!Next]_(Promesa!vars)
  BY CumplePaso
<1> QED BY <1>1, <1>2, MemoriaInvariante, PTL DEF Spec, PromesaCumplida, Promesa!Spec

\* With the three algorithms, as long as no index without a value was used.
THEOREM SanaCumple ==
    ASSUME Config
    PROVE  Spec /\ []sana => PromesaCumplida
<1>1. Init => Promesa!Init
  BY CumpleInicio
<1>2. MemoriaInv /\ sana' /\ [Next]_vars => [Promesa!Next]_(Promesa!vars)
  BY CumplePaso
<1> QED BY <1>1, <1>2, MemoriaInvariante, PTL DEF Spec, PromesaCumplida, Promesa!Spec

\* First never uses an index without a value.
LEMMA FirstSana ==
    ASSUME Algoritmo = "FIRST", sana, [Next]_vars
    PROVE  sana'
<1>1. ASSUME NEW p, NEW id, NEW tam, CrearSegmento(p, id, tam) PROVE sana'
  BY <1>1 DEF CrearSegmento, HayHueco, PideCompactar, IndiceSinValor, SinMemoria
<1> QED BY <1>1 DEF Next, InicializarEstructura, Pedir, PedirDeNuevo, RealizarCompactacion,
                    EliminarSegmento, Finalizar, Escribir, vars

\* With FIRST no two segments ever share an address, and none leaves the memory
\* or enters the segment 0 (with BEST it can happen: run best_sin_hueco).
THEOREM FirstSinSolapes ==
    ASSUME Config, Algoritmo = "FIRST"
    PROVE  Spec => []SinSolapes
<1>1. Init => sana
  BY DEF Init
<1>2. sana /\ [Next]_vars => sana'
  BY FirstSana
<1>3. MemoriaInv /\ sana => SinSolapes
  BY DEF MemoriaInv, Reparto
<1> QED BY <1>1, <1>2, <1>3, MemoriaInvariante, PTL DEF Spec
=============================================================================
