------------------------------- MODULE PcbProofs -------------------------------
(* A PCB arrives as it left: theorems about Serializacion, for every set of    *)
(* processes and files, all lengths of texts, all programs and any number of   *)
(* open files that fit.  A buffer is opened field by field (EsBuffer), what is *)
(* put together keeps its fields and adds its bytes (Pegados), and the lists,  *)
(* whose lengths are fields of the buffer, are put together and read by steps  *)
(* of one entry; the inductions over their length take the least number at     *)
(* which something would fail.                                                 *)
EXTENDS Serializacion, ArchivosProofs

-----------------------------------------------------------------------------
(* Serializacion: sums.                                                        *)

\* f[i] is the sum of the first i numbers of s.
Sumando(f, s, N) ==
    /\ f \in [0 .. N -> Nat] /\ f[0] = 0
    /\ \A i \in 1 .. N : f[i] = f[i - 1] + s[i]

\* Any list of numbers can be added up.
LEMMA HaySuma ==
    ASSUME NEW N \in Nat, NEW s, \A i \in 1 .. N : s[i] \in Nat
    PROVE  \E f : Sumando(f, s, N)
<1> DEFINE Malos == {n \in 0 .. N : ~\E f : Sumando(f, s, n)}
<1>1. SUFFICES ASSUME Malos # {} PROVE FALSE
  OBVIOUS
<1>2. PICK n \in Malos : \A k \in Malos : n <= k
  <2>1. Malos \subseteq Nat
    OBVIOUS
  <2> HIDE DEF Malos
  <2> QED BY <1>1, <2>1, Minimo
<1>3. n # 0
  <2>1. Sumando([i \in 0 .. 0 |-> 0], s, 0)
    BY DEF Sumando
  <2> QED BY <2>1
<1>4. n \in Nat /\ n \in 1 .. N /\ n - 1 \in 0 .. N /\ n - 1 \notin Malos
  BY <1>2, <1>3
<1>5. PICK f : Sumando(f, s, n - 1)
  BY <1>4
<1> DEFINE g == [i \in 0 .. n |-> IF i = n THEN f[n - 1] + s[n] ELSE f[i]]
<1>6. f[n - 1] \in Nat /\ s[n] \in Nat
  BY <1>4, <1>5 DEF Sumando
<1>7. \A i \in 0 .. n : i # n => i \in 0 .. n - 1
  BY <1>4
<1>8. g \in [0 .. n -> Nat]
  <2>1. \A i \in 0 .. n : i # n => f[i] \in Nat
    BY <1>5, <1>7 DEF Sumando
  <2> QED BY <1>6, <2>1
<1>9. g[0] = 0
  BY <1>4, <1>5 DEF Sumando
<1>10. ASSUME NEW i \in 1 .. n PROVE g[i] = g[i - 1] + s[i]
  <2>1. i \in 0 .. n /\ i - 1 \in 0 .. n /\ i - 1 # n
    BY <1>4
  <2>2. CASE i = n
    BY <2>1, <2>2
  <2>3. CASE i # n
    <3>1. i \in 1 .. n - 1
      BY <1>4, <2>3
    <3> QED BY <1>5, <2>1, <2>3, <3>1 DEF Sumando
  <2> QED BY <2>2, <2>3
<1>11. Sumando(g, s, n)
  BY <1>8, <1>9, <1>10 DEF Sumando
<1> QED BY <1>2, <1>11

\* ... and Suma adds it up.
LEMMA SumaEs ==
    ASSUME NEW N \in Nat, NEW s, Len(s) = N, NEW f, Sumando(f, s, N)
    PROVE  Suma(s) = f[N] /\ Suma(s) \in Nat
<1> DEFINE g == CHOOSE g : g = [i \in 0 .. N |-> IF i = 0 THEN 0 ELSE g[i - 1] + s[i]]
<1>1. Suma(s) = g[N]
  BY DEF Suma
<1>2. f = [i \in 0 .. N |-> IF i = 0 THEN 0 ELSE f[i - 1] + s[i]]
  <2>1. \A i \in 0 .. N : f[i] = IF i = 0 THEN 0 ELSE f[i - 1] + s[i]
    <3>1. \A i \in 0 .. N : i = 0 \/ i \in 1 .. N
      OBVIOUS
    <3> QED BY <3>1 DEF Sumando
  <2>2. f = [i \in 0 .. N |-> f[i]]
    BY DEF Sumando
  <2> QED BY <2>1, <2>2
<1>3. g = [i \in 0 .. N |-> IF i = 0 THEN 0 ELSE g[i - 1] + s[i]]
  BY <1>2
<1> HIDE DEF g
<1> DEFINE D == {i \in 0 .. N : g[i] # f[i]}
<1>4. D = {}
  <2> SUFFICES ASSUME D # {} PROVE FALSE
    OBVIOUS
  <2>1. PICK m \in D : \A k \in D : m <= k
    <3>1. D \subseteq Nat
      OBVIOUS
    <3> HIDE DEF D
    <3> QED BY <3>1, Minimo
  <2>2. m \in 0 .. N /\ g[m] # f[m]
    BY <2>1
  <2>3. m # 0
    BY <1>3, <2>2 DEF Sumando
  <2>4. m - 1 \in 0 .. N /\ m - 1 \notin D /\ m \in 1 .. N
    BY <2>1, <2>2, <2>3
  <2>5. g[m - 1] = f[m - 1]
    BY <2>4
  <2>6. g[m] = g[m - 1] + s[m]
    BY <1>3, <2>2, <2>3
  <2> QED BY <2>2, <2>4, <2>5, <2>6 DEF Sumando
<1>5. N \in 0 .. N /\ f[N] \in Nat
  BY DEF Sumando
<1> QED BY <1>1, <1>4, <1>5

\* The sum of a list given as a function.
LEMMA SumaLista ==
    ASSUME NEW N \in Nat, NEW s, s = [i \in 1 .. N |-> s[i]], \A i \in 1 .. N : s[i] \in Nat
    PROVE  \E f : Sumando(f, s, N) /\ Suma(s) = f[N] /\ Suma(s) \in Nat
<1>1. PICK f : Sumando(f, s, N)
  BY HaySuma
<1>2. Len(s) = N
  <2>1. s \in [1 .. N -> Nat]
    OBVIOUS
  <2> QED BY <2>1
<1> QED BY <1>1, <1>2, SumaEs

-----------------------------------------------------------------------------
(* Buffers.                                                                    *)

EsBuffer(x, n) == x = [k \in 1 .. n |-> x[k]] /\ \A k \in 1 .. n : x[k].ancho \in Nat

\* A buffer is a sequence.
LEMMA BufferLista ==
    ASSUME NEW n \in Nat, NEW x, EsBuffer(x, n)
    PROVE  x \in Seq({x[k] : k \in 1 .. n}) /\ Len(x) = n /\ DOMAIN x = 1 .. n
<1> DEFINE V == {x[k] : k \in 1 .. n}
<1>1. x \in [1 .. n -> V]
  BY DEF EsBuffer
<1> HIDE DEF V
<1> QED BY <1>1

EsJunta(z, x, y, m, n) ==
    /\ EsBuffer(z, m + n)
    /\ \A k \in 1 .. m : z[k] = x[k]
    /\ \A k \in 1 .. n : z[m + k] = y[k]

\* A buffer after another one.
LEMMA Junta ==
    ASSUME NEW m \in Nat, NEW n \in Nat, NEW x, NEW y, EsBuffer(x, m), EsBuffer(y, n)
    PROVE  EsJunta(x \o y, x, y, m, n)
<1> DEFINE V == {x[k] : k \in 1 .. m} \union {y[k] : k \in 1 .. n}
<1>1. x \in [1 .. m -> V] /\ y \in [1 .. n -> V]
  BY DEF EsBuffer
<1> HIDE DEF V
<1>2. x \in Seq(V) /\ y \in Seq(V) /\ Len(x) = m /\ Len(y) = n
  BY <1>1
<1>3. /\ x \o y \in Seq(V) /\ Len(x \o y) = m + n
      /\ \A k \in 1 .. m + n : (x \o y)[k] = IF k <= m THEN x[k] ELSE y[k - m]
  BY <1>2, ConcatProperties
<1>4. \A k \in 1 .. m : k \in 1 .. m + n /\ k <= m
  OBVIOUS
<1>5. \A k \in 1 .. n : m + k \in 1 .. m + n /\ ~(m + k <= m) /\ m + k - m = k
  OBVIOUS
<1>6. \A k \in 1 .. m : (x \o y)[k] = x[k]
  BY <1>3, <1>4
<1>7. \A k \in 1 .. n : (x \o y)[m + k] = y[k]
  BY <1>3, <1>5
<1>8. x \o y = [k \in 1 .. m + n |-> (x \o y)[k]]
  <2>1. x \o y \in [1 .. m + n -> V]
    BY <1>3, LenProperties
  <2> QED BY <2>1
<1>9. \A k \in 1 .. m + n : (x \o y)[k].ancho \in Nat
  <2>1. \A k \in 1 .. m + n : k \in 1 .. m \/ (~(k <= m) /\ k - m \in 1 .. n)
    OBVIOUS
  <2>2. \A k \in 1 .. m : k <= m
    OBVIOUS
  <2> QED BY <1>3, <2>1, <2>2 DEF EsBuffer
<1> QED BY <1>6, <1>7, <1>8, <1>9 DEF EsBuffer, EsJunta

\* f[k] is how many bytes the first k fields take.
Cuenta(f, x, n) ==
    /\ f \in [0 .. n -> Nat] /\ f[0] = 0
    /\ \A k \in 1 .. n : f[k] = f[k - 1] + x[k].ancho
    /\ Bytes(x) = f[n] /\ Bytes(x) \in Nat

\* The bytes of a buffer, field by field.
LEMMA BytesPasos ==
    ASSUME NEW n \in Nat, NEW x, EsBuffer(x, n)
    PROVE  \E f : Cuenta(f, x, n)
<1> DEFINE s == [i \in 1 .. n |-> x[i].ancho]
<1>1. Bytes(x) = Suma(s)
  BY BufferLista DEF Bytes
<1>2. s = [i \in 1 .. n |-> s[i]] /\ \A i \in 1 .. n : s[i] \in Nat /\ s[i] = x[i].ancho
  BY DEF EsBuffer
<1> HIDE DEF s
<1>3. PICK f : Sumando(f, s, n) /\ Suma(s) = f[n] /\ Suma(s) \in Nat
  BY <1>2, SumaLista
<1> QED BY <1>1, <1>2, <1>3 DEF Sumando, Cuenta

\* Whatever counts them so gives the bytes.
LEMMA BytesSon ==
    ASSUME NEW n \in Nat, NEW x, EsBuffer(x, n), NEW f, f \in [0 .. n -> Nat], f[0] = 0,
           \A k \in 1 .. n : f[k] = f[k - 1] + x[k].ancho
    PROVE  Bytes(x) = f[n]
<1> DEFINE s == [i \in 1 .. n |-> x[i].ancho]
<1>1. Bytes(x) = Suma(s)
  BY BufferLista DEF Bytes
<1>2. Len(s) = n /\ \A i \in 1 .. n : s[i] = x[i].ancho
  <2>1. s \in [1 .. n -> Nat]
    BY DEF EsBuffer
  <2> QED BY <2>1
<1> HIDE DEF s
<1>3. Sumando(f, s, n)
  BY <1>2 DEF Sumando
<1> QED BY <1>1, <1>2, <1>3, SumaEs

SumanBytes(z, x, y) ==
    Bytes(z) = Bytes(x) + Bytes(y) /\ Bytes(x) \in Nat /\ Bytes(y) \in Nat

\* The bytes of two buffers are those of each.
LEMMA BytesJunta ==
    ASSUME NEW m \in Nat, NEW n \in Nat, NEW x, NEW y, EsBuffer(x, m), EsBuffer(y, n),
           NEW z, z = x \o y
    PROVE  SumanBytes(z, x, y)
<1>0. /\ EsBuffer(z, m + n)
      /\ \A k \in 1 .. m : z[k] = x[k]
      /\ \A k \in 1 .. n : z[m + k] = y[k]
  <2>1. EsJunta(z, x, y, m, n)
    BY Junta, Zenon
  <2> QED BY <2>1 DEF EsJunta
<1>1. PICK f : /\ f \in [0 .. m -> Nat] /\ f[0] = 0
               /\ \A k \in 1 .. m : f[k] = f[k - 1] + x[k].ancho
               /\ Bytes(x) = f[m] /\ Bytes(x) \in Nat
  BY BytesPasos DEF Cuenta
<1>2. PICK g : /\ g \in [0 .. n -> Nat] /\ g[0] = 0
               /\ \A k \in 1 .. n : g[k] = g[k - 1] + y[k].ancho
               /\ Bytes(y) = g[n] /\ Bytes(y) \in Nat
  BY BytesPasos DEF Cuenta
<1> DEFINE h == [k \in 0 .. m + n |-> IF k <= m THEN f[k] ELSE f[m] + g[k - m]]
<1>3. \A k \in 0 .. m + n : (k <= m /\ k \in 0 .. m) \/ (~(k <= m) /\ k - m \in 0 .. n)
  OBVIOUS
<1>4. h \in [0 .. m + n -> Nat]
  <2>1. ASSUME NEW k \in 0 .. m + n PROVE (IF k <= m THEN f[k] ELSE f[m] + g[k - m]) \in Nat
    <3>1. CASE k <= m
      BY <1>1, <1>3, <3>1
    <3>2. CASE ~(k <= m)
      <4>1. g[k - m] \in Nat /\ f[m] \in Nat
        BY <1>1, <1>2, <1>3, <3>2
      <4> QED BY <3>2, <4>1
    <3> QED BY <3>1, <3>2
  <2> QED BY <2>1
<1>5. h[0] = 0
  BY <1>1
<1>6. ASSUME NEW k \in 1 .. m + n PROVE h[k] = h[k - 1] + z[k].ancho
  <2>1. k \in 0 .. m + n /\ k - 1 \in 0 .. m + n
    OBVIOUS
  <2>2. CASE k <= m
    <3>1. k \in 1 .. m /\ k - 1 <= m
      BY <2>2
    <3>2. h[k] = f[k] /\ h[k - 1] = f[k - 1]
      BY <2>1, <2>2, <3>1
    <3>3. z[k] = x[k]
      BY <1>0, <3>1
    <3>4. f[k] = f[k - 1] + x[k].ancho
      BY <1>1, <3>1
    <3> HIDE DEF h
    <3> QED BY <3>2, <3>3, <3>4
  <2>3. CASE ~(k <= m)
    <3>1. PICK j \in 1 .. n : k = m + j /\ k - m = j /\ k - 1 - m = j - 1
      <4>1. k - m \in 1 .. n /\ k = m + (k - m) /\ k - 1 - m = (k - m) - 1
        BY <2>3
      <4> QED BY <4>1
    <3>2. h[k] = f[m] + g[j]
      BY <2>1, <2>3, <3>1
    <3>3. h[k - 1] = f[m] + g[j - 1]
      <4>1. CASE j = 1
        <5>1. k - 1 = m /\ j - 1 = 0
          BY <3>1, <4>1
        <5>2. h[k - 1] = f[m]
          BY <2>1, <5>1
        <5>3. f[m] \in Nat
          BY <1>1
        <5> QED BY <1>2, <5>1, <5>2, <5>3
      <4>2. CASE j # 1
        <5>1. PICK i \in 0 .. m + n : i = k - 1 /\ ~(i <= m) /\ i - m = j - 1
          BY <2>1, <3>1, <4>2
        <5>2. h[i] = f[m] + g[j - 1]
          BY <5>1
        <5> HIDE DEF h
        <5> QED BY <5>1, <5>2
      <4> QED BY <4>1, <4>2
    <3>4. z[k] = y[j]
      BY <1>0, <3>1
    <3>5. g[j] = g[j - 1] + y[j].ancho /\ f[m] \in Nat /\ g[j - 1] \in Nat /\ y[j].ancho \in Nat
      BY <1>1, <1>2 DEF EsBuffer
    <3> HIDE DEF h
    <3> QED BY <3>2, <3>3, <3>4, <3>5
  <2> QED BY <2>2, <2>3
<1>7. h[m + n] = f[m] + g[n]
  <2>1. CASE n = 0
    <3>1. h[m + n] = f[m] /\ f[m] \in Nat
      BY <1>1, <2>1
    <3> QED BY <1>2, <2>1, <3>1
  <2>2. CASE n # 0
    <3>1. m + n \in 0 .. m + n /\ ~(m + n <= m) /\ m + n - m = n
      BY <2>2
    <3> QED BY <3>1
  <2> QED BY <2>1, <2>2
<1> HIDE DEF h
<1>8. Bytes(z) = h[m + n]
  <2>1. PICK M \in Nat : M = m + n
    OBVIOUS
  <2>2. EsBuffer(z, M) /\ h \in [0 .. M -> Nat] /\ h[0] = 0
    BY <1>0, <1>4, <1>5, <2>1
  <2>3. \A k \in 1 .. M : h[k] = h[k - 1] + z[k].ancho
    BY <1>6, <2>1
  <2>4. Bytes(z) = h[M]
    BY <2>2, <2>3, BytesSon, Zenon
  <2> QED BY <2>1, <2>4
<1> QED BY <1>1, <1>2, <1>7, <1>8 DEF SumanBytes

-----------------------------------------------------------------------------
(* Buffers put one after the other by FlattenSeq.                              *)

\* h[i] is what the first i sequences of s make.
Acumula(h, s, N) ==
    h = [i \in 1 .. N |-> h[i]] /\ h[1] = s[1] /\ \A i \in 2 .. N : h[i] = h[i - 1] \o s[i]

\* Adding the sequences one by one gives all of them in a row.
LEMMA Concatenadas ==
    ASSUME NEW N \in Nat \ {0}, NEW s, Len(s) = N, NEW h, Acumula(h, s, N)
    PROVE  FlattenSeq(s) = h[N]
<1>0. h = [i \in 1 .. N |-> h[i]] /\ h[1] = s[1] /\ \A i \in 2 .. N : h[i] = h[i - 1] \o s[i]
  BY DEF Acumula
<1> DEFINE g == CHOOSE g : g = [i \in 1 .. N |-> IF i = 1 THEN s[i] ELSE g[i - 1] \o s[i]]
<1>1. FlattenSeq(s) = g[N]
  BY DEF FlattenSeq
<1>2. h = [i \in 1 .. N |-> IF i = 1 THEN s[i] ELSE h[i - 1] \o s[i]]
  <2>1. \A i \in 1 .. N : h[i] = IF i = 1 THEN s[i] ELSE h[i - 1] \o s[i]
    <3>1. \A i \in 1 .. N : i = 1 \/ i \in 2 .. N
      OBVIOUS
    <3> QED BY <1>0, <3>1
  <2> QED BY <1>0, <2>1
<1>3. g = [i \in 1 .. N |-> IF i = 1 THEN s[i] ELSE g[i - 1] \o s[i]]
  BY <1>2
<1> HIDE DEF g
<1> DEFINE D == {i \in 1 .. N : g[i] # h[i]}
<1>4. D = {}
  <2> SUFFICES ASSUME D # {} PROVE FALSE
    OBVIOUS
  <2>1. PICK m \in D : \A k \in D : m <= k
    <3>1. D \subseteq Nat
      OBVIOUS
    <3> HIDE DEF D
    <3> QED BY <3>1, Minimo
  <2>2. m \in 1 .. N /\ g[m] # h[m]
    BY <2>1
  <2>3. m # 1
    BY <1>0, <1>3, <2>2
  <2>4. m - 1 \in 1 .. N /\ m - 1 \notin D /\ m \in 2 .. N
    BY <2>1, <2>2, <2>3
  <2>5. g[m - 1] = h[m - 1]
    BY <2>4
  <2>6. g[m] = g[m - 1] \o s[m]
    BY <1>3, <2>2, <2>3
  <2> QED BY <1>0, <2>2, <2>4, <2>5, <2>6
<1>5. N \in 1 .. N
  OBVIOUS
<1> QED BY <1>1, <1>4, <1>5

\* The i-th of N buffers has w[i] fields and begins after fin[i - 1] of them, and
\* g[i] bytes end with it.
Bloques(s, fin, w, g, N) ==
    /\ s = [i \in 1 .. N |-> s[i]]
    /\ w \in [1 .. N -> Nat] /\ fin \in [0 .. N -> Nat] /\ g \in [0 .. N -> Nat]
    /\ fin[0] = 0 /\ g[0] = 0
    /\ \A i \in 1 .. N : /\ EsBuffer(s[i], w[i])
                         /\ fin[i] = fin[i - 1] + w[i] /\ g[i] = g[i - 1] + Bytes(s[i])

\* The first j of them are in z, each one at its place.
Puestos(z, s, fin, w, g, j) ==
    /\ EsBuffer(z, fin[j]) /\ Bytes(z) = g[j]
    /\ \A i \in 1 .. j : \A k \in 1 .. w[i] : z[fin[i - 1] + k] = s[i][k]

Pila(h, s, fin, w, g, j) ==
    Acumula(h, s, j) /\ \A i \in 1 .. j : Puestos(h[i], s, fin, w, g, i)

\* The places where blocks end do not go back.
LEMMA Crecen ==
    ASSUME NEW N \in Nat, NEW w, NEW fin, \A i \in 0 .. N : fin[i] \in Nat,
           \A i \in 1 .. N : w[i] \in Nat /\ fin[i] = fin[i - 1] + w[i], NEW i \in 0 .. N
    PROVE  fin[i] <= fin[N]
<1> DEFINE D == {a \in i .. N : ~(fin[i] <= fin[a])}
<1>1. D = {}
  <2> SUFFICES ASSUME D # {} PROVE FALSE
    OBVIOUS
  <2>1. PICK a \in D : \A b \in D : a <= b
    <3>1. D \subseteq Nat
      OBVIOUS
    <3> HIDE DEF D
    <3> QED BY <3>1, Minimo
  <2>2. a \in i .. N /\ ~(fin[i] <= fin[a])
    BY <2>1
  <2>3. a # i
    <3>1. fin[i] \in Nat
      OBVIOUS
    <3> QED BY <2>2, <3>1
  <2>4. a - 1 \in i .. N /\ a - 1 \notin D /\ a \in 1 .. N /\ a - 1 \in 0 .. N
    BY <2>1, <2>2, <2>3
  <2>5. fin[i] <= fin[a - 1]
    BY <2>4
  <2>6. fin[a] = fin[a - 1] + w[a] /\ w[a] \in Nat /\ fin[a - 1] \in Nat /\ fin[i] \in Nat
    BY <2>4
  <2> QED BY <2>2, <2>5, <2>6
<1>2. N \in i .. N
  OBVIOUS
<1> QED BY <1>1, <1>2

\* One more buffer.
LEMMA UnoMas ==
    ASSUME NEW N \in Nat, NEW s, NEW fin, NEW w, NEW g, Bloques(s, fin, w, g, N),
           NEW j \in 2 .. N, NEW z, Puestos(z, s, fin, w, g, j - 1)
    PROVE  Puestos(z \o s[j], s, fin, w, g, j)
<1>1. PICK m \in Nat, n \in Nat : m = fin[j - 1] /\ n = w[j] /\ fin[j] = m + n
  <2>1. j \in 1 .. N /\ j - 1 \in 0 .. N
    OBVIOUS
  <2> QED BY <2>1 DEF Bloques
<1>2. EsBuffer(z, m) /\ Bytes(z) = g[j - 1]
  BY <1>1 DEF Puestos
<1>3. j \in 1 .. N
  OBVIOUS
<1>4. EsBuffer(s[j], n) /\ g[j] = g[j - 1] + Bytes(s[j])
  BY <1>1, <1>3 DEF Bloques
<1>5. PICK y : y = s[j]
  OBVIOUS
<1>6. PICK x : x = z \o y
  OBVIOUS
<1>7. EsJunta(x, z, y, m, n) /\ Bytes(x) = Bytes(z) + Bytes(y)
  <2>1. EsBuffer(z, m) /\ EsBuffer(y, n)
    BY <1>2, <1>4, <1>5
  <2>2. EsJunta(x, z, y, m, n)
    BY <1>6, <2>1, Junta, Zenon
  <2>3. SumanBytes(x, z, y)
    BY <1>6, <2>1, BytesJunta
  <2> QED BY <2>2, <2>3 DEF SumanBytes
<1>8. EsBuffer(x, fin[j]) /\ Bytes(x) = g[j]
  BY <1>1, <1>2, <1>4, <1>5, <1>7 DEF EsJunta
<1>9. ASSUME NEW i \in 1 .. j, NEW k \in 1 .. w[i] PROVE x[fin[i - 1] + k] = s[i][k]
  <2>1. CASE i = j
    BY <1>1, <1>5, <1>7, <2>1 DEF EsJunta
  <2>2. CASE i # j
    <3>1. i \in 1 .. j - 1
      BY <2>2
    <3>2. z[fin[i - 1] + k] = s[i][k]
      BY <3>1 DEF Puestos
    <3>3. fin[i - 1] + k \in 1 .. m
      <4>1. fin[i] <= fin[j - 1]
        <5>1. PICK m1 \in Nat : m1 = j - 1 /\ i \in 0 .. m1
          BY <3>1
        <5>2. \A a \in 0 .. m1 : a \in 0 .. N /\ (a # 0 => a \in 1 .. N)
          BY <5>1
        <5>3. \A a \in 0 .. m1 : fin[a] \in Nat
          BY <5>2 DEF Bloques
        <5>4. \A a \in 1 .. m1 : w[a] \in Nat /\ fin[a] = fin[a - 1] + w[a]
          BY <5>2 DEF Bloques
        <5> QED BY <5>1, <5>3, <5>4, Crecen
      <4>2. i \in 1 .. N /\ i - 1 \in 0 .. N
        BY <3>1
      <4>3. fin[i] = fin[i - 1] + w[i] /\ w[i] \in Nat /\ fin[i - 1] \in Nat
        BY <4>2 DEF Bloques
      <4> QED BY <1>1, <4>1, <4>3
    <3> QED BY <1>7, <3>2, <3>3 DEF EsJunta
  <2> QED BY <2>1, <2>2
<1>10. Puestos(x, s, fin, w, g, j)
  BY <1>8, <1>9 DEF Puestos
<1> QED BY <1>5, <1>6, <1>10

\* The first one.
LEMMA ElPrimero ==
    ASSUME NEW N \in Nat \ {0}, NEW s, NEW fin, NEW w, NEW g, Bloques(s, fin, w, g, N)
    PROVE  Puestos(s[1], s, fin, w, g, 1)
<1>1. 1 \in 1 .. N /\ 1 - 1 = 0
  OBVIOUS
<1>2. /\ EsBuffer(s[1], w[1]) /\ w[1] \in Nat /\ fin[0] = 0 /\ g[0] = 0
      /\ fin[1] = fin[0] + w[1] /\ g[1] = g[0] + Bytes(s[1])
  BY <1>1 DEF Bloques
<1>3. Bytes(s[1]) \in Nat
  BY <1>2, BytesPasos DEF Cuenta
<1>4. fin[1] = w[1] /\ g[1] = Bytes(s[1])
  BY <1>2, <1>3
<1>5. ASSUME NEW i \in 1 .. 1, NEW k \in 1 .. w[i] PROVE s[1][fin[i - 1] + k] = s[i][k]
  <2>1. i = 1 /\ fin[i - 1] + k = k
    BY <1>2
  <2> QED BY <2>1
<1> QED BY <1>2, <1>4, <1>5 DEF Puestos

\* Adding them one by one always works.
LEMMA HayPila ==
    ASSUME NEW N \in Nat \ {0}, NEW s, NEW fin, NEW w, NEW g, Bloques(s, fin, w, g, N)
    PROVE  \E h : Pila(h, s, fin, w, g, N)
<1> DEFINE Malos == {n \in 1 .. N : ~\E h : Pila(h, s, fin, w, g, n)}
<1>1. SUFFICES ASSUME Malos # {} PROVE FALSE
  <2>1. N \in 1 .. N
    OBVIOUS
  <2> QED BY <2>1
<1>2. PICK n \in Malos : \A k \in Malos : n <= k
  <2>1. Malos \subseteq Nat
    OBVIOUS
  <2> HIDE DEF Malos
  <2> QED BY <1>1, <2>1, Minimo
<1>3. n # 1
  <2> DEFINE h == [i \in 1 .. 1 |-> s[1]]
  <2>1. Acumula(h, s, 1)
    BY DEF Acumula
  <2>2. \A i \in 1 .. 1 : i = 1 /\ h[i] = s[1]
    OBVIOUS
  <2> HIDE DEF h
  <2>3. Pila(h, s, fin, w, g, 1)
    BY <2>1, <2>2, ElPrimero DEF Pila
  <2> QED BY <1>2, <2>3
<1>4. n \in Nat /\ n \in 2 .. N /\ n - 1 \in 1 .. N /\ n - 1 \notin Malos /\ n - 1 \in 1 .. n - 1
  BY <1>2, <1>3
<1>5. PICK h : Pila(h, s, fin, w, g, n - 1)
  BY <1>4
<1>6. PICK z : z = h[n - 1] \o s[n]
  OBVIOUS
<1>7. Puestos(z, s, fin, w, g, n)
  <2>1. Puestos(h[n - 1], s, fin, w, g, n - 1)
    BY <1>4, <1>5 DEF Pila
  <2> QED BY <1>4, <1>6, <2>1, UnoMas, Zenon
<1> DEFINE h1 == [i \in 1 .. n |-> IF i = n THEN z ELSE h[i]]
<1>8. \A i \in 1 .. n : i = n \/ (i # n /\ i \in 1 .. n - 1)
  BY <1>4
<1>9. h1[n] = z /\ \A i \in 1 .. n - 1 : h1[i] = h[i]
  BY <1>4
<1>10. h1 = [i \in 1 .. n |-> h1[i]]
  OBVIOUS
<1> HIDE DEF h1
<1>11. Acumula(h1, s, n)
  <2>1. h1[1] = s[1]
    <3>1. 1 \in 1 .. n - 1
      BY <1>4
    <3> QED BY <1>5, <1>9, <3>1 DEF Pila, Acumula
  <2>2. ASSUME NEW i \in 2 .. n PROVE h1[i] = h1[i - 1] \o s[i]
    <3>1. i - 1 \in 1 .. n - 1
      BY <1>4
    <3>2. CASE i = n
      BY <1>6, <1>9, <3>1, <3>2
    <3>3. CASE i # n
      <4>1. i \in 2 .. n - 1 /\ i \in 1 .. n - 1
        BY <1>4, <3>3
      <4>2. h[i] = h[i - 1] \o s[i]
        BY <1>5, <4>1 DEF Pila, Acumula
      <4>3. h1[i] = h[i] /\ h1[i - 1] = h[i - 1]
        BY <1>9, <3>1, <4>1
      <4> QED BY <4>2, <4>3
    <3> QED BY <3>2, <3>3
  <2> QED BY <1>10, <2>1, <2>2 DEF Acumula
<1>12. ASSUME NEW i \in 1 .. n PROVE Puestos(h1[i], s, fin, w, g, i)
  <2>1. CASE i = n
    BY <1>7, <1>9, <2>1
  <2>2. CASE i # n
    <3>1. h1[i] = h[i] /\ i \in 1 .. n - 1
      BY <1>8, <1>9, <2>2
    <3> QED BY <1>5, <3>1 DEF Pila
  <2> QED BY <2>1, <2>2
<1>13. Pila(h1, s, fin, w, g, n)
  BY <1>11, <1>12 DEF Pila
<1> QED BY <1>2, <1>13

\* FlattenSeq puts each buffer at its place, and the bytes add up.
LEMMA Aplanada ==
    ASSUME NEW N \in Nat, NEW s, NEW fin, NEW w, NEW g, Bloques(s, fin, w, g, N)
    PROVE  Puestos(FlattenSeq(s), s, fin, w, g, N)
<1>1. Len(s) = N
  <2> DEFINE V == {s[i] : i \in 1 .. N}
  <2>1. s \in [1 .. N -> V]
    BY DEF Bloques
  <2> HIDE DEF V
  <2> QED BY <2>1
<1>2. CASE N = 0
  <2>1. FlattenSeq(s) = s
    BY <1>1, <1>2 DEF FlattenSeq
  <2>2. fin[0] = 0 /\ g[0] = 0 /\ s = [i \in 1 .. 0 |-> s[i]]
    BY <1>2 DEF Bloques
  <2>3. EsBuffer(s, 0)
    BY <2>2 DEF EsBuffer
  <2>4. Bytes(s) = 0
    BY <2>3, BytesPasos DEF Cuenta
  <2>5. Puestos(s, s, fin, w, g, 0)
    BY <2>2, <2>3, <2>4 DEF Puestos
  <2> QED BY <1>2, <2>1, <2>5
<1>3. CASE N # 0
  <2>1. N \in Nat \ {0} /\ N \in 1 .. N
    BY <1>3
  <2>2. PICK h : Pila(h, s, fin, w, g, N)
    BY <2>1, HayPila
  <2>3. FlattenSeq(s) = h[N]
    BY <1>1, <2>1, <2>2, Concatenadas DEF Pila
  <2> QED BY <2>1, <2>2, <2>3 DEF Pila
<1> QED BY <1>2, <1>3

-----------------------------------------------------------------------------
(* The lists inside a PCB.                                                     *)

\* A buffer of one field.
LEMMA UnCampo ==
    ASSUME NEW a, a.ancho \in Nat, NEW x, x = <<a>>
    PROVE  EsBuffer(x, 1) /\ x[1] = a /\ Bytes(x) = a.ancho
<1>1. EsBuffer(x, 1) /\ x[1] = a
  <2>1. \A k \in 1 .. 1 : k = 1
    OBVIOUS
  <2> QED BY <2>1 DEF EsBuffer
<1>2. PICK f : Cuenta(f, x, 1)
  BY <1>1, BytesPasos
<1>3. f[0] = 0 /\ f[1] = f[0] + a.ancho
  BY <1>1, <1>2 DEF Cuenta
<1> QED BY <1>1, <1>2, <1>3 DEF Cuenta

\* Two fields.
LEMMA DosCampos ==
    ASSUME NEW a, NEW b, a.ancho \in Nat, b.ancho \in Nat, NEW x, x = <<a, b>>
    PROVE  EsBuffer(x, 2) /\ x[1] = a /\ x[2] = b /\ Bytes(x) = a.ancho + b.ancho
<1>1. EsBuffer(x, 2) /\ x[1] = a /\ x[2] = b
  <2>1. \A k \in 1 .. 2 : k = 1 \/ k = 2
    OBVIOUS
  <2> QED BY <2>1 DEF EsBuffer
<1>2. PICK f : Cuenta(f, x, 2)
  BY <1>1, BytesPasos
<1>3. f[0] = 0 /\ f[1] = f[0] + a.ancho /\ f[2] = f[1] + b.ancho
  BY <1>1, <1>2 DEF Cuenta
<1> QED BY <1>1, <1>2, <1>3 DEF Cuenta

\* Three fields.
LEMMA TresCampos ==
    ASSUME NEW a, NEW b, NEW c, a.ancho \in Nat, b.ancho \in Nat, c.ancho \in Nat,
           NEW x, x = <<a, b, c>>
    PROVE  /\ EsBuffer(x, 3) /\ x[1] = a /\ x[2] = b /\ x[3] = c
           /\ Bytes(x) = a.ancho + b.ancho + c.ancho
<1>1. EsBuffer(x, 3) /\ x[1] = a /\ x[2] = b /\ x[3] = c
  <2>1. \A k \in 1 .. 3 : k = 1 \/ k = 2 \/ k = 3
    OBVIOUS
  <2> QED BY <2>1 DEF EsBuffer
<1>2. PICK f : Cuenta(f, x, 3)
  BY <1>1, BytesPasos
<1>3. f[0] = 0 /\ f[1] = f[0] + a.ancho /\ f[2] = f[1] + b.ancho /\ f[3] = f[2] + c.ancho
  BY <1>1, <1>2 DEF Cuenta
<1> QED BY <1>1, <1>2, <1>3 DEF Cuenta

\* Buffers of known lengths are blocks.
LEMMA HayBloques ==
    ASSUME NEW N \in Nat, NEW s, s = [i \in 1 .. N |-> s[i]],
           NEW w, w \in [1 .. N -> Nat], NEW fin, fin \in [0 .. N -> Nat], fin[0] = 0,
           \A i \in 1 .. N : EsBuffer(s[i], w[i]) /\ fin[i] = fin[i - 1] + w[i]
    PROVE  \E g : Bloques(s, fin, w, g, N)
<1> DEFINE t == [i \in 1 .. N |-> Bytes(s[i])]
<1>1. \A i \in 1 .. N : Bytes(s[i]) \in Nat
  BY BytesPasos DEF Cuenta
<1>2. \A i \in 1 .. N : t[i] = Bytes(s[i]) /\ t[i] \in Nat
  BY <1>1
<1> HIDE DEF t
<1>3. PICK g : Sumando(g, t, N)
  BY <1>2, HaySuma
<1> QED BY <1>2, <1>3 DEF Bloques, Sumando

Entradas2 == [dir : Archivos, punt : Posibles]
DeEntrada(e) ==
    <<Entero(Largo[e.dir]), Campo(Largo[e.dir], e.dir), Entero(e.punt)>>

\* Three fields for each file, with the bytes of the name and 8 more.
EnTernas(z, l, n) ==
    /\ EsBuffer(z, 3 * n)
    /\ \A i \in 1 .. n : /\ z[3 * i - 2] = Entero(Largo[l[i].dir])
                         /\ z[3 * i - 1] = Campo(Largo[l[i].dir], l[i].dir)
                         /\ z[3 * i] = Entero(l[i].punt)
    /\ \E g : /\ g \in [0 .. n -> Nat] /\ g[0] = 0 /\ Bytes(z) = g[n]
              /\ \A i \in 1 .. n : g[i] = g[i - 1] + (Largo[l[i].dir] + 2 * 4)

\* So are the files of a PCB.
LEMMA LosArchivos ==
    ASSUME NEW n \in Nat, NEW l, l \in [1 .. n -> Entradas2]
    PROVE  EnTernas(SerializarArchivos(l), l, n)
<1> DEFINE s == [i \in 1 .. n |-> DeEntrada(l[i])]
           w == [i \in 1 .. n |-> 3]
           fin == [i \in 0 .. n |-> 3 * i]
<1>1. SerializarArchivos(l) = FlattenSeq(s)
  <2>1. DOMAIN l = 1 .. n
    OBVIOUS
  <2> QED BY <2>1 DEF SerializarArchivos, DeEntrada
<1>2. \A i \in 1 .. n : l[i].dir \in Archivos /\ Largo[l[i].dir] \in Nat
  BY LargoAssumption DEF Entradas2
<1>3. ASSUME NEW i \in 1 .. n
      PROVE  /\ EsBuffer(s[i], 3) /\ s[i][1] = Entero(Largo[l[i].dir])
             /\ s[i][2] = Campo(Largo[l[i].dir], l[i].dir) /\ s[i][3] = Entero(l[i].punt)
             /\ Bytes(s[i]) = Largo[l[i].dir] + 2 * 4
  <2>1. PICK a, b, c : /\ a = Entero(Largo[l[i].dir]) /\ b = Campo(Largo[l[i].dir], l[i].dir)
                       /\ c = Entero(l[i].punt)
    OBVIOUS
  <2>2. a.ancho = 4 /\ b.ancho = Largo[l[i].dir] /\ c.ancho = 4 /\ b.ancho \in Nat
    BY <1>2, <2>1 DEF Entero, Campo
  <2>3. PICK x : x = s[i] /\ x = <<a, b, c>>
    BY <2>1 DEF DeEntrada
  <2> HIDE DEF s
  <2>4. a.ancho \in Nat /\ b.ancho \in Nat /\ c.ancho \in Nat /\ x = <<a, b, c>>
    BY <2>2, <2>3
  <2>5. /\ EsBuffer(x, 3) /\ x[1] = a /\ x[2] = b /\ x[3] = c
        /\ Bytes(x) = a.ancho + b.ancho + c.ancho
    BY <2>4, TresCampos
  <2> QED BY <2>1, <2>2, <2>3, <2>5
<1>4. PICK g : Bloques(s, fin, w, g, n)
  <2>1. s = [i \in 1 .. n |-> s[i]]
    OBVIOUS
  <2>2. w \in [1 .. n -> Nat] /\ fin \in [0 .. n -> Nat] /\ fin[0] = 0
    <3>1. \A i \in 0 .. n : 3 * i \in Nat
      OBVIOUS
    <3> QED BY <3>1
  <2>3. \A i \in 1 .. n : fin[i] = fin[i - 1] + w[i] /\ w[i] = 3
    <3>1. ASSUME NEW i \in 1 .. n PROVE fin[i] = fin[i - 1] + w[i]
      <4>1. i \in 0 .. n /\ i - 1 \in 0 .. n /\ 3 * i = 3 * (i - 1) + 3
        OBVIOUS
      <4> QED BY <4>1
    <3> QED BY <3>1
  <2> HIDE DEF s, w, fin
  <2>4. \A i \in 1 .. n : EsBuffer(s[i], w[i]) /\ fin[i] = fin[i - 1] + w[i]
    BY <1>3, <2>3
  <2> QED BY <2>1, <2>2, <2>4, HayBloques
<1>5. fin[n] = 3 * n /\ \A i \in 1 .. n : fin[i - 1] = 3 * (i - 1) /\ w[i] = 3
  OBVIOUS
<1> HIDE DEF s, w, fin
<1>6. PICK z : z = SerializarArchivos(l) /\ Puestos(z, s, fin, w, g, n)
  BY <1>1, <1>4, Aplanada
<1>7. EsBuffer(z, 3 * n) /\ Bytes(z) = g[n]
  BY <1>5, <1>6 DEF Puestos
<1>8. ASSUME NEW i \in 1 .. n
      PROVE  /\ z[3 * i - 2] = Entero(Largo[l[i].dir])
             /\ z[3 * i - 1] = Campo(Largo[l[i].dir], l[i].dir)
             /\ z[3 * i] = Entero(l[i].punt)
  <2>1. \A k \in 1 .. 3 : z[3 * (i - 1) + k] = s[i][k]
    BY <1>5, <1>6 DEF Puestos
  <2>2. 3 * (i - 1) + 1 = 3 * i - 2 /\ 3 * (i - 1) + 2 = 3 * i - 1 /\ 3 * (i - 1) + 3 = 3 * i
    OBVIOUS
  <2>3. z[3 * i - 2] = s[i][1] /\ z[3 * i - 1] = s[i][2] /\ z[3 * i] = s[i][3]
    <3>1. 1 \in 1 .. 3 /\ 2 \in 1 .. 3 /\ 3 \in 1 .. 3
      OBVIOUS
    <3> QED BY <2>1, <2>2, <3>1
  <2> QED BY <1>3, <2>3
<1>9. g \in [0 .. n -> Nat] /\ g[0] = 0 /\ \A i \in 1 .. n : g[i] = g[i - 1] + (Largo[l[i].dir] + 2 * 4)
  BY <1>3, <1>4 DEF Bloques
<1> QED BY <1>6, <1>7, <1>8, <1>9 DEF EnTernas

-----------------------------------------------------------------------------
(* The instructions of a program.                                              *)

\* What one instruction takes in the size that is counted beforehand.
Cuesta(ins) ==
    8 + Suma([j \in DOMAIN ins.parametros |-> 4 + Largo[ins.parametros[j]]])

\* Its code, the number k of its parameters, and two fields for each of them; as
\* many bytes as it takes.
EnPares(z, ins, k) ==
    /\ EsBuffer(z, 2 + 2 * k) /\ z[1] = Entero(ins.nombre) /\ z[2] = Entero(k)
    /\ \A j \in 1 .. k : /\ z[2 * j + 1] = Entero(Largo[ins.parametros[j]])
                         /\ z[2 * j + 2] = Campo(Largo[ins.parametros[j]], ins.parametros[j])
    /\ Bytes(z) = Cuesta(ins) /\ Cuesta(ins) \in Nat

DeParametro(q) == <<Entero(Largo[q]), Campo(Largo[q], q)>>

\* Two fields for each parameter, with the bytes of its text and four more.
EnDuplas(y, l, k) ==
    /\ EsBuffer(y, 2 * k)
    /\ \A j \in 1 .. k : y[2 * j - 1] = Entero(Largo[l[j]]) /\ y[2 * j] = Campo(Largo[l[j]], l[j])
    /\ Bytes(y) = Suma([j \in 1 .. k |-> 4 + Largo[l[j]]]) /\ Bytes(y) \in Nat

\* The fields of the parameters.
LEMMA CamposParametros ==
    ASSUME NEW k \in Nat, NEW l, l \in [1 .. k -> Palabras], NEW y,
           y = FlattenSeq([j \in 1 .. k |-> DeParametro(l[j])])
    PROVE  EnDuplas(y, l, k)
<1> DEFINE s == [i \in 1 .. k |-> DeParametro(l[i])]
           w == [i \in 1 .. k |-> 2]
           fin == [i \in 0 .. k |-> 2 * i]
           d == [j \in 1 .. k |-> 4 + Largo[l[j]]]
<1>1. \A i \in 1 .. k : Largo[l[i]] \in Nat
  BY LargoAssumption
<1>2. ASSUME NEW i \in 1 .. k
      PROVE  /\ EsBuffer(s[i], 2) /\ s[i][1] = Entero(Largo[l[i]])
             /\ s[i][2] = Campo(Largo[l[i]], l[i]) /\ Bytes(s[i]) = 4 + Largo[l[i]]
  <2>1. PICK a, b : a = Entero(Largo[l[i]]) /\ b = Campo(Largo[l[i]], l[i])
    OBVIOUS
  <2>2. a.ancho = 4 /\ b.ancho = Largo[l[i]] /\ b.ancho \in Nat
    BY <1>1, <2>1 DEF Entero, Campo
  <2>3. PICK x : x = s[i] /\ x = <<a, b>>
    BY <2>1 DEF DeParametro
  <2> HIDE DEF s
  <2>4. a.ancho \in Nat /\ b.ancho \in Nat /\ x = <<a, b>>
    BY <2>2, <2>3
  <2>5. EsBuffer(x, 2) /\ x[1] = a /\ x[2] = b /\ Bytes(x) = a.ancho + b.ancho
    BY <2>4, DosCampos
  <2> QED BY <2>1, <2>2, <2>3, <2>5
<1>3. PICK g : Bloques(s, fin, w, g, k)
  <2>1. s = [i \in 1 .. k |-> s[i]]
    OBVIOUS
  <2>2. w \in [1 .. k -> Nat] /\ fin \in [0 .. k -> Nat] /\ fin[0] = 0
    <3>1. \A i \in 0 .. k : 2 * i \in Nat
      OBVIOUS
    <3> QED BY <3>1
  <2>3. \A i \in 1 .. k : fin[i] = fin[i - 1] + w[i] /\ w[i] = 2
    <3>1. ASSUME NEW i \in 1 .. k PROVE fin[i] = fin[i - 1] + w[i]
      <4>1. i \in 0 .. k /\ i - 1 \in 0 .. k /\ 2 * i = 2 * (i - 1) + 2
        OBVIOUS
      <4> QED BY <4>1
    <3> QED BY <3>1
  <2> HIDE DEF s, w, fin
  <2>4. \A i \in 1 .. k : EsBuffer(s[i], w[i]) /\ fin[i] = fin[i - 1] + w[i]
    BY <1>2, <2>3
  <2> QED BY <2>1, <2>2, <2>4, HayBloques
<1>4. fin[k] = 2 * k /\ \A i \in 1 .. k : fin[i - 1] = 2 * (i - 1) /\ w[i] = 2
  OBVIOUS
<1>5. Len(d) = k /\ \A i \in 1 .. k : d[i] = 4 + Largo[l[i]]
  <2>1. d \in [1 .. k -> Nat]
    BY <1>1
  <2> QED BY <2>1
<1>6. y = FlattenSeq(s)
  OBVIOUS
<1> HIDE DEF s, w, fin, d
<1>7. Puestos(y, s, fin, w, g, k)
  BY <1>3, <1>6, Aplanada
<1>8. EsBuffer(y, 2 * k) /\ Bytes(y) = g[k]
  BY <1>4, <1>7 DEF Puestos
<1>9. ASSUME NEW j \in 1 .. k
      PROVE  y[2 * j - 1] = Entero(Largo[l[j]]) /\ y[2 * j] = Campo(Largo[l[j]], l[j])
  <2>1. \A i \in 1 .. 2 : y[2 * (j - 1) + i] = s[j][i]
    BY <1>4, <1>7 DEF Puestos
  <2>2. 2 * (j - 1) + 1 = 2 * j - 1 /\ 2 * (j - 1) + 2 = 2 * j /\ 1 \in 1 .. 2 /\ 2 \in 1 .. 2
    OBVIOUS
  <2>3. y[2 * j - 1] = s[j][1] /\ y[2 * j] = s[j][2]
    BY <2>1, <2>2
  <2> QED BY <1>2, <2>3
<1>10. Sumando(g, d, k)
  <2>1. \A i \in 1 .. k : g[i] = g[i - 1] + d[i]
    BY <1>2, <1>3, <1>5 DEF Bloques
  <2> QED BY <1>3, <2>1 DEF Bloques, Sumando
<1>11. Suma(d) = g[k] /\ Suma(d) \in Nat
  BY <1>5, <1>10, SumaEs
<1> QED BY <1>8, <1>9, <1>11 DEF EnDuplas, d

\* The fields of an instruction.
LEMMA CamposInstruccion ==
    ASSUME NEW ins \in TInstruccion, NEW z, z = SerializarInstruccion(ins)
    PROVE  \E k \in Nat : k = Len(ins.parametros) /\ EnPares(z, ins, k)
<1>1. PICK l, k : l = ins.parametros /\ k = Len(l) /\ k \in Nat /\ l \in [1 .. k -> Palabras]
  <2>1. ins.parametros \in Seq(Palabras)
    BY DEF TInstruccion
  <2> QED BY <2>1, LenProperties
<1>2. PICK a, b : a = Entero(ins.nombre) /\ b = Entero(k)
  OBVIOUS
<1>3. PICK x, y : x = <<a, b>> /\ y = FlattenSeq([j \in 1 .. k |-> DeParametro(l[j])])
  OBVIOUS
<1>4. z = x \o y
  <2>1. DOMAIN l = 1 .. k
    BY <1>1
  <2> QED BY <1>1, <1>2, <1>3, <2>1 DEF SerializarInstruccion, DeParametro
<1>5. EsBuffer(x, 2) /\ x[1] = a /\ x[2] = b /\ Bytes(x) = 8
  <2>3. a.ancho = 4 /\ b.ancho = 4
    BY <1>2 DEF Entero, Campo
  <2>1. Bytes(x) = a.ancho + b.ancho /\ EsBuffer(x, 2) /\ x[1] = a /\ x[2] = b
    BY <1>3, <2>3, DosCampos
  <2> QED BY <2>3, <2>1
<1>6. /\ EsBuffer(y, 2 * k)
      /\ \A j \in 1 .. k : y[2 * j - 1] = Entero(Largo[l[j]]) /\ y[2 * j] = Campo(Largo[l[j]], l[j])
      /\ Bytes(y) = Suma([j \in 1 .. k |-> 4 + Largo[l[j]]]) /\ Bytes(y) \in Nat
  <2>1. EnDuplas(y, l, k)
    BY <1>1, <1>3, CamposParametros, Zenon
  <2> QED BY <2>1, Zenon DEF EnDuplas
<1>7. PICK K \in Nat : K = 2 * k
  BY <1>1
<1> HIDE <1>3
<1>8. EsJunta(z, x, y, 2, K)
  <2>1. EsBuffer(y, K) /\ 2 \in Nat
    BY <1>6, <1>7
  <2> QED BY <1>4, <1>5, <2>1, Junta, Zenon
<1>9. Bytes(z) = 8 + Bytes(y)
  <2>1. EsBuffer(y, K) /\ 2 \in Nat
    BY <1>6, <1>7
  <2>2. SumanBytes(z, x, y)
    BY <1>4, <1>5, <2>1, BytesJunta, Zenon
  <2> QED BY <1>5, <2>2 DEF SumanBytes
<1>10. Bytes(z) = Cuesta(ins) /\ Cuesta(ins) \in Nat
  <2>1. DOMAIN l = 1 .. k
    BY <1>1
  <2>2. Cuesta(ins) = 8 + Suma([j \in 1 .. k |-> 4 + Largo[l[j]]])
    BY <1>1, <2>1 DEF Cuesta
  <2> QED BY <1>6, <1>9, <2>2
<1>11. EsBuffer(z, 2 + 2 * k) /\ z[1] = a /\ z[2] = b
  <2>1. 1 \in 1 .. 2 /\ 2 \in 1 .. 2
    OBVIOUS
  <2> QED BY <1>5, <1>7, <1>8, <2>1 DEF EsJunta
<1>12. ASSUME NEW j \in 1 .. k
       PROVE  z[2 * j + 1] = Entero(Largo[l[j]]) /\ z[2 * j + 2] = Campo(Largo[l[j]], l[j])
  <2>1. 2 * j - 1 \in 1 .. K /\ 2 * j \in 1 .. K /\ 2 + (2 * j - 1) = 2 * j + 1 /\ 2 + 2 * j = 2 * j + 2
    BY <1>1, <1>7
  <2>2. z[2 * j + 1] = y[2 * j - 1] /\ z[2 * j + 2] = y[2 * j]
    BY <1>8, <2>1 DEF EsJunta
  <2> QED BY <1>6, <2>2
<1> QED BY <1>1, <1>2, <1>10, <1>11, <1>12 DEF EnPares

\* The number of instructions and the fields of each of them, which end with
\* number 1 + fin[i]; as many bytes as were counted beforehand.
Campos(ins) == 2 + 2 * Len(ins.parametros)
EnSerie(z, l, N, fin) ==
    /\ N \in Nat /\ l \in [1 .. N -> TInstruccion]
    /\ fin \in [0 .. N -> Nat] /\ fin[0] = 0
    /\ \A i \in 1 .. N : fin[i] = fin[i - 1] + Campos(l[i])
    /\ EsBuffer(z, 1 + fin[N]) /\ z[1] = Entero(N)
    /\ \A i \in 1 .. N : \A k \in 1 .. Campos(l[i]) :
            z[1 + (fin[i - 1] + k)] = SerializarInstruccion(l[i])[k]
    /\ Bytes(z) = TamanioLista(l) /\ TamanioLista(l) \in Nat

\* The fields of a program.
LEMMA CamposPrograma ==
    ASSUME NEW l \in Seq(TInstruccion), NEW N, N = Len(l), NEW z, z = SerializarLista(l)
    PROVE  \E fin : EnSerie(z, l, N, fin)
<1> DEFINE s == [i \in 1 .. N |-> SerializarInstruccion(l[i])]
           w == [i \in 1 .. N |-> Campos(l[i])]
           d == [i \in 1 .. N |-> Cuesta(l[i])]
<1>1. N \in Nat /\ l \in [1 .. N -> TInstruccion] /\ DOMAIN l = 1 .. N
  BY LenProperties
<1>2. z = <<Entero(N)>> \o FlattenSeq(s)
  BY <1>1 DEF SerializarLista
<1>3. TamanioLista(l) = 4 + Suma(d)
  <2> DEFINE t == [i \in DOMAIN l |-> Cuesta(l[i])]
  <2>1. TamanioLista(l) = 4 + Suma(t)
    BY Zenon DEF TamanioLista, Cuesta
  <2>2. t = d
    BY <1>1
  <2> QED BY <2>1, <2>2
<1>4. s = [i \in 1 .. N |-> s[i]] /\ \A i \in 1 .. N : s[i] = SerializarInstruccion(l[i])
  OBVIOUS
<1>5. \A i \in 1 .. N : w[i] = Campos(l[i]) /\ d[i] = Cuesta(l[i])
  OBVIOUS
<1>6. w = [i \in 1 .. N |-> w[i]] /\ d = [i \in 1 .. N |-> d[i]]
  OBVIOUS
<1> HIDE DEF s, w, d
<1>7. ASSUME NEW i \in 1 .. N
      PROVE  EsBuffer(s[i], w[i]) /\ w[i] \in Nat /\ Bytes(s[i]) = d[i] /\ d[i] \in Nat
  <2>1. l[i] \in TInstruccion
    BY <1>1
  <2>2. PICK k \in Nat : k = Len(l[i].parametros) /\ EnPares(s[i], l[i], k)
    BY <1>4, <2>1, CamposInstruccion
  <2>3. w[i] = 2 + 2 * k /\ 2 + 2 * k \in Nat
    BY <1>5, <2>2 DEF Campos
  <2> QED BY <1>5, <2>2, <2>3 DEF EnPares
<1>8. PICK fin : Sumando(fin, w, N)
  BY <1>1, <1>7, HaySuma
<1>9. fin \in [0 .. N -> Nat] /\ fin[0] = 0 /\ \A i \in 1 .. N : fin[i] = fin[i - 1] + w[i]
  BY <1>8 DEF Sumando
<1>10. PICK g : Bloques(s, fin, w, g, N)
  <2>1. w \in [1 .. N -> Nat]
    BY <1>6, <1>7
  <2> QED BY <1>1, <1>4, <1>7, <1>9, <2>1, HayBloques
<1>11. PICK y : y = FlattenSeq(s) /\ Puestos(y, s, fin, w, g, N)
  BY <1>1, <1>10, Aplanada
<1>12. PICK M \in Nat : M = fin[N] /\ EsBuffer(y, M) /\ Bytes(y) = g[N]
  <2>1. fin[N] \in Nat
    BY <1>1, <1>9
  <2> QED BY <2>1, <1>11 DEF Puestos
<1>13. PICK a, x : a = Entero(N) /\ x = <<a>> /\ z = x \o y
  BY <1>2, <1>11
<1>14. EsBuffer(x, 1) /\ x[1] = a /\ Bytes(x) = 4
  <2>1. a.ancho = 4 /\ a.ancho \in Nat
    BY <1>13 DEF Entero, Campo
  <2>2. EsBuffer(x, 1) /\ x[1] = a /\ Bytes(x) = a.ancho
    <3>1. x = <<a>>
      BY <1>13
    <3> HIDE <1>2, <1>13
    <3> QED BY <2>1, <3>1, UnCampo
  <2> QED BY <2>1, <2>2
<1>15. EsJunta(z, x, y, 1, M) /\ SumanBytes(z, x, y)
  <2>1. z = x \o y /\ 1 \in Nat
    BY <1>13, Zenon
  <2> HIDE <1>2, <1>13
  <2>2. EsJunta(z, x, y, 1, M)
    BY <1>12, <1>14, <2>1, Junta, Zenon
  <2>3. SumanBytes(z, x, y)
    BY <1>12, <1>14, <2>1, BytesJunta, Zenon
  <2> QED BY <2>2, <2>3
<1>16. EsBuffer(z, 1 + fin[N]) /\ z[1] = Entero(N)
  <2>1. 1 \in 1 .. 1
    OBVIOUS
  <2> QED BY <1>12, <1>13, <1>14, <1>15, <2>1 DEF EsJunta
<1>17. ASSUME NEW i \in 1 .. N, NEW k \in 1 .. w[i]
       PROVE  z[1 + (fin[i - 1] + k)] = s[i][k]
  <2>1. y[fin[i - 1] + k] = s[i][k]
    BY <1>11 DEF Puestos
  <2>2. fin[i - 1] + k \in 1 .. M
    <3>1. i \in 0 .. N /\ i - 1 \in 0 .. N
      BY <1>1
    <3>2. fin[i] <= fin[N]
      <4>1. w \in [1 .. N -> Nat]
        BY <1>6, <1>7
      <4> QED BY <1>1, <1>9, <3>1, <4>1, Crecen
    <3>3. fin[i] = fin[i - 1] + w[i] /\ fin[i - 1] \in Nat /\ w[i] \in Nat
      BY <1>7, <1>9, <3>1
    <3> QED BY <1>12, <3>2, <3>3
  <2> QED BY <1>15, <2>1, <2>2 DEF EsJunta
<1>18. Bytes(z) = TamanioLista(l) /\ TamanioLista(l) \in Nat
  <2>1. Sumando(g, d, N)
    <3>1. g \in [0 .. N -> Nat] /\ g[0] = 0 /\ \A i \in 1 .. N : g[i] = g[i - 1] + Bytes(s[i])
      BY <1>10 DEF Bloques
    <3>2. \A i \in 1 .. N : g[i] = g[i - 1] + d[i]
      BY <1>7, <3>1
    <3> QED BY <3>1, <3>2 DEF Sumando
  <2>2. Len(d) = N
    <3>1. d \in [1 .. N -> Nat]
      BY <1>6, <1>7
    <3> QED BY <1>1, <3>1
  <2>3. Suma(d) = g[N] /\ Suma(d) \in Nat
    BY <1>1, <2>1, <2>2, SumaEs
  <2>4. Bytes(z) = 4 + Bytes(y)
    BY <1>14, <1>15 DEF SumanBytes
  <2> QED BY <1>3, <1>12, <2>3, <2>4
<1>19. EnSerie(z, l, N, fin)
  <2>1. \A i \in 1 .. N : fin[i] = fin[i - 1] + Campos(l[i])
    BY <1>5, <1>9
  <2>2. \A i \in 1 .. N : \A k \in 1 .. Campos(l[i]) :
            z[1 + (fin[i - 1] + k)] = SerializarInstruccion(l[i])[k]
    BY <1>4, <1>5, <1>17
  <2> QED BY <1>1, <1>9, <1>16, <1>18, <2>1, <2>2, Zenon DEF EnSerie
<1> QED BY <1>19

\* Nothing read yet.
Vacia == [lista |-> <<>>, lugar |-> 2]

\* Reading a list goes from state to state with Una.
LEMMA ListaLeida ==
    ASSUME NEW s, NEW N \in Nat, Cuantos(s, 1) = N, NEW f, f = [i \in 0 .. N |-> f[i]],
           f[0] = Vacia,
           \A i \in 1 .. N : f[i] = Una(s, f[i - 1])
    PROVE  DeserializarLista(s) = f[N].lista
<1> DEFINE g == CHOOSE g : g = [i \in 0 .. N |-> IF i = 0 THEN Vacia ELSE Una(s, g[i - 1])]
<1>1. DeserializarLista(s) = g[N].lista
  BY DEF DeserializarLista, Vacia
<1>2. f = [i \in 0 .. N |-> IF i = 0 THEN Vacia ELSE Una(s, f[i - 1])]
  <2>1. \A i \in 0 .. N : f[i] = IF i = 0 THEN Vacia ELSE Una(s, f[i - 1])
    <3>1. \A i \in 0 .. N : i = 0 \/ (i # 0 /\ i \in 1 .. N)
      OBVIOUS
    <3> QED BY <3>1
  <2> QED BY <2>1
<1>3. g = [i \in 0 .. N |-> IF i = 0 THEN Vacia ELSE Una(s, g[i - 1])]
  BY <1>2
<1> HIDE DEF g
<1> DEFINE D == {i \in 0 .. N : g[i] # f[i]}
<1>4. D = {}
  <2> SUFFICES ASSUME D # {} PROVE FALSE
    OBVIOUS
  <2>1. PICK m \in D : \A k \in D : m <= k
    <3>1. D \subseteq Nat
      OBVIOUS
    <3> HIDE DEF D
    <3> QED BY <3>1, Minimo
  <2>2. m \in 0 .. N /\ g[m] # f[m]
    BY <2>1
  <2>3. m # 0
    BY <1>3, <2>2
  <2>4. m - 1 \in 0 .. N /\ m - 1 \notin D /\ m \in 1 .. N
    BY <2>1, <2>2, <2>3
  <2>5. g[m - 1] = f[m - 1]
    BY <2>4
  <2>6. g[m] = Una(s, g[m - 1])
    BY <1>3, <2>2, <2>3
  <2> QED BY <2>2, <2>4, <2>5, <2>6
<1>5. N \in 0 .. N
  OBVIOUS
<1> QED BY <1>1, <1>4, <1>5

\* What a field holds is read from its place.
LEMMA SeLee ==
    ASSUME NEW M \in Nat, NEW z, EsBuffer(z, M), NEW i \in 1 .. M, NEW a, NEW v, z[i] = Campo(a, v)
    PROVE  Leer(z, i, a) = v
<1>1. i \in DOMAIN z
  BY BufferLista
<1>2. z[i].ancho = a /\ z[i].valor = v
  BY DEF Campo
<1> QED BY <1>1, <1>2 DEF Leer

\* ... and so is a number, which counts what follows if it is a natural.
LEMMA SeLeeEntero ==
    ASSUME NEW M \in Nat, NEW z, EsBuffer(z, M), NEW i \in 1 .. M, NEW v, z[i] = Entero(v)
    PROVE  LeerEntero(z, i) = v /\ (v \in Nat => Cuantos(z, i) = v)
<1>1. LeerEntero(z, i) = v
  BY SeLee DEF LeerEntero, Entero
<1>2. v \in Nat => v # Perdido
  BY PerdidoAssumption
<1> QED BY <1>1, <1>2 DEF Cuantos

\* The first i instructions, and what has been read with them.
LasPrimeras(l, i) == [j \in 1 .. i |-> l[j]]
Hecho(l, fin, i) == [lista |-> LasPrimeras(l, i), lugar |-> 2 + fin[i]]

\* One more instruction of a list.
LEMMA OtraInstruccion ==
    ASSUME NEW V, NEW N \in Nat, NEW l \in [1 .. N -> V], NEW i \in 1 .. N
    PROVE  Append(LasPrimeras(l, i - 1), l[i]) = LasPrimeras(l, i)
<1>1. PICK x, y : x = LasPrimeras(l, i - 1) /\ y = l[i]
  OBVIOUS
<1>2. x \in [1 .. i - 1 -> V] /\ i - 1 \in Nat /\ y \in V
  BY <1>1 DEF LasPrimeras
<1>3. x \in Seq(V) /\ Len(x) = i - 1
  BY <1>2
<1>4. PICK z : z = Append(x, y)
  OBVIOUS
<1>5. /\ z \in Seq(V) /\ Len(z) = i /\ z[i] = y
      /\ \A j \in 1 .. i - 1 : z[j] = x[j]
  <2>1. /\ Append(x, y) \in Seq(V) /\ Len(Append(x, y)) = Len(x) + 1
        /\ \A j \in 1 .. Len(x) : Append(x, y)[j] = x[j]
        /\ Append(x, y)[Len(x) + 1] = y
    <3> HIDE <1>1
    <3> QED BY <1>2, <1>3, AppendProperties
  <2>2. Len(x) + 1 = i
    BY <1>3
  <2> QED BY <1>3, <1>4, <2>1, <2>2, Zenon
<1>6. z = [j \in 1 .. i |-> z[j]]
  <2>1. z \in [1 .. i -> V]
    BY <1>5, LenProperties
  <2> QED BY <2>1
<1>7. \A j \in 1 .. i : z[j] = l[j]
  <2>1. \A j \in 1 .. i : j = i \/ j \in 1 .. i - 1
    OBVIOUS
  <2>2. \A j \in 1 .. i - 1 : x[j] = l[j]
    BY <1>1 DEF LasPrimeras
  <2> QED BY <1>1, <1>5, <2>1, <2>2
<1>8. z = LasPrimeras(l, i)
  BY <1>6, <1>7 DEF LasPrimeras
<1> QED BY <1>1, <1>4, <1>8

\* Una reads the i-th instruction.
LEMMA UnaLeida ==
    ASSUME NEW l, NEW N, NEW fin, NEW z, EnSerie(z, l, N, fin), NEW i \in 1 .. N
    PROVE  Hecho(l, fin, i) = Una(z, Hecho(l, fin, i - 1))
<1>1. /\ N \in Nat /\ l \in [1 .. N -> TInstruccion] /\ l[i] \in TInstruccion
      /\ fin \in [0 .. N -> Nat] /\ i \in 0 .. N /\ i - 1 \in 0 .. N
      /\ \A j \in 1 .. N : fin[j] = fin[j - 1] + Campos(l[j])
  BY DEF EnSerie
<1>0. PICK x : x = SerializarInstruccion(l[i])
  OBVIOUS
<1>2. PICK n \in Nat : /\ n = Len(l[i].parametros) /\ x = SerializarInstruccion(l[i])
                       /\ EnPares(x, l[i], n)
  BY <1>0, <1>1, CamposInstruccion
<1>3. PICK M \in Nat : M = 1 + fin[N] /\ EsBuffer(z, M)
  <2>1. fin[N] \in Nat
    BY <1>1
  <2> QED BY <2>1 DEF EnSerie
<1>4. PICK k \in Nat : k = 2 + fin[i - 1]
  BY <1>1
<1>5. fin[i] = fin[i - 1] + (2 + 2 * n) /\ fin[i] \in Nat /\ fin[i - 1] \in Nat
  BY <1>1, <1>2 DEF Campos
<1>6. fin[i] <= fin[N]
  <2> DEFINE w == [j \in 1 .. N |-> Campos(l[j])]
  <2>1. \A j \in 1 .. N : Campos(l[j]) \in Nat
    <3>1. ASSUME NEW j \in 1 .. N PROVE Campos(l[j]) \in Nat
      <4>1. l[j].parametros \in Seq(Palabras)
        BY <1>1 DEF TInstruccion
      <4>2. Len(l[j].parametros) \in Nat
        BY <4>1, LenProperties
      <4> QED BY <4>2 DEF Campos
    <3> QED BY <3>1
  <2>2. w \in [1 .. N -> Nat] /\ \A j \in 1 .. N : fin[j] = fin[j - 1] + w[j]
    BY <1>1, <2>1
  <2> HIDE DEF w
  <2> QED BY <1>1, <2>2, Crecen
<1>7. ASSUME NEW j \in 1 .. 2 + 2 * n
      PROVE  k - 1 + j \in 1 .. M /\ z[k - 1 + j] = x[j]
  <2>1. k - 1 + j = 1 + (fin[i - 1] + j)
    BY <1>4, <1>5
  <2>2. z[1 + (fin[i - 1] + j)] = x[j]
    BY <1>2 DEF EnSerie, Campos
  <2>3. 1 + (fin[i - 1] + j) \in 1 .. M
    BY <1>1, <1>3, <1>5, <1>6
  <2> QED BY <2>1, <2>2, <2>3
<1>8. LeerEntero(z, k) = l[i].nombre
  <2>1. k - 1 + 1 = k /\ 1 \in 1 .. 2 + 2 * n
    BY <1>2, <1>4
  <2>2. k \in 1 .. M /\ z[k] = Entero(l[i].nombre)
    BY <1>2, <1>7, <2>1 DEF EnPares
  <2> QED BY <1>3, <2>2, SeLeeEntero
<1>9. Cuantos(z, k + 1) = n
  <2>1. k - 1 + 2 = k + 1 /\ 2 \in 1 .. 2 + 2 * n
    BY <1>2, <1>4
  <2>2. k + 1 \in 1 .. M /\ z[k + 1] = Entero(n)
    BY <1>2, <1>7, <2>1 DEF EnPares
  <2> QED BY <1>2, <1>3, <2>2, SeLeeEntero
<1>10. ASSUME NEW j \in 1 .. n
       PROVE  Leer(z, k + 2 * j + 1, LeerEntero(z, k + 2 * j)) = l[i].parametros[j]
  <2>1. PICK q : q = l[i].parametros[j]
    OBVIOUS
  <2>2. /\ k - 1 + (2 * j + 1) = k + 2 * j /\ k - 1 + (2 * j + 2) = k + 2 * j + 1
        /\ 2 * j + 1 \in 1 .. 2 + 2 * n /\ 2 * j + 2 \in 1 .. 2 + 2 * n
    BY <1>2, <1>4
  <2>3. x[2 * j + 1] = Entero(Largo[q]) /\ x[2 * j + 2] = Campo(Largo[q], q)
    BY <1>2, <2>1 DEF EnPares
  <2>4. /\ k + 2 * j \in 1 .. M /\ z[k + 2 * j] = Entero(Largo[q])
        /\ k + 2 * j + 1 \in 1 .. M /\ z[k + 2 * j + 1] = Campo(Largo[q], q)
    BY <1>7, <2>2, <2>3
  <2>5. LeerEntero(z, k + 2 * j) = Largo[q]
    BY <1>3, <2>4, SeLeeEntero
  <2>6. Leer(z, k + 2 * j + 1, Largo[q]) = q
    BY <1>3, <2>4, SeLee
  <2> QED BY <2>1, <2>5, <2>6
<1>11. [j \in 1 .. n |-> Leer(z, k + 2 * j + 1, LeerEntero(z, k + 2 * j))] = l[i].parametros
  <2>1. l[i].parametros \in Seq(Palabras)
    BY <1>1 DEF TInstruccion
  <2>2. l[i].parametros \in [1 .. n -> Palabras]
    BY <1>2, <2>1, LenProperties
  <2> QED BY <1>10, <2>2
<1>12. Append(LasPrimeras(l, i - 1), l[i]) = LasPrimeras(l, i)
  BY <1>1, OtraInstruccion
<1>13. Hecho(l, fin, i - 1).lista = LasPrimeras(l, i - 1) /\ Hecho(l, fin, i - 1).lugar = k
  BY <1>4 DEF Hecho
<1>14. l[i] = [nombre |-> l[i].nombre, parametros |-> l[i].parametros]
  BY <1>1 DEF TInstruccion
<1>15. Una(z, Hecho(l, fin, i - 1)) =
          [lista |-> Append(LasPrimeras(l, i - 1), l[i]), lugar |-> k + 2 + 2 * n]
  BY <1>8, <1>9, <1>11, <1>13, <1>14 DEF Una
<1>16. k + 2 + 2 * n = 2 + fin[i]
  <2>1. PICK F \in Nat, G \in Nat, m \in Nat : F = fin[i - 1] /\ G = fin[i] /\ m = n
    BY <1>5
  <2>2. G = F + (2 + 2 * m) /\ k = 2 + F
    BY <1>4, <1>5, <2>1
  <2>3. k + 2 + 2 * m = 2 + G
    BY <2>2
  <2> QED BY <2>1, <2>3
<1> QED BY <1>12, <1>15, <1>16 DEF Hecho

\* A program is read as it was written.
LEMMA ProgramaLeido ==
    ASSUME NEW l \in Seq(TInstruccion)
    PROVE  DeserializarLista(SerializarLista(l)) = l
<1>1. PICK z, N : z = SerializarLista(l) /\ N = Len(l)
  OBVIOUS
<1>2. PICK fin : EnSerie(z, l, N, fin)
  BY <1>1, CamposPrograma
<1>3. N \in Nat /\ fin[N] \in Nat /\ fin[0] = 0 /\ EsBuffer(z, 1 + fin[N]) /\ z[1] = Entero(N)
  BY <1>2 DEF EnSerie
<1>4. Cuantos(z, 1) = N
  <2>1. PICK M \in Nat : M = 1 + fin[N] /\ 1 \in 1 .. M
    BY <1>3
  <2> QED BY <1>3, <2>1, SeLeeEntero
<1> DEFINE f == [i \in 0 .. N |-> Hecho(l, fin, i)]
<1>5. f = [i \in 0 .. N |-> f[i]]
  OBVIOUS
<1>6. f[0] = Vacia
  <2>1. LasPrimeras(l, 0) = <<>>
    BY DEF LasPrimeras
  <2>2. 0 \in 0 .. N
    BY <1>3
  <2> QED BY <1>3, <2>1, <2>2 DEF Hecho, Vacia
<1>7. \A i \in 1 .. N : f[i] = Una(z, f[i - 1])
  <2>1. \A i \in 1 .. N : i \in 0 .. N /\ i - 1 \in 0 .. N
    BY <1>3
  <2>2. \A i \in 1 .. N : Hecho(l, fin, i) = Una(z, Hecho(l, fin, i - 1))
    BY <1>2, UnaLeida
  <2> QED BY <2>1, <2>2
<1>8. f[N] = Hecho(l, fin, N)
  BY <1>3
<1> HIDE DEF f
<1>9. DeserializarLista(z) = f[N].lista
  <2>1. N \in Nat /\ \A i \in 1 .. N : f[i] = Una(z, f[i - 1])
    BY <1>3, <1>7
  <2> QED BY <1>4, <1>5, <1>6, <2>1, ListaLeida, Zenon
<1>10. LasPrimeras(l, N) = l
  <2>1. l \in [1 .. N -> TInstruccion]
    BY <1>2 DEF EnSerie
  <2> QED BY <2>1 DEF LasPrimeras
<1> QED BY <1>1, <1>8, <1>9, <1>10 DEF Hecho

-----------------------------------------------------------------------------
(* The whole PCB.                                                              *)

\* The size of a program is a number.
LEMMA TamanioNatural ==
    ASSUME NEW l \in Seq(TInstruccion)
    PROVE  TamanioLista(l) \in Nat
<1>1. PICK z, N, fin : EnSerie(z, l, N, fin)
  BY CamposPrograma
<1> QED BY <1>1 DEF EnSerie

LaTabla == <<[id |-> 0, base |-> "base", tam |-> "tam"]>>

\* The one segment of a PCB.
LEMMA CamposTabla ==
    ASSUME NEW z, z = SerializarTabla(LaTabla)
    PROVE  /\ EsBuffer(z, 3) /\ z[1] = Entero(0) /\ z[2] = Entero("base")
           /\ z[3] = Entero("tam") /\ Bytes(z) = 12
<1>1. PICK a, b, c : a = Entero(0) /\ b = Entero("base") /\ c = Entero("tam")
  OBVIOUS
<1>2. a.ancho = 4 /\ b.ancho = 4 /\ c.ancho = 4
  BY <1>1 DEF Entero, Campo
<1>3. PICK y, s : y = <<a, b, c>> /\ s = <<y>>
  OBVIOUS
<1>4. z = FlattenSeq(s)
  <2>1. DOMAIN LaTabla = 1 .. 1 /\ LaTabla[1] = [id |-> 0, base |-> "base", tam |-> "tam"]
    BY DEF LaTabla
  <2>2. [i \in 1 .. 1 |-> <<Entero(LaTabla[i].id), Entero(LaTabla[i].base), Entero(LaTabla[i].tam)>>] = s
    <3>1. \A i \in 1 .. 1 : i = 1
      OBVIOUS
    <3>2. \A i \in 1 .. 1 : <<Entero(LaTabla[i].id), Entero(LaTabla[i].base), Entero(LaTabla[i].tam)>> = y
      BY <1>1, <1>3, <2>1, <3>1
    <3>3. s = [i \in 1 .. 1 |-> y]
      BY <1>3
    <3> QED BY <3>2, <3>3
  <2> QED BY <2>1, <2>2 DEF SerializarTabla
<1>5. FlattenSeq(s) = y
  <2>1. Len(s) = 1 /\ s[1] = y /\ s = [i \in 1 .. 1 |-> s[i]]
    BY <1>3
  <2>2. Acumula(s, s, 1)
    BY <2>1 DEF Acumula
  <2>3. FlattenSeq(s) = s[1]
    <3>1. 1 \in Nat \ {0}
      OBVIOUS
    <3> QED BY <2>1, <2>2, <3>1, Concatenadas, Zenon
  <2> QED BY <2>1, <2>3
<1>6. EsBuffer(y, 3) /\ y[1] = a /\ y[2] = b /\ y[3] = c /\ Bytes(y) = a.ancho + b.ancho + c.ancho
  BY <1>2, <1>3, TresCampos
<1> HIDE <1>3
<1> QED BY <1>1, <1>2, <1>4, <1>5, <1>6

\* A buffer of four fields.
LEMMA CuatroCampos ==
    ASSUME NEW a, NEW b, NEW c, NEW d, a.ancho \in Nat, b.ancho \in Nat, c.ancho \in Nat,
           d.ancho \in Nat, NEW x, x = <<a, b, c, d>>
    PROVE  /\ EsBuffer(x, 4) /\ x[1] = a /\ x[2] = b /\ x[3] = c /\ x[4] = d
           /\ Bytes(x) = a.ancho + b.ancho + c.ancho + d.ancho
<1>1. EsBuffer(x, 4) /\ x[1] = a /\ x[2] = b /\ x[3] = c /\ x[4] = d
  <2>1. \A k \in 1 .. 4 : k = 1 \/ k = 2 \/ k = 3 \/ k = 4
    OBVIOUS
  <2> QED BY <2>1 DEF EsBuffer
<1>2. PICK f : Cuenta(f, x, 4)
  BY <1>1, BytesPasos
<1>3. /\ f[0] = 0 /\ f[1] = f[0] + a.ancho /\ f[2] = f[1] + b.ancho
      /\ f[3] = f[2] + c.ancho /\ f[4] = f[3] + d.ancho
  BY <1>1, <1>2 DEF Cuenta
<1> QED BY <1>1, <1>2, <1>3 DEF Cuenta

\* Fourteen fields, from a function.
LEMMA CatorceCampos ==
    ASSUME NEW a, \A k \in 1 .. 14 : a[k].ancho \in Nat, NEW x,
           x = <<a[1], a[2], a[3], a[4], a[5], a[6], a[7], a[8], a[9], a[10], a[11], a[12],
                 a[13], a[14]>>
    PROVE  /\ EsBuffer(x, 14) /\ \A k \in 1 .. 14 : x[k] = a[k]
           /\ Bytes(x) = a[1].ancho + a[2].ancho + a[3].ancho + a[4].ancho + a[5].ancho
                + a[6].ancho + a[7].ancho + a[8].ancho + a[9].ancho + a[10].ancho
                + a[11].ancho + a[12].ancho + a[13].ancho + a[14].ancho
<1>1. EsBuffer(x, 14) /\ \A k \in 1 .. 14 : x[k] = a[k]
  <2>1. \A k \in 1 .. 14 : \/ k = 1 \/ k = 2 \/ k = 3 \/ k = 4 \/ k = 5 \/ k = 6 \/ k = 7
                           \/ k = 8 \/ k = 9 \/ k = 10 \/ k = 11 \/ k = 12 \/ k = 13 \/ k = 14
    OBVIOUS
  <2>2. \A k \in 1 .. 14 : x[k] = a[k]
    BY <2>1
  <2>3. x = [k \in 1 .. 14 |-> x[k]]
    OBVIOUS
  <2> QED BY <2>2, <2>3 DEF EsBuffer
<1>2. PICK f : Cuenta(f, x, 14)
  BY <1>1, BytesPasos
<1>3. f[0] = 0 /\ Bytes(x) = f[14] /\ \A k \in 1 .. 14 : f[k] = f[k - 1] + a[k].ancho
  BY <1>1, <1>2 DEF Cuenta
<1>4. /\ f[0] = 0 /\ Bytes(x) = f[14]
      /\ f[1] = f[0] + a[1].ancho /\ f[2] = f[1] + a[2].ancho /\ f[3] = f[2] + a[3].ancho
      /\ f[4] = f[3] + a[4].ancho /\ f[5] = f[4] + a[5].ancho /\ f[6] = f[5] + a[6].ancho
      /\ f[7] = f[6] + a[7].ancho /\ f[8] = f[7] + a[8].ancho /\ f[9] = f[8] + a[9].ancho
      /\ f[10] = f[9] + a[10].ancho /\ f[11] = f[10] + a[11].ancho /\ f[12] = f[11] + a[12].ancho
      /\ f[13] = f[12] + a[13].ancho /\ f[14] = f[13] + a[14].ancho
  BY <1>3
<1>5. \A k \in 1 .. 14 : a[k].ancho \in Nat
  OBVIOUS
<1> QED BY ONLY <1>1, <1>4, <1>5

\* A buffer that is one after another has the fields and the bytes of both.
LEMMA Pegados ==
    ASSUME NEW m \in Nat, NEW n \in Nat, NEW x, NEW y, EsBuffer(x, m), EsBuffer(y, n)
    PROVE  EsJunta(x \o y, x, y, m, n) /\ SumanBytes(x \o y, x, y)
<1>1. EsJunta(x \o y, x, y, m, n)
  BY Junta, Zenon
<1>2. PICK z : z = x \o y
  OBVIOUS
<1>3. SumanBytes(z, x, y)
  BY <1>2, BytesJunta
<1> QED BY <1>1, <1>2, <1>3

\* The PCBs that travel: one segment, n open files and a program.
EsPcb(b, l, n) ==
    /\ n \in Nat /\ l \in [1 .. n -> Entradas2]
    /\ b.archivos_abiertos = l /\ b.tabla_segmentos = LaTabla
    /\ b.arch_a_abrir \in Archivos /\ TamanioLista(b.instrucciones) \in Nat

\* The fields before the segments, those after the files.
Cabeza(b) ==
    <<Entero(b.pid), Entero(b.program_counter), Campo(BytesRegistros, b.registro), Entero(1)>>
Final(b) ==
    <<Entero(b.estimacion), Entero(b.llegadaExec), Entero(b.llegadaReady),
      Entero(b.real_ant), Entero(b.conexion_consola), Entero(b.dat_seg),
      Entero(b.dat_tamanio), Entero(Largo[b.arch_a_abrir]),
      Campo(Largo[b.arch_a_abrir], b.arch_a_abrir), Entero(b.posicion),
      Entero(b.df_fs), Entero(b.cant_bytes), Entero(TamanioLista(b.instrucciones)),
      Campo(TamanioLista(b.instrucciones), SerializarLista(b.instrucciones))>>

\* Where each field of a PCB is, and how many bytes they take.
CamposCabeza(z, b) ==
    /\ z[1] = Entero(b.pid) /\ z[2] = Entero(b.program_counter)
    /\ z[3] = Campo(BytesRegistros, b.registro) /\ z[4] = Entero(1)
CamposFinal(z, b, f) ==
    /\ z[f + 1] = Entero(b.estimacion) /\ z[f + 2] = Entero(b.llegadaExec)
    /\ z[f + 3] = Entero(b.llegadaReady) /\ z[f + 4] = Entero(b.real_ant)
    /\ z[f + 5] = Entero(b.conexion_consola) /\ z[f + 6] = Entero(b.dat_seg)
    /\ z[f + 7] = Entero(b.dat_tamanio) /\ z[f + 8] = Entero(Largo[b.arch_a_abrir])
    /\ z[f + 9] = Campo(Largo[b.arch_a_abrir], b.arch_a_abrir)
    /\ z[f + 10] = Entero(b.posicion) /\ z[f + 11] = Entero(b.df_fs)
    /\ z[f + 12] = Entero(b.cant_bytes) /\ z[f + 13] = Entero(TamanioLista(b.instrucciones))
    /\ z[f + 14] = Campo(TamanioLista(b.instrucciones), SerializarLista(b.instrucciones))
PcbEscrito(z, b, l, n) ==
    /\ EsBuffer(z, 3 * n + 22)
    /\ CamposCabeza(z, b)
    /\ z[5] = Entero(0) /\ z[6] = Entero("base") /\ z[7] = Entero("tam") /\ z[8] = Entero(n)
    /\ \A i \in 1 .. n : /\ z[3 * i + 6] = Entero(Largo[l[i].dir])
                         /\ z[3 * i + 7] = Campo(Largo[l[i].dir], l[i].dir)
                         /\ z[3 * i + 8] = Entero(l[i].punt)
    /\ CamposFinal(z, b, 3 * n + 8)
    /\ Bytes(z) = 200 + Largo[b.arch_a_abrir] + TamanioLista(b.instrucciones)
                      + Bytes(SerializarArchivos(l))

\* The four fields at the beginning are in a buffer of 136 bytes.
LEMMA LaCabeza ==
    ASSUME NEW b, NEW x, x = Cabeza(b)
    PROVE  EsBuffer(x, 4) /\ CamposCabeza(x, b) /\ Bytes(x) = 136
<1>1. PICK p, q, r, s : /\ p = Entero(b.pid) /\ q = Entero(b.program_counter)
                        /\ r = Campo(BytesRegistros, b.registro) /\ s = Entero(1)
  OBVIOUS
<1>2. p.ancho = 4 /\ q.ancho = 4 /\ r.ancho = 124 /\ s.ancho = 4
  BY <1>1 DEF Entero, Campo, BytesRegistros
<1>3. x = <<p, q, r, s>>
  BY <1>1 DEF Cabeza
<1>4. /\ EsBuffer(x, 4) /\ x[1] = p /\ x[2] = q /\ x[3] = r /\ x[4] = s
      /\ Bytes(x) = p.ancho + q.ancho + r.ancho + s.ancho
  BY <1>2, <1>3, CuatroCampos
<1> HIDE <1>3
<1> QED BY <1>1, <1>2, <1>4 DEF CamposCabeza

\* The fourteen at the end, with the name of a file and the program.
LEMMA ElFinal ==
    ASSUME NEW b, b.arch_a_abrir \in Archivos, TamanioLista(b.instrucciones) \in Nat,
           NEW x, x = Final(b)
    PROVE  /\ EsBuffer(x, 14) /\ CamposFinal(x, b, 0)
           /\ Bytes(x) = 48 + Largo[b.arch_a_abrir] + TamanioLista(b.instrucciones)
<1>1. PICK L, T, p : /\ L = Largo[b.arch_a_abrir] /\ T = TamanioLista(b.instrucciones)
                     /\ p = SerializarLista(b.instrucciones)
  OBVIOUS
<1>2. L \in Nat /\ T \in Nat
  BY <1>1, LargoAssumption
<1> DEFINE a == [k \in 1 .. 14 |->
       CASE k = 1 -> Entero(b.estimacion) [] k = 2 -> Entero(b.llegadaExec)
         [] k = 3 -> Entero(b.llegadaReady) [] k = 4 -> Entero(b.real_ant)
         [] k = 5 -> Entero(b.conexion_consola) [] k = 6 -> Entero(b.dat_seg)
         [] k = 7 -> Entero(b.dat_tamanio) [] k = 8 -> Entero(L)
         [] k = 9 -> Campo(L, b.arch_a_abrir) [] k = 10 -> Entero(b.posicion)
         [] k = 11 -> Entero(b.df_fs) [] k = 12 -> Entero(b.cant_bytes)
         [] k = 13 -> Entero(T) [] OTHER -> Campo(T, p)]
<1>3. /\ a[1] = Entero(b.estimacion) /\ a[2] = Entero(b.llegadaExec)
      /\ a[3] = Entero(b.llegadaReady) /\ a[4] = Entero(b.real_ant)
      /\ a[5] = Entero(b.conexion_consola) /\ a[6] = Entero(b.dat_seg)
      /\ a[7] = Entero(b.dat_tamanio) /\ a[8] = Entero(L)
      /\ a[9] = Campo(L, b.arch_a_abrir) /\ a[10] = Entero(b.posicion)
      /\ a[11] = Entero(b.df_fs) /\ a[12] = Entero(b.cant_bytes)
      /\ a[13] = Entero(T) /\ a[14] = Campo(T, p)
  OBVIOUS
<1> HIDE DEF a
<1>4. x = <<a[1], a[2], a[3], a[4], a[5], a[6], a[7], a[8], a[9], a[10], a[11], a[12],
            a[13], a[14]>>
  BY <1>1, <1>3, Zenon DEF Final
<1>5. /\ a[1].ancho = 4 /\ a[2].ancho = 4 /\ a[3].ancho = 4 /\ a[4].ancho = 4
      /\ a[5].ancho = 4 /\ a[6].ancho = 4 /\ a[7].ancho = 4 /\ a[8].ancho = 4
      /\ a[9].ancho = L /\ a[10].ancho = 4 /\ a[11].ancho = 4 /\ a[12].ancho = 4
      /\ a[13].ancho = 4 /\ a[14].ancho = T
  BY <1>3 DEF Entero, Campo
<1>6. \A k \in 1 .. 14 : a[k].ancho \in Nat
  <2>1. \A k \in 1 .. 14 : \/ k = 1 \/ k = 2 \/ k = 3 \/ k = 4 \/ k = 5 \/ k = 6 \/ k = 7
                           \/ k = 8 \/ k = 9 \/ k = 10 \/ k = 11 \/ k = 12 \/ k = 13 \/ k = 14
    OBVIOUS
  <2> QED BY <1>2, <1>5, <2>1
<1>7. /\ EsBuffer(x, 14) /\ \A k \in 1 .. 14 : x[k] = a[k]
      /\ Bytes(x) = a[1].ancho + a[2].ancho + a[3].ancho + a[4].ancho + a[5].ancho
           + a[6].ancho + a[7].ancho + a[8].ancho + a[9].ancho + a[10].ancho
           + a[11].ancho + a[12].ancho + a[13].ancho + a[14].ancho
  BY <1>4, <1>6, CatorceCampos, Zenon
<1> HIDE <1>4
<1>8. Bytes(x) = 48 + L + T
  BY <1>2, <1>5, <1>7
<1>9. CamposFinal(x, b, 0)
  <2>1. \A k \in 1 .. 14 : x[0 + k] = a[k]
    BY <1>7
  <2>2. /\ x[0 + 1] = a[1] /\ x[0 + 2] = a[2] /\ x[0 + 3] = a[3] /\ x[0 + 4] = a[4]
        /\ x[0 + 5] = a[5] /\ x[0 + 6] = a[6] /\ x[0 + 7] = a[7] /\ x[0 + 8] = a[8]
        /\ x[0 + 9] = a[9] /\ x[0 + 10] = a[10] /\ x[0 + 11] = a[11] /\ x[0 + 12] = a[12]
        /\ x[0 + 13] = a[13] /\ x[0 + 14] = a[14]
    BY <2>1
  <2> QED BY <1>1, <1>3, <2>2, Zenon DEF CamposFinal
<1> QED BY <1>1, <1>7, <1>8, <1>9

\* Every field of a PCB is written at its place.
LEMMA CamposPcb ==
    ASSUME NEW b, NEW l, NEW n, EsPcb(b, l, n)
    PROVE  PcbEscrito(SerializarPcb(b), b, l, n)
<1>1. /\ n \in Nat /\ 3 * n \in Nat /\ l \in [1 .. n -> Entradas2]
      /\ b.archivos_abiertos = l /\ b.tabla_segmentos = LaTabla
      /\ b.arch_a_abrir \in Archivos /\ TamanioLista(b.instrucciones) \in Nat
  BY DEF EsPcb
<1>2. Len(l) = n /\ Len(LaTabla) = 1
  BY <1>1 DEF LaTabla
<1>3. PICK h, s, u, a, t : /\ h = Cabeza(b) /\ s = SerializarTabla(LaTabla)
                           /\ u = <<Entero(n)>> /\ a = SerializarArchivos(l) /\ t = Final(b)
  OBVIOUS
<1>4. SerializarPcb(b) = h \o s \o u \o a \o t
  BY <1>1, <1>2, <1>3, Zenon DEF SerializarPcb, Cabeza, Final
<1>5. EsBuffer(h, 4) /\ CamposCabeza(h, b) /\ Bytes(h) = 136
  BY <1>3, LaCabeza
<1>6. /\ EsBuffer(s, 3) /\ s[1] = Entero(0) /\ s[2] = Entero("base") /\ s[3] = Entero("tam")
      /\ Bytes(s) = 12
  BY <1>3, CamposTabla
<1>7. EsBuffer(u, 1) /\ u[1] = Entero(n) /\ Bytes(u) = 4
  <2>1. PICK e : e = Entero(n)
    OBVIOUS
  <2>2. e.ancho = 4
    BY <2>1 DEF Entero, Campo
  <2>3. EsBuffer(u, 1) /\ u[1] = e /\ Bytes(u) = e.ancho
    BY <1>3, <2>1, <2>2, UnCampo
  <2> QED BY <2>1, <2>2, <2>3
<1>8. EnTernas(a, l, n)
  BY <1>1, <1>3, LosArchivos
<1>9. PICK A \in Nat : A = 3 * n /\ EsBuffer(a, A)
  BY <1>1, <1>8 DEF EnTernas
<1>10. /\ EsBuffer(t, 14) /\ CamposFinal(t, b, 0)
       /\ Bytes(t) = 48 + Largo[b.arch_a_abrir] + TamanioLista(b.instrucciones)
  BY <1>1, <1>3, ElFinal
<1>11. PICK z1, z2, z3, z : z1 = h \o s /\ z2 = z1 \o u /\ z3 = z2 \o a /\ z = z3 \o t
  OBVIOUS
<1>12. z = SerializarPcb(b)
  BY <1>4, <1>11, Zenon
<1>13. EsJunta(z1, h, s, 4, 3) /\ SumanBytes(z1, h, s)
  <2>1. 4 \in Nat /\ 3 \in Nat
    OBVIOUS
  <2>2. EsBuffer(h, 4) /\ EsBuffer(s, 3) /\ z1 = h \o s
    BY <1>5, <1>6, <1>11, Zenon
  <2> QED BY <2>1, <2>2, Pegados, Zenon
<1>14. EsBuffer(z1, 7)
  <2>1. 4 + 3 = 7
    OBVIOUS
  <2> QED BY <1>13, <2>1, Zenon DEF EsJunta
<1>15. EsJunta(z2, z1, u, 7, 1) /\ SumanBytes(z2, z1, u)
  <2>1. 7 \in Nat /\ 1 \in Nat
    OBVIOUS
  <2> QED BY <1>7, <1>11, <1>14, <2>1, Pegados, Zenon
<1>16. EsBuffer(z2, 8)
  <2>1. 7 + 1 = 8
    OBVIOUS
  <2> QED BY <1>15, <2>1, Zenon DEF EsJunta
<1>17. EsJunta(z3, z2, a, 8, A) /\ SumanBytes(z3, z2, a)
  <2>1. 8 \in Nat
    OBVIOUS
  <2> QED BY <1>9, <1>11, <1>16, <2>1, Pegados, Zenon
<1>18. PICK f \in Nat : f = 3 * n + 8 /\ f = 8 + A /\ EsBuffer(z3, f)
  <2>1. 8 + A \in Nat /\ 8 + A = 3 * n + 8
    BY <1>1, <1>9
  <2>2. EsBuffer(z3, 8 + A)
    BY <1>17, Zenon DEF EsJunta
  <2> QED BY <2>1, <2>2
<1>19. EsJunta(z, z3, t, f, 14) /\ SumanBytes(z, z3, t)
  <2>1. 14 \in Nat
    OBVIOUS
  <2> QED BY <1>10, <1>11, <1>18, <2>1, Pegados, Zenon
<1> HIDE <1>3, <1>4, <1>11
<1>20. EsBuffer(z, 3 * n + 22)
  <2>1. f + 14 = 3 * n + 22
    BY <1>1, <1>18
  <2>2. EsBuffer(z, f + 14)
    BY <1>19, Zenon DEF EsJunta
  <2> QED BY <2>1, <2>2
<1>21. \A k \in 1 .. 8 : z[k] = z2[k]
  <2>1. \A k \in 1 .. 8 : z3[k] = z2[k]
    BY <1>17 DEF EsJunta
  <2>2. \A k \in 1 .. f : z[k] = z3[k]
    BY <1>19 DEF EsJunta
  <2>3. \A k \in 1 .. 8 : k \in 1 .. f
    BY <1>18
  <2> QED BY <2>1, <2>2, <2>3
<1>22. \A k \in 1 .. 7 : z[k] = z1[k]
  <2>1. \A k \in 1 .. 7 : z2[k] = z1[k] /\ k \in 1 .. 8
    BY <1>15 DEF EsJunta
  <2> QED BY <1>21, <2>1
<1>23. CamposCabeza(z, b)
  <2>1. \A k \in 1 .. 4 : z1[k] = h[k] /\ k \in 1 .. 7
    BY <1>13 DEF EsJunta
  <2>2. z[1] = h[1] /\ z[2] = h[2] /\ z[3] = h[3] /\ z[4] = h[4]
    BY <1>22, <2>1
  <2> QED BY <1>5, <2>2, Zenon DEF CamposCabeza
<1>24. z[5] = Entero(0) /\ z[6] = Entero("base") /\ z[7] = Entero("tam")
  <2>1. \A k \in 1 .. 3 : z1[4 + k] = s[k]
    BY <1>13 DEF EsJunta
  <2>2. z1[5] = s[1] /\ z1[6] = s[2] /\ z1[7] = s[3]
    <3>1. 4 + 1 = 5 /\ 4 + 2 = 6 /\ 4 + 3 = 7 /\ 1 \in 1 .. 3 /\ 2 \in 1 .. 3 /\ 3 \in 1 .. 3
      OBVIOUS
    <3> QED BY <2>1, <3>1
  <2>3. 5 \in 1 .. 7 /\ 6 \in 1 .. 7 /\ 7 \in 1 .. 7
    OBVIOUS
  <2> QED BY <1>6, <1>22, <2>2, <2>3
<1>25. z[8] = Entero(n)
  <2>1. z2[7 + 1] = u[1]
    BY <1>15 DEF EsJunta
  <2>2. 7 + 1 = 8 /\ 8 \in 1 .. 8
    OBVIOUS
  <2> QED BY <1>7, <1>21, <2>1, <2>2
<1>26. ASSUME NEW i \in 1 .. n
       PROVE  /\ z[3 * i + 6] = Entero(Largo[l[i].dir])
              /\ z[3 * i + 7] = Campo(Largo[l[i].dir], l[i].dir)
              /\ z[3 * i + 8] = Entero(l[i].punt)
  <2>1. \A k \in 1 .. A : z3[8 + k] = a[k]
    BY <1>17 DEF EsJunta
  <2>2. \A k \in 1 .. A : 8 + k \in 1 .. f
    BY <1>9, <1>18
  <2>3. \A k \in 1 .. f : z[k] = z3[k]
    BY <1>19 DEF EsJunta
  <2>4. \A k \in 1 .. A : z[8 + k] = a[k]
    BY <2>1, <2>2, <2>3
  <2>5. /\ 3 * i - 2 \in 1 .. A /\ 3 * i - 1 \in 1 .. A /\ 3 * i \in 1 .. A
        /\ 8 + (3 * i - 2) = 3 * i + 6 /\ 8 + (3 * i - 1) = 3 * i + 7 /\ 8 + 3 * i = 3 * i + 8
    BY <1>1, <1>9
  <2>6. z[3 * i + 6] = a[3 * i - 2] /\ z[3 * i + 7] = a[3 * i - 1] /\ z[3 * i + 8] = a[3 * i]
    BY <2>4, <2>5
  <2> QED BY <1>8, <2>6 DEF EnTernas
<1>27. CamposFinal(z, b, f)
  <2>1. \A k \in 1 .. 14 : z[f + k] = t[k] /\ t[0 + k] = t[k]
    BY <1>19 DEF EsJunta
  <2>2. /\ z[f + 1] = t[0 + 1] /\ z[f + 2] = t[0 + 2] /\ z[f + 3] = t[0 + 3]
        /\ z[f + 4] = t[0 + 4] /\ z[f + 5] = t[0 + 5] /\ z[f + 6] = t[0 + 6]
        /\ z[f + 7] = t[0 + 7] /\ z[f + 8] = t[0 + 8] /\ z[f + 9] = t[0 + 9]
        /\ z[f + 10] = t[0 + 10] /\ z[f + 11] = t[0 + 11] /\ z[f + 12] = t[0 + 12]
        /\ z[f + 13] = t[0 + 13] /\ z[f + 14] = t[0 + 14]
    BY <2>1
  <2> QED BY <1>10, <2>2, Zenon DEF CamposFinal
<1>28. Bytes(z) = 200 + Largo[b.arch_a_abrir] + TamanioLista(b.instrucciones) + Bytes(a)
  <2>1. PICK L \in Nat, T \in Nat : L = Largo[b.arch_a_abrir] /\ T = TamanioLista(b.instrucciones)
    BY <1>1, LargoAssumption
  <2>2. Bytes(z1) = Bytes(h) + Bytes(s) /\ Bytes(z2) = Bytes(z1) + Bytes(u)
    BY <1>13, <1>15 DEF SumanBytes
  <2>3. Bytes(z3) = Bytes(z2) + Bytes(a) /\ Bytes(a) \in Nat /\ Bytes(z) = Bytes(z3) + Bytes(t)
    BY <1>17, <1>19 DEF SumanBytes
  <2>4. Bytes(h) = 136 /\ Bytes(s) = 12 /\ Bytes(u) = 4 /\ Bytes(t) = 48 + L + T
    BY <1>5, <1>6, <1>7, <1>10, <2>1
  <2>5. Bytes(z) = 200 + L + T + Bytes(a)
    BY ONLY <2>2, <2>3, <2>4, L \in Nat, T \in Nat
  <2> QED BY <2>1, <2>5
<1>29. a = SerializarArchivos(l)
  BY <1>3
<1>30. PcbEscrito(z, b, l, n)
  BY <1>18, <1>20, <1>23, <1>24, <1>25, <1>26, <1>27, <1>28, <1>29, Zenon DEF PcbEscrito
<1> QED BY <1>12, <1>30, Zenon

\* The size computed beforehand is enough.
LEMMA Alcanza ==
    ASSUME NEW b, NEW l, NEW n, EsPcb(b, l, n), CabenSusArchivos(l), NEW z,
           PcbEscrito(z, b, l, n)
    PROVE  Bytes(z) <= Tamanio(b)
<1>1. /\ n \in Nat /\ l \in [1 .. n -> Entradas2]
      /\ b.archivos_abiertos = l /\ b.tabla_segmentos = LaTabla
      /\ b.arch_a_abrir \in Archivos /\ TamanioLista(b.instrucciones) \in Nat
  BY DEF EsPcb
<1>2. Len(l) = n /\ Len(LaTabla) = 1
  BY <1>1 DEF LaTabla
<1>3. PICK L \in Nat, T \in Nat : L = Largo[b.arch_a_abrir] /\ T = TamanioLista(b.instrucciones)
  BY <1>1, LargoAssumption
<1>4. PICK g : /\ g \in [0 .. n -> Nat] /\ g[0] = 0 /\ Bytes(SerializarArchivos(l)) = g[n]
               /\ \A i \in 1 .. n : g[i] = g[i - 1] + (Largo[l[i].dir] + 2 * 4)
  <2>1. EnTernas(SerializarArchivos(l), l, n)
    BY <1>1, LosArchivos, Zenon
  <2>2. PICK a : a = SerializarArchivos(l)
    OBVIOUS
  <2>3. EnTernas(a, l, n)
    BY <2>1, <2>2
  <2>4. \E g : /\ g \in [0 .. n -> Nat] /\ g[0] = 0 /\ Bytes(a) = g[n]
               /\ \A i \in 1 .. n : g[i] = g[i - 1] + (Largo[l[i].dir] + 2 * 4)
    BY <2>3, Zenon DEF EnTernas
  <2> QED BY <2>2, <2>4
<1>5. Bytes(z) = 200 + L + T + g[n]
  BY <1>3, <1>4 DEF PcbEscrito
<1>6. Tamanio(b) = 4 * 20 + 4 + L + 4 + T + 136 + 12 * 1 + TamanioArchivos(l)
  BY <1>1, <1>2, <1>3 DEF Tamanio
<1>7. TamanioArchivos(l) \in Nat /\ g[n] \in Nat /\ g[n] <= TamanioArchivos(l) + 36
  <2>1. CASE n = 0
    <3>1. l = <<>>
      BY <1>2, <1>1, <2>1
    <3> QED BY <1>4, <2>1, <3>1 DEF TamanioArchivos
  <2>2. CASE n # 0
    <3>1. PICK m \in Nat : m = n - 1 /\ n \in 1 .. n /\ m \in 0 .. n /\ n \in 0 .. n
      BY <1>1, <2>2
    <3>2. l # <<>>
      BY <1>2, <2>2
    <3>3. TamanioArchivos(l) = Largo[l[n].dir] + 2 * 4
      BY <1>2, <3>2 DEF TamanioArchivos, Last
    <3>4. Largo[l[n].dir] \in Nat
      <4>1. l[n].dir \in Archivos
        BY <1>1, <3>1 DEF Entradas2
      <4> QED BY <4>1, LargoAssumption
    <3> DEFINE s == [i \in 1 .. m |-> Largo[l[i].dir] + 2 * 4]
               f == [i \in 0 .. m |-> g[i]]
    <3>5. Suma(s) <= 36
      BY <1>2, <3>1, <3>2 DEF CabenSusArchivos, Holgura
    <3>6. Len(s) = m
      <4>1. \A i \in 1 .. m : l[i].dir \in Archivos /\ Largo[l[i].dir] + 2 * 4 \in Nat
        <5>1. \A i \in 1 .. m : i \in 1 .. n
          BY <3>1
        <5>2. \A i \in 1 .. m : l[i] \in Entradas2
          BY <1>1, <5>1
        <5>3. ASSUME NEW i \in 1 .. m
              PROVE  l[i].dir \in Archivos /\ Largo[l[i].dir] + 2 * 4 \in Nat
          <6>1. l[i].dir \in Archivos
            BY <5>2 DEF Entradas2
          <6>2. Largo[l[i].dir] \in Nat
            BY <6>1, LargoAssumption
          <6> QED BY <6>1, <6>2
        <5> QED BY <5>3
      <4>2. s \in [1 .. m -> Nat]
        BY <4>1
      <4> QED BY <4>2
    <3>7. Sumando(f, s, m)
      <4>1. \A i \in 0 .. m : i \in 0 .. n /\ f[i] = g[i]
        BY <1>1, <3>1
      <4>2. f \in [0 .. m -> Nat] /\ f[0] = 0
        BY <1>4, <4>1
      <4>3. \A i \in 1 .. m : i \in 1 .. n /\ i \in 0 .. m /\ i - 1 \in 0 .. m
        BY <1>1, <3>1
      <4>4. \A i \in 1 .. m : s[i] = Largo[l[i].dir] + 2 * 4
        OBVIOUS
      <4> HIDE DEF s, f
      <4>5. \A i \in 1 .. m : f[i] = f[i - 1] + s[i]
        BY <1>4, <4>1, <4>3, <4>4
      <4> QED BY <4>2, <4>5 DEF Sumando
    <3>8. f[m] = g[m]
      BY <3>1
    <3> HIDE DEF s, f
    <3>9. Suma(s) = g[m]
      BY <3>6, <3>7, <3>8, SumaEs
    <3>10. g[n] = g[m] + (Largo[l[n].dir] + 2 * 4) /\ g[m] \in Nat
      BY <1>4, <3>1
    <3> QED BY <3>3, <3>4, <3>5, <3>9, <3>10
  <2> QED BY <2>1, <2>2
<1> QED BY ONLY <1>5, <1>6, <1>7, L \in Nat, T \in Nat

\* What deserializar_pcb makes of a buffer, by parts.
Segmentos(s, tabla) ==
    [i \in 1 .. tabla |->
        [id |-> LeerEntero(s, 2 + 3 * i), base |-> LeerEntero(s, 3 + 3 * i),
         tam |-> LeerEntero(s, 4 + 3 * i)]]
Abiertos(s, a, archivos) ==
    [i \in 1 .. archivos |->
        LET k == a + 3 * i
        IN  [dir |-> Leer(s, k - 1, LeerEntero(s, k - 2)), punt |-> LeerEntero(s, k)]]

\* The segments are read as they were written.
LEMMA TablaLeida ==
    ASSUME NEW b, NEW l, NEW n, EsPcb(b, l, n), NEW z, PcbEscrito(z, b, l, n)
    PROVE  Segmentos(z, 1) = LaTabla
<1>1. PICK M \in Nat : M = 3 * n + 22 /\ EsBuffer(z, M) /\ 5 \in 1 .. M /\ 6 \in 1 .. M /\ 7 \in 1 .. M
  BY DEF EsPcb, PcbEscrito
<1>2. LeerEntero(z, 5) = 0
  BY <1>1, SeLeeEntero DEF PcbEscrito
<1>3. LeerEntero(z, 6) = "base"
  BY <1>1, SeLeeEntero DEF PcbEscrito
<1>4. LeerEntero(z, 7) = "tam"
  BY <1>1, SeLeeEntero DEF PcbEscrito
<1>5. \A i \in 1 .. 1 : 2 + 3 * i = 5 /\ 3 + 3 * i = 6 /\ 4 + 3 * i = 7
  OBVIOUS
<1>6. \A i \in 1 .. 1 : [id |-> LeerEntero(z, 2 + 3 * i), base |-> LeerEntero(z, 3 + 3 * i),
                         tam |-> LeerEntero(z, 4 + 3 * i)] = [id |-> 0, base |-> "base", tam |-> "tam"]
  BY <1>2, <1>3, <1>4, <1>5
<1>7. [i \in 1 .. 1 |-> [id |-> 0, base |-> "base", tam |-> "tam"]] = LaTabla
  BY DEF LaTabla
<1> QED BY <1>6, <1>7 DEF Segmentos

\* ... and so are the open files.
LEMMA ArchivosLeidos ==
    ASSUME NEW b, NEW l, NEW n, EsPcb(b, l, n), NEW z, PcbEscrito(z, b, l, n)
    PROVE  Abiertos(z, 8, n) = l
<1>1. n \in Nat /\ l \in [1 .. n -> Entradas2]
  BY DEF EsPcb
<1>2. PICK M \in Nat : M = 3 * n + 22 /\ EsBuffer(z, M)
  BY <1>1 DEF PcbEscrito
<1>3. ASSUME NEW i \in 1 .. n
      PROVE  [dir |-> Leer(z, 8 + 3 * i - 1, LeerEntero(z, 8 + 3 * i - 2)),
              punt |-> LeerEntero(z, 8 + 3 * i)] = l[i]
  <2>1. PICK k \in 1 .. M : k = 8 + 3 * i /\ k - 1 \in 1 .. M /\ k - 2 \in 1 .. M
    BY <1>1, <1>2
  <2>2. k - 1 = 3 * i + 7 /\ k - 2 = 3 * i + 6 /\ k = 3 * i + 8
    BY <1>1, <2>1
  <2>3. /\ z[k - 2] = Entero(Largo[l[i].dir]) /\ z[k - 1] = Campo(Largo[l[i].dir], l[i].dir)
        /\ z[k] = Entero(l[i].punt)
    BY <2>2 DEF PcbEscrito
  <2>4. LeerEntero(z, k - 2) = Largo[l[i].dir]
    BY <1>2, <2>1, <2>3, SeLeeEntero
  <2>5. Leer(z, k - 1, Largo[l[i].dir]) = l[i].dir
    BY <1>2, <2>1, <2>3, SeLee
  <2>6. LeerEntero(z, k) = l[i].punt
    BY <1>2, <2>1, <2>3, SeLeeEntero
  <2>7. l[i] = [dir |-> l[i].dir, punt |-> l[i].punt]
    BY <1>1 DEF Entradas2
  <2>8. [dir |-> Leer(z, k - 1, LeerEntero(z, k - 2)), punt |-> LeerEntero(z, k)] = l[i]
    BY <2>4, <2>5, <2>6, <2>7
  <2> QED BY <2>1, <2>8
<1>4. l = [i \in 1 .. n |-> l[i]]
  BY <1>1
<1> QED BY <1>3, <1>4 DEF Abiertos

\* serializar_lista_de_instrucciones and deserializar_lista_instrucciones: whatever
\* the instructions of a program, how many parameters they have and how long these
\* are, the list is read back as it was written, and it takes exactly the bytes
\* that were counted before writing, so that the mismatch between size and offset
\* that the first function looks for when it is done never happens.
THEOREM ProgramasEnteros ==
    \A l \in Seq(TInstruccion) : /\ DeserializarLista(SerializarLista(l)) = l
                                 /\ Bytes(SerializarLista(l)) = TamanioLista(l)
<1> SUFFICES ASSUME NEW l \in Seq(TInstruccion)
             PROVE  /\ DeserializarLista(SerializarLista(l)) = l
                    /\ Bytes(SerializarLista(l)) = TamanioLista(l)
  OBVIOUS
<1>1. PICK z, N, fin : z = SerializarLista(l) /\ EnSerie(z, l, N, fin)
  BY CamposPrograma
<1>2. Bytes(SerializarLista(l)) = TamanioLista(l)
  BY <1>1 DEF EnSerie
<1> QED BY <1>2, ProgramaLeido

\* So a PCB with few enough files is sent whole.
LEMMA SeEnviaTodo ==
    ASSUME NEW b, NEW l, NEW n, EsPcb(b, l, n), CabenSusArchivos(l)
    PROVE  Enviado(b) = SerializarPcb(b)
<1>1. Bytes(SerializarPcb(b)) <= Tamanio(b)
  BY CamposPcb, Alcanza
<1> QED BY <1>1, Zenon DEF Enviado

\* The program in a PCB is read as it was written.
LEMMA InstruccionesLeidas ==
    ASSUME NEW p \in Procesos, NEW x, x = SerializarLista(Programa[p])
    PROVE  (IF x = Perdido THEN <<>> ELSE DeserializarLista(x)) = Programa[p]
<1>1. x # Perdido
  BY PerdidoAssumption
<1>2. DeserializarLista(x) = Programa[p]
  <2>1. Programa[p] \in Seq(TInstruccion)
    BY ProgramaAssumption
  <2> QED BY <2>1, ProgramaLeido
<1> QED BY <1>1, <1>2

\* The fields that are read from places that depend on the lists only by f.
SeLeen(z, b, n, f) ==
    /\ LeerEntero(z, 1) = b.pid /\ LeerEntero(z, 2) = b.program_counter
    /\ Leer(z, 3, BytesRegistros) = b.registro
    /\ Cuantos(z, 4) = 1 /\ Cuantos(z, 8) = n
    /\ LeerEntero(z, f + 1) = b.estimacion /\ LeerEntero(z, f + 2) = b.llegadaExec
    /\ LeerEntero(z, f + 3) = b.llegadaReady /\ LeerEntero(z, f + 4) = b.real_ant
    /\ LeerEntero(z, f + 5) = b.conexion_consola /\ LeerEntero(z, f + 6) = b.dat_seg
    /\ LeerEntero(z, f + 7) = b.dat_tamanio
    /\ Leer(z, f + 9, LeerEntero(z, f + 8)) = b.arch_a_abrir
    /\ LeerEntero(z, f + 10) = b.posicion /\ LeerEntero(z, f + 11) = b.df_fs
    /\ LeerEntero(z, f + 12) = b.cant_bytes
    /\ Leer(z, f + 14, LeerEntero(z, f + 13)) = SerializarLista(b.instrucciones)

\* The fields at known places of a buffer.
LEMMA CamposLeidos ==
    ASSUME NEW b, NEW l, NEW n, EsPcb(b, l, n), NEW z, PcbEscrito(z, b, l, n), NEW f, f = 8 + 3 * n
    PROVE  SeLeen(z, b, n, f)
<1>1. n \in Nat
  BY DEF EsPcb
<1>2. PICK M \in Nat : M = 3 * n + 22 /\ EsBuffer(z, M)
  BY <1>1 DEF PcbEscrito
<1>3. f = 3 * n + 8 /\ f \in Nat /\ \A k \in 1 .. 14 : f + k \in 1 .. M
  BY <1>1, <1>2
<1>4. 1 \in 1 .. M /\ 2 \in 1 .. M /\ 3 \in 1 .. M /\ 4 \in 1 .. M /\ 8 \in 1 .. M
  BY <1>1, <1>2
<1>5. CamposCabeza(z, b) /\ z[8] = Entero(n) /\ CamposFinal(z, b, f)
  BY <1>3 DEF PcbEscrito
<1>6. ASSUME NEW k \in 1 .. M, NEW v, z[k] = Entero(v)
      PROVE  LeerEntero(z, k) = v /\ (v \in Nat => Cuantos(z, k) = v)
  BY <1>2, <1>6, SeLeeEntero
<1>7. /\ LeerEntero(z, 1) = b.pid /\ LeerEntero(z, 2) = b.program_counter
      /\ Leer(z, 3, BytesRegistros) = b.registro
      /\ Cuantos(z, 4) = 1 /\ Cuantos(z, 8) = n
  <2>1. LeerEntero(z, 1) = b.pid
    BY <1>4, <1>5, <1>6 DEF CamposCabeza
  <2>2. LeerEntero(z, 2) = b.program_counter
    BY <1>4, <1>5, <1>6 DEF CamposCabeza
  <2>3. Leer(z, 3, BytesRegistros) = b.registro
    BY <1>2, <1>4, <1>5, SeLee DEF CamposCabeza
  <2>4. Cuantos(z, 4) = 1
    BY <1>4, <1>5, <1>6 DEF CamposCabeza
  <2>5. Cuantos(z, 8) = n
    BY <1>1, <1>4, <1>5, <1>6
  <2> QED BY <2>1, <2>2, <2>3, <2>4, <2>5
<1>8. /\ f + 1 \in 1 .. M /\ f + 2 \in 1 .. M /\ f + 3 \in 1 .. M /\ f + 4 \in 1 .. M
      /\ f + 5 \in 1 .. M /\ f + 6 \in 1 .. M /\ f + 7 \in 1 .. M /\ f + 8 \in 1 .. M
      /\ f + 9 \in 1 .. M /\ f + 10 \in 1 .. M /\ f + 11 \in 1 .. M /\ f + 12 \in 1 .. M
      /\ f + 13 \in 1 .. M /\ f + 14 \in 1 .. M
  BY <1>3
<1>9. ASSUME NEW k \in 1 .. 14, NEW v, z[f + k] = Entero(v) PROVE LeerEntero(z, f + k) = v
  BY <1>3, <1>6, <1>9
<1>10. LeerEntero(z, f + 1) = b.estimacion
  BY <1>5, <1>9 DEF CamposFinal
<1>11. LeerEntero(z, f + 2) = b.llegadaExec
  BY <1>5, <1>9 DEF CamposFinal
<1>12. LeerEntero(z, f + 3) = b.llegadaReady
  BY <1>5, <1>9 DEF CamposFinal
<1>13. LeerEntero(z, f + 4) = b.real_ant
  BY <1>5, <1>9 DEF CamposFinal
<1>14. LeerEntero(z, f + 5) = b.conexion_consola
  BY <1>5, <1>9 DEF CamposFinal
<1>15. LeerEntero(z, f + 6) = b.dat_seg
  BY <1>5, <1>9 DEF CamposFinal
<1>16. LeerEntero(z, f + 7) = b.dat_tamanio
  BY <1>5, <1>9 DEF CamposFinal
<1>17. LeerEntero(z, f + 8) = Largo[b.arch_a_abrir]
  BY <1>5, <1>9 DEF CamposFinal
<1>18. LeerEntero(z, f + 10) = b.posicion
  BY <1>5, <1>9 DEF CamposFinal
<1>19. LeerEntero(z, f + 11) = b.df_fs
  BY <1>5, <1>9 DEF CamposFinal
<1>20. LeerEntero(z, f + 12) = b.cant_bytes
  BY <1>5, <1>9 DEF CamposFinal
<1>21. LeerEntero(z, f + 13) = TamanioLista(b.instrucciones)
  BY <1>5, <1>9 DEF CamposFinal
<1>22. Leer(z, f + 9, Largo[b.arch_a_abrir]) = b.arch_a_abrir
  BY <1>2, <1>5, <1>8, SeLee DEF CamposFinal
<1>23. Leer(z, f + 14, TamanioLista(b.instrucciones)) = SerializarLista(b.instrucciones)
  BY <1>2, <1>5, <1>8, SeLee DEF CamposFinal
<1> QED BY <1>7, <1>10, <1>11, <1>12, <1>13, <1>14, <1>15, <1>16,
           <1>17, <1>18, <1>19, <1>20, <1>21, <1>22, <1>23, Zenon DEF SeLeen

Instrucciones(s, f) ==
    LET l == Leer(s, f + 14, LeerEntero(s, f + 13))
    IN  IF l = Perdido THEN <<>> ELSE DeserializarLista(l)
Armado(s, t, l, p, f) ==
    [pid |-> LeerEntero(s, 1), program_counter |-> LeerEntero(s, 2),
     registro |-> Leer(s, 3, BytesRegistros), tabla_segmentos |-> t, archivos_abiertos |-> l,
     estimacion |-> LeerEntero(s, f + 1), llegadaExec |-> LeerEntero(s, f + 2),
     llegadaReady |-> LeerEntero(s, f + 3), real_ant |-> LeerEntero(s, f + 4),
     conexion_consola |-> LeerEntero(s, f + 5), dat_seg |-> LeerEntero(s, f + 6),
     dat_tamanio |-> LeerEntero(s, f + 7),
     arch_a_abrir |-> Leer(s, f + 9, LeerEntero(s, f + 8)),
     posicion |-> LeerEntero(s, f + 10), df_fs |-> LeerEntero(s, f + 11),
     cant_bytes |-> LeerEntero(s, f + 12), instrucciones |-> p]
Partes(s, tabla, a, archivos, f) ==
    Armado(s, Segmentos(s, tabla), Abiertos(s, a, archivos), Instrucciones(s, f), f)

\* deserializar_pcb looks for the number of segments, then for that of files.
LEMMA PorPartes ==
    ASSUME NEW s, NEW a, a = 5 + 3 * Cuantos(s, 4), NEW f, f = a + 3 * Cuantos(s, a)
    PROVE  DeserializarPcb(s) = Partes(s, Cuantos(s, 4), a, Cuantos(s, a), f)
<1>1. DeserializarPcb(s) =
         Partes(s, Cuantos(s, 4), 5 + 3 * Cuantos(s, 4), Cuantos(s, 5 + 3 * Cuantos(s, 4)),
                (5 + 3 * Cuantos(s, 4)) + 3 * Cuantos(s, 5 + 3 * Cuantos(s, 4)))
  BY DEF DeserializarPcb, Partes, Armado, Segmentos, Abiertos, Instrucciones
<1> QED BY <1>1, Zenon

\* A PCB whose files fit arrives as it left.
LEMMA LlegaEntero ==
    ASSUME NEW m, m.pid \in Procesos, m.arch \in Archivos,
           archivosAbiertos[m.pid] \in Seq([dir : Archivos, punt : Posibles]),
           CabenSusArchivos(archivosAbiertos[m.pid])
    PROVE  DeserializarPcb(Enviado(PcbDe(m))) = PcbDe(m)
<1>1. PICK b, l, n : b = PcbDe(m) /\ l = archivosAbiertos[m.pid] /\ n = Len(l)
  OBVIOUS
<1>2. n \in Nat /\ l \in [1 .. n -> Entradas2]
  BY <1>1, LenProperties DEF Entradas2
<1>3. /\ b.archivos_abiertos = l /\ b.tabla_segmentos = LaTabla /\ b.arch_a_abrir = m.arch
      /\ b.instrucciones = Programa[m.pid]
  BY <1>1 DEF PcbDe, LaTabla
<1>4. TamanioLista(b.instrucciones) \in Nat
  <2>1. Programa[m.pid] \in Seq(TInstruccion)
    BY ProgramaAssumption
  <2> QED BY <1>3, <2>1, TamanioNatural
<1>5. EsPcb(b, l, n)
  BY <1>2, <1>3, <1>4 DEF EsPcb
<1>6. PICK z : z = SerializarPcb(b) /\ z = Enviado(b)
  BY <1>1, <1>5, SeEnviaTodo
<1>7. PcbEscrito(z, b, l, n)
  BY <1>5, <1>6, CamposPcb
<1>8. PICK f : f = 8 + 3 * n
  OBVIOUS
<1>9. SeLeen(z, b, n, f)
  BY <1>5, <1>7, <1>8, CamposLeidos, Zenon
<1>10. Segmentos(z, 1) = b.tabla_segmentos
  BY <1>3, <1>5, <1>7, TablaLeida, Zenon
<1>11. Abiertos(z, 8, n) = b.archivos_abiertos
  BY <1>3, <1>5, <1>7, ArchivosLeidos, Zenon
<1>12. Instrucciones(z, f) = b.instrucciones
  BY <1>3, <1>9, InstruccionesLeidas, Zenon DEF Instrucciones, SeLeen
<1>13. DeserializarPcb(z) = Armado(z, b.tabla_segmentos, b.archivos_abiertos, b.instrucciones, f)
  <2>1. Cuantos(z, 4) = 1 /\ Cuantos(z, 8) = n
    BY <1>9 DEF SeLeen
  <2>2. 8 = 5 + 3 * Cuantos(z, 4) /\ f = 8 + 3 * Cuantos(z, 8)
    BY <1>8, <2>1
  <2>3. DeserializarPcb(z) = Partes(z, Cuantos(z, 4), 8, Cuantos(z, 8), f)
    BY <2>2, PorPartes, Zenon
  <2> QED BY <1>10, <1>11, <1>12, <2>1, <2>3, Zenon DEF Partes
<1>14. DeserializarPcb(z) =
         [pid |-> b.pid, program_counter |-> b.program_counter, registro |-> b.registro,
          tabla_segmentos |-> b.tabla_segmentos, archivos_abiertos |-> b.archivos_abiertos,
          estimacion |-> b.estimacion, llegadaExec |-> b.llegadaExec,
          llegadaReady |-> b.llegadaReady, real_ant |-> b.real_ant,
          conexion_consola |-> b.conexion_consola, dat_seg |-> b.dat_seg,
          dat_tamanio |-> b.dat_tamanio, arch_a_abrir |-> b.arch_a_abrir,
          posicion |-> b.posicion, df_fs |-> b.df_fs, cant_bytes |-> b.cant_bytes,
          instrucciones |-> b.instrucciones]
  BY <1>9, <1>13, Zenon DEF Armado, SeLeen
<1>15. DeserializarPcb(z) = b
  BY <1>1, <1>14, Zenon DEF PcbDe
<1> QED BY <1>1, <1>6, <1>15

\* PcbEntero: however long the names of the files are, whatever the programs are
\* and whatever is open, serializar_pcb and deserializar_pcb give each PCB between
\* kernel and file system back as it was, as long as the files it carries fit in
\* the room that the buffer has for them.
THEOREM PcbEnteroCorrecto == Spec => []PcbEntero
<1>1. TypeOK => PcbEntero
  <2> SUFFICES ASSUME TypeOK, NEW m \in ToSet(aFs) \union ToSet(deFs),
                      CabenSusArchivos(archivosAbiertos[m.pid])
               PROVE  DeserializarPcb(Enviado(PcbDe(m))) = PcbDe(m)
    BY DEF PcbEntero
  <2>1. aFs \in Seq(MensajesFs(Ops)) /\ deFs \in Seq(MensajesFs(OpsRespuesta))
    BY DEF TypeOK
  <2>2. m \in MensajesFs(Ops) \union MensajesFs(OpsRespuesta)
    <3>1. ASSUME NEW S, NEW s \in Seq(S), m \in ToSet(s) PROVE m \in S
      BY <3>1 DEF ToSet
    <3> QED BY <2>1, <3>1
  <2>3. m.pid \in Procesos /\ m.arch \in Archivos
    BY <2>2 DEF MensajesFs
  <2>4. archivosAbiertos[m.pid] \in Seq([dir : Archivos, punt : Posibles])
    BY <2>3 DEF TypeOK
  <2> QED BY <2>3, <2>4, LlegaEntero
<1>2. Spec => []TypeOK
  BY TipoArchivosCorrecto
<1> QED BY <1>1, <1>2, PTL
===============================================================================
