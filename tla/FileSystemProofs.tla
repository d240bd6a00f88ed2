---------------------------- MODULE FileSystemProofs ----------------------------
(***************************************************************************)
(* Theorems about FileSystem: the types, also with restarts and whatever   *)
(* the truncations; for the truncations that the code gets right, that no  *)
(* block is in two files, that the bitmap is the set of the blocks of the  *)
(* files, that what was written stays, and that only growth without free   *)
(* blocks goes wrong; and, whatever the truncations, that an access goes   *)
(* to its bytes.                                                           *)
(***************************************************************************)
EXTENDS FileSystem, FiniteSetTheorems, SequenceTheorems, WellFoundedInduction, TLAPS

-----------------------------------------------------------------------------
(* How many blocks a size takes.                                               *)

LEMMA Cantidad ==
    ASSUME NEW t \in Nat
    PROVE  /\ Cant(t) \in Nat
           /\ Cant(t) = 0 <=> t = 0
           /\ Cant(t) <= 1 <=> t <= TamBloque
<1>1. Cant(t) \in Nat /\ (t > 0 => Cant(t) >= 1)
  BY BloquesAssumption DEF Cant
<1>2. Cant(0) = 0
  BY BloquesAssumption DEF Cant
<1>3. t <= TamBloque => Cant(t) <= 1
  BY BloquesAssumption DEF Cant
<1>4. t > TamBloque => Cant(t) >= 2
  BY BloquesAssumption DEF Cant
<1> QED BY <1>1, <1>2, <1>3, <1>4, BloquesAssumption

\* Growth that needs no block is of less than a block.
LEMMA DentroDelBloque ==
    ASSUME NEW t \in Nat, NEW u \in Nat, t < u, Cant(t) = Cant(u)
    PROVE  Cant(u - t) = 1
<1>1. /\ u <= Cant(u) * TamBloque /\ t > (Cant(t) - 1) * TamBloque
      /\ Cant(t) \in Int /\ TamBloque \in Nat \ {0}
  BY BloquesAssumption DEF Cant
<1>2. Cant(u) * TamBloque - (Cant(t) - 1) * TamBloque = TamBloque
  BY <1>1
<1>3. u - t \in Nat /\ u - t > 0 /\ u - t < TamBloque
  BY <1>1, <1>2
<1> QED BY <1>3, Cantidad, BloquesAssumption

\* A block that lies in a file as a whole is one of its blocks.
LEMMA BloqueEntero ==
    ASSUME NEW t \in Nat, NEW k \in Nat, (k + 1) * TamBloque <= t
    PROVE  k < Cant(t)
<1>1. t <= Cant(t) * TamBloque /\ Cant(t) \in Nat /\ TamBloque \in Nat \ {0}
  BY BloquesAssumption DEF Cant
<1>2. (k + 1) * TamBloque <= Cant(t) * TamBloque
  BY <1>1
<1>3. ASSUME k >= Cant(t) PROVE FALSE
  <2>1. (k + 1) * TamBloque >= (Cant(t) + 1) * TamBloque
    BY <1>1, <1>3
  <2>2. (Cant(t) + 1) * TamBloque > Cant(t) * TamBloque
    BY <1>1
  <2> QED BY <1>1, <1>2, <2>1, <2>2
<1> QED BY <1>1, <1>3

LEMMA EnteroEnTamanio ==
    ASSUME NEW t \in Nat, NEW k \in 0 .. (t \div TamBloque) - 1
    PROVE  (k + 1) * TamBloque <= t
<1>1. /\ t \div TamBloque \in Nat /\ (t \div TamBloque) * TamBloque <= t
      /\ TamBloque \in Nat \ {0} /\ k + 1 <= t \div TamBloque
  BY BloquesAssumption
<1>2. (k + 1) * TamBloque <= (t \div TamBloque) * TamBloque
  BY <1>1
<1> QED BY <1>1, <1>2

-----------------------------------------------------------------------------
(* The words of a block.                                                       *)

Palabras(b) == b * Punteros .. (b + 1) * Punteros - 1

LEMMA PalabrasDistintas ==
    ASSUME NEW a \in Nat, NEW b \in Nat, a # b, NEW w \in Palabras(a)
    PROVE  w \notin Palabras(b)
BY BloquesAssumption DEF Palabras

LEMMA PalabrasDentro ==
    ASSUME NEW b \in Ids
    PROVE  Palabras(b) \subseteq 0 .. CantBloques * Punteros - 1
<1>1. b \in Nat /\ b + 1 <= CantBloques /\ CantBloques \in Nat /\ Punteros \in Nat
  BY BloquesAssumption DEF Ids
<1>2. b * Punteros >= 0 /\ (b + 1) * Punteros <= CantBloques * Punteros
  BY <1>1
<1> QED BY <1>1, <1>2 DEF Palabras

\* An entry of the indirect block is a word of it.
LEMMA EntradaDentro ==
    ASSUME NEW b \in Ids, NEW k \in 1 .. Punteros
    PROVE  DirPuntero(b, k) \in Palabras(b)
<1>1. b \in Nat /\ Punteros \in Nat /\ b * Punteros \in Nat
      /\ (b + 1) * Punteros = b * Punteros + Punteros
  BY BloquesAssumption DEF Ids
<1> QED BY <1>1 DEF DirPuntero, Palabras

-----------------------------------------------------------------------------
(* The search for free blocks.                                                 *)

\* How many free blocks are before b.
Rango(b) == Cardinality({d \in Libres : d < b})

LEMMA LibresFinito ==
    /\ IsFiniteSet(Libres) /\ Cardinality(Libres) \in Nat
    /\ Libres \subseteq Ids /\ Ids \subseteq Nat
<1>1. IsFiniteSet(Ids)
  BY FS_Interval, BloquesAssumption DEF Ids
<1>2. Libres \subseteq Ids
  <2>1. 8 * (CantBloques \div 8) <= CantBloques /\ CantBloques \in Nat
    BY BloquesAssumption
  <2> QED BY <2>1 DEF Libres, Bits, Ids
<1>3. Ids \subseteq Nat
  BY BloquesAssumption DEF Ids
<1> QED BY <1>1, <1>2, <1>3, FS_Subset, FS_CardinalityType

LEMMA RangoCrece ==
    ASSUME NEW b \in Libres, NEW c \in Libres, b < c
    PROVE  Rango(b) < Rango(c)
<1> DEFINE B == {d \in Libres : d < b}
           C == {d \in Libres : d < c}
<1>1. B \subseteq C /\ b \in C /\ b \notin B /\ C \subseteq Libres
  <2>1. \A d \in Libres : d \in Nat
    BY LibresFinito
  <2>2. \A d \in Libres : d < b => d < c
    BY <2>1
  <2>3. ~(b < b)
    BY <2>1
  <2> QED BY <2>2, <2>3
<1> HIDE DEF B, C
<1>2. IsFiniteSet(C) /\ IsFiniteSet(B) /\ Cardinality(B) <= Cardinality(C)
      /\ (Cardinality(C) = Cardinality(B) => C = B)
  BY <1>1, LibresFinito, FS_Subset
<1>3. Cardinality(B) \in Nat /\ Cardinality(C) \in Nat
  BY <1>2, FS_CardinalityType
<1>4. Cardinality(B) < Cardinality(C)
  BY <1>1, <1>2, <1>3
<1> QED BY <1>4 DEF Rango, B, C

LEMMA RangoAcotado ==
    ASSUME NEW b \in Libres
    PROVE  Rango(b) \in 0 .. Cardinality(Libres) - 1
<1> DEFINE B == {d \in Libres : d < b}
<1>1. B \subseteq Libres /\ b \notin B
  <2>1. b \in Nat
    BY LibresFinito
  <2> QED BY <2>1
<1> HIDE DEF B
<1>2. /\ IsFiniteSet(B) /\ Cardinality(B) <= Cardinality(Libres)
      /\ Cardinality(Libres) = Cardinality(B) => Libres = B
  BY <1>1, LibresFinito, FS_Subset
<1>3. Cardinality(B) \in Nat
  BY <1>2, FS_CardinalityType
<1>4. Cardinality(B) \in 0 .. Cardinality(Libres) - 1
  BY <1>1, <1>2, <1>3, LibresFinito
<1> QED BY <1>4 DEF Rango, B

\* There is a free block of each rank: the ranks of the free blocks are as many
\* as they are, and differ.
LEMMA HayRango ==
    ASSUME NEW m \in 0 .. Cardinality(Libres) - 1
    PROVE  \E b \in Libres : Rango(b) = m
<1> DEFINE N == Cardinality(Libres)
           r == [b \in Libres |-> Rango(b)]
<1>1. N \in Nat /\ IsFiniteSet(0 .. N - 1) /\ Cardinality(0 .. N - 1) = N
  BY LibresFinito, FS_Interval
<1>2. \A b, c \in Libres : Rango(b) = Rango(c) => b = c
  <2> SUFFICES ASSUME NEW b \in Libres, NEW c \in Libres, Rango(b) = Rango(c), b # c
               PROVE  FALSE
    OBVIOUS
  <2>1. b < c \/ c < b
    BY LibresFinito
  <2>2. Rango(b) < Rango(c) \/ Rango(c) < Rango(b)
    BY <2>1, RangoCrece
  <2> QED BY <2>2, RangoAcotado, <1>1
<1>3. r \in [Libres -> 0 .. N - 1]
  BY RangoAcotado
<1> HIDE DEF r
<1>4. r \in Injection(Libres, 0 .. N - 1)
  BY <1>2, <1>3 DEF Injection, IsInjective, r
<1>5. r \in Surjection(Libres, 0 .. N - 1)
  BY <1>1, <1>4, FS_Injection
<1>6. \E b \in Libres : r[b] = m
  BY <1>5 DEF Surjection
<1> QED BY <1>6 DEF r

\* obtener_primer_bloque_libre, n times: n free blocks, each one after the one
\* before it.
LEMMA Nuevos ==
    ASSUME NEW n \in Nat, n <= Cardinality(Libres)
    PROVE  /\ PrimerosLibres(n) \in [1 .. n -> Libres]
           /\ \A i, j \in 1 .. n : i < j => PrimerosLibres(n)[i] < PrimerosLibres(n)[j]
<1> DEFINE s == PrimerosLibres(n)
<1>1. ASSUME NEW i \in 1 .. n PROVE s[i] \in Libres /\ Rango(s[i]) = i - 1
  <2>1. \E b \in Libres : Rango(b) = i - 1
    BY HayRango, LibresFinito
  <2>2. s[i] = CHOOSE b \in Libres : Rango(b) = i - 1
    BY DEF PrimerosLibres, Rango
  <2> QED BY <2>1, <2>2
<1>2. s \in [1 .. n -> Libres]
  BY <1>1 DEF PrimerosLibres
<1> HIDE DEF s
<1>3. ASSUME NEW i \in 1 .. n, NEW j \in 1 .. n, i < j PROVE s[i] < s[j]
  <2>1. /\ s[i] \in Libres /\ s[j] \in Libres
        /\ Rango(s[i]) = i - 1 /\ Rango(s[j]) = j - 1
    BY <1>1, <1>3
  <2>2. s[i] # s[j]
    BY <1>3, <2>1
  <2>3. ASSUME s[j] < s[i] PROVE FALSE
    <3>1. Rango(s[j]) < Rango(s[i])
      BY <2>1, <2>3, RangoCrece
    <3> QED BY <1>3, <2>1, <3>1
  <2>4. s[i] \in Nat /\ s[j] \in Nat
    BY <2>1, LibresFinito
  <2> QED BY <2>2, <2>3, <2>4
<1> QED BY <1>2, <1>3 DEF s

-----------------------------------------------------------------------------
(* The types.                                                                  *)

\* Whose what a word says may be: of a file, or a number of a block.
Autores == Archivos \union {Nadie}

\* The list of the blocks of a file holds numbers.
LEMMA TipoLista ==
    ASSUME TypeOK, NEW f \in DOMAIN fcb
    PROVE  ListaTotal(f) \in Seq(Nat)
<1>1. \A k : BloqueIndirecto(f, k) \in Nat
  BY DEF BloqueIndirecto, TypeOK
<1>2. fcb[f].directo \in Nat /\ fcb[f].tam \in Nat
  BY LibresFinito DEF TypeOK
<1>3. Cant(fcb[f].tam) \in Nat
  BY <1>2, Cantidad
<1> DEFINE c == Cant(fcb[f].tam)
           d == <<fcb[f].directo>>
           r == [k \in 1 .. c - 1 |-> BloqueIndirecto(f, k)]
<1>4. d \in Seq(Nat) /\ <<>> \in Seq(Nat)
  BY <1>2
<1>5. c > 1 => r \in Seq(Nat)
  BY <1>1, <1>3
<1>6. ListaTotal(f) = CASE c = 0 -> <<>> [] c = 1 -> d [] c > 1 -> d \o d \o r
  BY DEF ListaTotal
<1> HIDE DEF d, r
<1>7. c > 1 => d \o d \o r \in Seq(Nat)
  BY <1>4, <1>5, ConcatProperties
<1>8. c = 0 \/ c = 1 \/ c > 1
  BY <1>3
<1> QED BY <1>4, <1>6, <1>7, <1>8

\* What growth takes: as many blocks as its loop asks for.
LEMMA TipoVuelta ==
    ASSUME NEW actual \in Nat, NEW tam \in Nat
    PROVE  LET vuelta == actual .. Hasta(actual, tam) - 1
           IN  /\ Hasta(actual, tam) \in Nat
               /\ Cardinality(vuelta) =
                    IF actual > Hasta(actual, tam) - 1 THEN 0 ELSE Hasta(actual, tam) - actual
               /\ Cardinality(vuelta) \in Nat
<1>1. Hasta(actual, tam) \in Nat
  BY Cantidad DEF Hasta
<1> DEFINE h == Hasta(actual, tam)
<1> HIDE DEF h
<1>2. h \in Nat
  BY <1>1 DEF h
<1>3. Cardinality(actual .. h - 1) = IF actual > h - 1 THEN 0 ELSE h - 1 - actual + 1
  BY <1>2, FS_Interval
<1>4. Cardinality(actual .. h - 1) = IF actual > h - 1 THEN 0 ELSE h - actual
  BY <1>2, <1>3
<1>5. Cardinality(actual .. h - 1) \in Nat
  BY <1>2, <1>4
<1> QED BY <1>1, <1>4, <1>5 DEF h

LEMMA TipoAgrandar ==
    ASSUME TypeOK, NEW f \in DOMAIN fcb, NEW tam \in Nat, fcb[f].tam < tam, Agrandar(f, tam)
    PROVE  /\ \/ UNCHANGED fcb
              \/ \E directo, indirecto \in Ids :
                    fcb' = [fcb EXCEPT ![f] = Fcb(tam, directo, indirecto)]
           /\ bitmap' \subseteq Ids
           /\ palabras' \in [0 .. CantBloques * Punteros - 1 -> Autores \X Nat]
           /\ sana' \in BOOLEAN
<1> DEFINE actual == Cant(fcb[f].tam)
           hasta == Hasta(actual, tam - fcb[f].tam)
           vuelta == actual .. hasta - 1
           nuevos == PrimerosLibres(Cardinality(vuelta))
           Nuevo(i) == nuevos[i - actual + 1]
           directo == IF 0 \in vuelta THEN Nuevo(0) ELSE fcb[f].directo
           indirecto == IF 1 \in vuelta THEN Nuevo(1) ELSE fcb[f].indirecto
           lista == ListaTotal(f) \o nuevos
           indefinido ==
                \/ Cardinality(vuelta) > Cardinality(Libres)
                \/ ~Legible(f)
                \/ /\ Len(lista) > 2
                   /\ ~(Anotadas(lista, Inicial(ListaTotal(f), vuelta), indirecto)
                           \subseteq DOMAIN palabras)
<1>1. /\ fcb[f].tam \in Nat /\ fcb[f].directo \in Ids /\ fcb[f].indirecto \in Ids
      /\ actual \in Nat
  BY Cantidad DEF TypeOK
<1>2. /\ hasta \in Nat /\ Cardinality(vuelta) \in Nat
      /\ Cardinality(vuelta) = IF actual > hasta - 1 THEN 0 ELSE hasta - actual
  <2>1. tam - fcb[f].tam \in Nat
    BY <1>1
  <2> QED BY <1>1, <2>1, TipoVuelta
<1>3. CASE indefinido
  <2>1. UNCHANGED <<fcb, bitmap, palabras>> /\ sana' = FALSE
    BY <1>3 DEF Agrandar
  <2> HIDE DEF indefinido
  <2> QED BY <2>1 DEF TypeOK, Autores
<1>4. CASE ~indefinido
  <2>1. /\ bitmap' = IF nuevos = <<>> THEN bitmap ELSE Ocupar(nuevos)
        /\ palabras' = IF Len(lista) > 2
                       THEN Anotar(lista, Inicial(ListaTotal(f), vuelta), indirecto)
                       ELSE palabras
        /\ fcb' = [fcb EXCEPT ![f] = Fcb(tam, directo, indirecto)]
        /\ UNCHANGED sana
    BY <1>4 DEF Agrandar
  <2>1a. ~(Cardinality(vuelta) > Cardinality(Libres))
    BY <1>4
  <2> HIDE DEF indefinido
  <2>2. nuevos \in [1 .. Cardinality(vuelta) -> Ids]
    <3>1. Cardinality(vuelta) <= Cardinality(Libres)
      BY <1>2, <2>1a, LibresFinito
    <3> QED BY <1>2, <3>1, Nuevos, LibresFinito
  <2> HIDE DEF nuevos
  <2>3. nuevos \in Seq(Nat)
    <3> DEFINE n == Cardinality(vuelta)
    <3>1. n \in Nat /\ nuevos \in [1 .. n -> Ids]
      BY <1>2, <2>2
    <3> HIDE DEF n
    <3>2. nuevos \in [1 .. n -> Nat]
      BY <3>1, LibresFinito
    <3> QED BY <3>1, <3>2
  <2>4. directo \in Ids
    <3>1. 0 \in vuelta => 0 - actual + 1 \in 1 .. Cardinality(vuelta)
      BY <1>1, <1>2
    <3> QED BY <1>1, <2>2, <3>1
  <2>5. indirecto \in Ids
    <3>1. 1 \in vuelta => 1 - actual + 1 \in 1 .. Cardinality(vuelta)
      BY <1>1, <1>2
    <3> QED BY <1>1, <2>2, <3>1
  <2>6. bitmap' \subseteq Ids
    BY <2>1, <2>2 DEF Ocupar, ToSet, TypeOK
  <2>7. lista \in Seq(Nat)
    BY <2>3, TipoLista, ConcatProperties
  <2>8. palabras' \in [0 .. CantBloques * Punteros - 1 -> Autores \X Nat]
    <3> HIDE DEF lista
    <3>1. \A j \in 1 .. Len(lista) : lista[j] \in Nat
      BY <2>7, ElementOfSeq, LenProperties
    <3>2. \A n \in Nat : Numero(n) \in Autores \X Nat
      BY DEF Numero, Autores
    <3>3. Len(lista) \in Nat
      BY <2>7, LenProperties
    <3>4. Inicial(ListaTotal(f), vuelta) \in Nat
      <4>1. Len(ListaTotal(f)) \in Nat
        BY TipoLista, LenProperties
      <4>2. IsFiniteSet({0, 1} \intersect vuelta)
        <5>1. IsFiniteSet(vuelta)
          BY <1>1, <1>2, FS_Interval
        <5>2. {0, 1} \intersect vuelta \subseteq vuelta
          OBVIOUS
        <5> QED BY <5>1, <5>2, FS_Subset
      <4>3. Cardinality({0, 1} \intersect vuelta) \in Nat
        BY <4>2, FS_CardinalityType
      <4> QED BY <4>1, <4>3 DEF Inicial
    <3>5. palabras \in [0 .. CantBloques * Punteros - 1 -> Autores \X Nat]
      BY DEF TypeOK, Autores
    <3> DEFINE inicial == Inicial(ListaTotal(f), vuelta)
    <3>6. ASSUME NEW w \in 0 .. CantBloques * Punteros - 1
          PROVE  Anotar(lista, inicial, indirecto)[w] \in Autores \X Nat
      <4> DEFINE j == w - indirecto * Punteros + 2
      <4>1. Anotar(lista, inicial, indirecto)[w] =
              IF j \in inicial .. Len(lista) - 1 THEN Numero(lista[j + 1]) ELSE palabras[w]
        BY <3>5 DEF Anotar
      <4> HIDE DEF j
      <4>2. j \in inicial .. Len(lista) - 1 => j + 1 \in 1 .. Len(lista)
        BY <3>3, <3>4
      <4> QED BY <3>1, <3>2, <3>5, <4>1, <4>2
    <3>7. Anotar(lista, inicial, indirecto)
             \in [0 .. CantBloques * Punteros - 1 -> Autores \X Nat]
      BY <3>5, <3>6 DEF Anotar
    <3> QED BY <2>1, <3>5, <3>7
  <2>9. sana' \in BOOLEAN
    BY <2>1 DEF TypeOK
  <2> QED BY <2>1, <2>4, <2>5, <2>6, <2>8, <2>9
<1> QED BY <1>3, <1>4

\* What achicar_archivo does to the FCB.
LEMMA FcbAchicado ==
    ASSUME TypeOK, NEW f \in DOMAIN fcb, NEW nuevo \in Nat, NEW P,
           fcb' = [fcb EXCEPT ![f].tam = nuevo, ![f].indirecto = IF P THEN 0 ELSE @]
    PROVE  /\ DOMAIN fcb' = DOMAIN fcb
           /\ \A g \in DOMAIN fcb \ {f} : fcb'[g] = fcb[g]
           /\ fcb'[f] \in [tam : Nat, directo : Ids, indirecto : Ids]
           /\ fcb'[f].tam = nuevo /\ fcb'[f].directo = fcb[f].directo
           /\ fcb'[f].indirecto = IF P THEN 0 ELSE fcb[f].indirecto
<1>1. fcb[f] \in [tam : Nat, directo : Ids, indirecto : Ids] /\ 0 \in Ids
  BY BloquesAssumption DEF TypeOK, Ids
<1> QED BY <1>1

LEMMA TipoAchicar ==
    ASSUME TypeOK, NEW f \in DOMAIN fcb, NEW nuevo \in Nat, Achicar(f, nuevo)
    PROVE  /\ bitmap' \subseteq bitmap
           /\ DOMAIN fcb' = DOMAIN fcb
           /\ \A g \in DOMAIN fcb : fcb'[g] \in [tam : Nat, directo : Ids, indirecto : Ids]
           /\ UNCHANGED palabras /\ sana' \in BOOLEAN
<1>0. CASE ~Legible(f)
  <2>1. UNCHANGED <<fcb, bitmap, palabras>> /\ sana' = FALSE
    BY <1>0 DEF Achicar
  <2> QED BY <2>1 DEF TypeOK
<1> SUFFICES ASSUME Legible(f)
             PROVE  /\ bitmap' \subseteq bitmap
                    /\ DOMAIN fcb' = DOMAIN fcb
                    /\ \A g \in DOMAIN fcb :
                          fcb'[g] \in [tam : Nat, directo : Ids, indirecto : Ids]
                    /\ UNCHANGED palabras /\ sana' \in BOOLEAN
  BY <1>0
<1>1. PICK P :
          fcb' = [fcb EXCEPT ![f].tam = nuevo, ![f].indirecto = IF P THEN 0 ELSE @]
  BY DEF Achicar
<1>2. bitmap' \subseteq bitmap /\ UNCHANGED palabras /\ sana' \in BOOLEAN
  BY DEF Achicar, TypeOK
<1>3. /\ DOMAIN fcb' = DOMAIN fcb
      /\ \A g \in DOMAIN fcb \ {f} : fcb'[g] = fcb[g]
      /\ fcb'[f] \in [tam : Nat, directo : Ids, indirecto : Ids]
  BY <1>1, FcbAchicado
<1> QED BY <1>2, <1>3 DEF TypeOK

LEMMA TipoPaso == TypeOK /\ [NextConReinicio]_vars => TypeOK'
<1> SUFFICES ASSUME TypeOK, [NextConReinicio]_vars PROVE TypeOK'
  OBVIOUS
<1>0. /\ DOMAIN fcb \subseteq Archivos /\ abiertos \subseteq DOMAIN fcb
      /\ \A f \in DOMAIN fcb : fcb[f] \in [tam : Nat, directo : Ids, indirecto : Ids]
      /\ bitmap \subseteq Ids
      /\ palabras \in [0 .. CantBloques * Punteros - 1 -> Autores \X Nat]
      /\ escrito \in Autores \X Nat /\ sana \in BOOLEAN
      /\ 0 \in Ids
  BY BloquesAssumption DEF TypeOK, Autores, Ids
<1>1. CASE UNCHANGED vars
  BY <1>1 DEF vars, TypeOK
<1>2. ASSUME NEW f \in Archivos, AbrirArchivo(f) PROVE TypeOK'
  BY <1>0, <1>2 DEF AbrirArchivo, TypeOK, Autores
<1>3. ASSUME NEW f \in Archivos, CrearArchivo(f) PROVE TypeOK'
  <2>1. \A g \in DOMAIN fcb' : fcb'[g] \in [tam : Nat, directo : Ids, indirecto : Ids]
    BY <1>0, <1>3 DEF CrearArchivo, Fcb
  <2> QED BY <1>0, <1>3, <2>1 DEF CrearArchivo, TypeOK, Autores
<1>4. ASSUME NEW f \in Archivos, ModificarTamanio(f) PROVE TypeOK'
  <2>1. f \in DOMAIN fcb /\ UNCHANGED abiertos /\ escrito' \in Autores \X Nat
    BY <1>0, <1>4 DEF ModificarTamanio, Dato, Autores
  <2>2. PICK c \in Cambios : /\ c[1] = fcb[f].tam
                             /\ \/ c[1] < c[2] /\ Agrandar(f, c[2])
                                \/ c[1] > c[2] /\ Achicar(f, c[2])
    BY <1>4 DEF ModificarTamanio
  <2>3. c[2] \in Nat
    BY BloquesAssumption
  <2>4. ASSUME NEW tam \in Nat, NEW directo \in Ids, NEW indirecto \in Ids,
               fcb' = [fcb EXCEPT ![f] = Fcb(tam, directo, indirecto)]
        PROVE  /\ DOMAIN fcb' = DOMAIN fcb
               /\ \A g \in DOMAIN fcb' : fcb'[g] \in [tam : Nat, directo : Ids, indirecto : Ids]
    BY <1>0, <2>4 DEF Fcb
  <2>5. CASE c[1] < c[2] /\ Agrandar(f, c[2])
    <3>1. /\ \/ UNCHANGED fcb
             \/ \E directo, indirecto \in Ids :
                   fcb' = [fcb EXCEPT ![f] = Fcb(c[2], directo, indirecto)]
          /\ bitmap' \subseteq Ids
          /\ palabras' \in [0 .. CantBloques * Punteros - 1 -> Autores \X Nat]
          /\ sana' \in BOOLEAN
      BY <2>1, <2>2, <2>3, <2>5, TipoAgrandar
    <3>2. /\ DOMAIN fcb' = DOMAIN fcb
          /\ \A g \in DOMAIN fcb' : fcb'[g] \in [tam : Nat, directo : Ids, indirecto : Ids]
      BY <1>0, <2>3, <2>4, <3>1
    <3> QED BY <1>0, <2>1, <3>1, <3>2 DEF TypeOK, Autores
  <2>6. CASE c[1] > c[2] /\ Achicar(f, c[2])
    <3>1. /\ bitmap' \subseteq bitmap
          /\ DOMAIN fcb' = DOMAIN fcb
          /\ \A g \in DOMAIN fcb : fcb'[g] \in [tam : Nat, directo : Ids, indirecto : Ids]
          /\ UNCHANGED palabras /\ sana' \in BOOLEAN
      BY <2>1, <2>3, <2>6, TipoAchicar
    <3> QED BY <1>0, <2>1, <3>1 DEF TypeOK, Autores
  <2> QED BY <2>2, <2>5, <2>6
<1>5. ASSUME NEW f \in Archivos, EscribirArchivo(f) PROVE TypeOK'
  <2>1. PICK k \in 0 .. (fcb[f].tam \div TamBloque) - 1 :
          \/ /\ palabras' = [w \in DOMAIN palabras |->
                   IF w \in Palabras(BloqueDe(f, k)) THEN Dato(f, k) ELSE palabras[w]]
             /\ escrito' = Dato(f, k) /\ UNCHANGED sana
          \/ sana' = FALSE /\ UNCHANGED <<palabras, escrito>>
    BY <1>5 DEF EscribirArchivo, Palabras
  <2>2. f \in DOMAIN fcb /\ UNCHANGED <<fcb, abiertos, bitmap>>
    BY <1>0, <1>5 DEF EscribirArchivo
  <2>3. k \in Nat
    BY <1>0, <2>1, <2>2, BloquesAssumption
  <2>4. Dato(f, k) \in Autores \X Nat
    BY <2>3 DEF Dato, Autores
  <2>5. /\ escrito' \in Autores \X Nat /\ sana' \in BOOLEAN
        /\ palabras' \in [0 .. CantBloques * Punteros - 1 -> Autores \X Nat]
    BY <1>0, <2>1, <2>4
  <2> QED BY <1>0, <2>2, <2>5 DEF TypeOK, Autores
<1>6. CASE Reiniciar
  BY <1>0, <1>6 DEF Reiniciar, TypeOK, Autores
<1> QED BY <1>1, <1>2, <1>3, <1>4, <1>5, <1>6 DEF NextConReinicio, Next

LEMMA TipoInicio == Init => TypeOK
<1> SUFFICES ASSUME Init PROVE TypeOK
  OBVIOUS
<1>1. PICK viejos \in SUBSET Archivos : fcb = [f \in viejos |-> Fcb(0, 0, 0)]
  BY DEF Init
<1>2. /\ DOMAIN fcb \subseteq Archivos
      /\ \A f \in DOMAIN fcb : fcb[f] \in [tam : Nat, directo : Ids, indirecto : Ids]
  BY <1>1, BloquesAssumption DEF Fcb, Ids
<1> QED BY <1>2 DEF Init, TypeOK, Numero, Dato

\* Whatever the truncations, and also when the file system is started again: the
\* blocks that the FCBs name and those marked in the bitmap exist, although
\* growth and shrinking take their list from an indirect block that may hold
\* data or may be missing (agrandar_archivo, achicar_archivo, crear_bitmap).
THEOREM TipoCorrecto == (Spec => []TypeOK) /\ (SpecConReinicio => []TypeOK)
<1>1. TypeOK /\ [Next]_vars => TypeOK'
  BY TipoPaso DEF NextConReinicio
<1>2. Spec => []TypeOK
  BY <1>1, TipoInicio, PTL DEF Spec
<1>3. SpecConReinicio => []TypeOK
  BY TipoInicio, TipoPaso, PTL DEF SpecConReinicio
<1> QED BY <1>2, <1>3

-----------------------------------------------------------------------------
(* The blocks of the files.                                                    *)

\* The truncations that the code gets right: from nothing, to as many blocks as
\* the indirect block has entries for and the direct one; within the last block;
\* and away from the end, when the blocks of the difference are as many as the
\* file loses and it keeps its indirect block, or has none and loses all.
BloquesEnteros(c) ==
    \/ c[1] = 0 /\ c[2] > 0 /\ Cant(c[2]) <= Punteros + 1
    \/ c[1] < c[2] /\ Cant(c[1]) = Cant(c[2])
    \/ /\ c[1] > c[2] /\ Cant(c[1] - c[2]) = Cant(c[1]) - Cant(c[2])
       /\ c[1] <= TamBloque \/ c[2] > TamBloque
CambiosEnteros == \A c \in Cambios : BloquesEnteros(c)

\* The indirect block has an entry for every block after the first one, and none
\* of them is the block 0: growth takes the free blocks in order, and the first
\* one it takes is the direct block.
Anotados ==
    \A f \in DOMAIN fcb :
        /\ Cant(fcb[f].tam) <= Punteros + 1
        /\ \A k \in 1 .. Cant(fcb[f].tam) - 1 : BloqueIndirecto(f, k) \in Ids \ {0}

Unicos == \A r, q \in TodasLasPartes : r # q => BloqueDeParte(r) # BloqueDeParte(q)
Fiel == bitmap = {BloqueDeParte(r) : r \in TodasLasPartes}
DatosEnSuLugar ==
    escrito[1] # Nadie =>
        /\ escrito[1] \in DOMAIN fcb
        /\ (escrito[2] + 1) * TamBloque <= fcb[escrito[1]].tam
        /\ \A w \in Palabras(BloqueDe(escrito[1], escrito[2])) : palabras[w] = escrito

BloquesInv == TypeOK /\ Anotados /\ Unicos /\ Fiel /\ DatosEnSuLugar

LEMMA PartesDe ==
    ASSUME NEW r
    PROVE  r \in TodasLasPartes <=> \E f \in DOMAIN fcb : \E k \in Partes(f) : r = <<f, k>>
BY DEF TodasLasPartes

LEMMA QueParte ==
    ASSUME TypeOK, NEW f \in DOMAIN fcb, NEW k
    PROVE  /\ Cant(fcb[f].tam) \in Nat
           /\ k \in Partes(f) <=> \/ k = -1 /\ Cant(fcb[f].tam) > 1
                                  \/ k \in 0 .. Cant(fcb[f].tam) - 1
<1>1. Cant(fcb[f].tam) \in Nat
  BY Cantidad DEF TypeOK
<1> QED BY <1>1 DEF Partes

\* A part is a block of the disk, and no entry of an indirect block is block 0.
LEMMA BloqueValido ==
    ASSUME TypeOK, Anotados, NEW f \in DOMAIN fcb, NEW k \in Partes(f)
    PROVE  BloqueDeParte(<<f, k>>) \in Ids /\ (k > 0 => BloqueDeParte(<<f, k>>) # 0)
<1>1. k = -1 \/ k = 0 \/ k \in 1 .. Cant(fcb[f].tam) - 1
  BY QueParte
<1>2. fcb[f].directo \in Ids /\ fcb[f].indirecto \in Ids
  BY DEF TypeOK
<1>3. k \in 1 .. Cant(fcb[f].tam) - 1 => BloqueIndirecto(f, k) \in Ids \ {0}
  BY DEF Anotados
<1>4. k \in 1 .. Cant(fcb[f].tam) - 1 => k # -1 /\ k # 0
  BY QueParte
<1> QED BY <1>1, <1>2, <1>3, <1>4 DEF BloqueDeParte, BloqueDe

\* The indirect block of a file, where it is read, lies in the file of blocks.
LEMMA SiempreLegible ==
    ASSUME TypeOK, Anotados, NEW f \in DOMAIN fcb
    PROVE  Legible(f) /\ \A k \in Partes(f) : k > 0 => PunteroDentro(f, k)
<1>1. ASSUME NEW k \in 1 .. Cant(fcb[f].tam) - 1 PROVE PunteroDentro(f, k)
  <2>1. k \in 1 .. Punteros /\ fcb[f].indirecto \in Ids
    BY QueParte, BloquesAssumption DEF Anotados, TypeOK
  <2>2. DirPuntero(fcb[f].indirecto, k) \in 0 .. CantBloques * Punteros - 1
    BY <2>1, EntradaDentro, PalabrasDentro
  <2> QED BY <2>2 DEF PunteroDentro, TypeOK
<1>2. \A k \in Partes(f) : k > 0 => k \in 1 .. Cant(fcb[f].tam) - 1
  BY QueParte
<1> QED BY <1>1, <1>2 DEF Legible

\* The block of a part stays when the FCB keeps its numbers and the words of the
\* indirect block are not written.
LEMMA MismoBloque ==
    ASSUME TypeOK, TypeOK', Anotados, NEW f \in DOMAIN fcb, NEW k \in Partes(f),
           fcb'[f].directo = fcb[f].directo,
           k # 0 => fcb'[f].indirecto = fcb[f].indirecto,
           k > 0 => \A w \in Palabras(fcb[f].indirecto) : palabras'[w] = palabras[w]
    PROVE  BloqueDeParte(<<f, k>>)' = BloqueDeParte(<<f, k>>)
<1>1. CASE k = -1
  BY <1>1 DEF BloqueDeParte
<1>2. CASE k = 0
  BY <1>2 DEF BloqueDeParte, BloqueDe
<1>3. CASE k \in 1 .. Cant(fcb[f].tam) - 1
  <2>1. k > 0 /\ k \in 1 .. Punteros /\ fcb[f].indirecto \in Ids
    BY <1>3, QueParte, BloquesAssumption DEF Anotados, TypeOK
  <2>2. DirPuntero(fcb[f].indirecto, k) \in Palabras(fcb[f].indirecto)
    BY <2>1, EntradaDentro
  <2>3. DOMAIN palabras' = DOMAIN palabras
    BY DEF TypeOK
  <2>4. BloqueIndirecto(f, k)' = BloqueIndirecto(f, k)
    BY <2>1, <2>2, <2>3 DEF BloqueIndirecto
  <2>5. k # -1 /\ k # 0
    BY <2>1
  <2> QED BY <2>4, <2>5 DEF BloqueDeParte, BloqueDe
<1> QED BY <1>1, <1>2, <1>3, QueParte

\* Parts are added in blocks that were free, one for each.
LEMMA PartesAgregadas ==
    ASSUME Unicos, Fiel, NEW R, TodasLasPartes' = TodasLasPartes \union R,
           \A r \in TodasLasPartes : r \notin R /\ BloqueDeParte(r)' = BloqueDeParte(r),
           \A r \in R : BloqueDeParte(r)' \notin bitmap,
           \A r, q \in R : r # q => BloqueDeParte(r)' # BloqueDeParte(q)',
           bitmap' = bitmap \union {BloqueDeParte(r)' : r \in R}
    PROVE  Unicos' /\ Fiel'
<1>1. \A r \in TodasLasPartes : BloqueDeParte(r)' \in bitmap
  BY DEF Fiel
<1>2. Unicos'
  BY <1>1 DEF Unicos
<1>3. bitmap' = {BloqueDeParte(r)' : r \in TodasLasPartes'}
  BY DEF Fiel
<1> QED BY <1>2, <1>3 DEF Fiel

\* Parts are taken away, and their blocks with them.
LEMMA PartesQuitadas ==
    ASSUME Unicos, Fiel, NEW R \in SUBSET TodasLasPartes,
           TodasLasPartes' = TodasLasPartes \ R,
           \A r \in TodasLasPartes \ R : BloqueDeParte(r)' = BloqueDeParte(r),
           bitmap' = bitmap \ {BloqueDeParte(r) : r \in R}
    PROVE  Unicos' /\ Fiel'
<1>1. Unicos'
  BY DEF Unicos
<1>2. bitmap' = {BloqueDeParte(r)' : r \in TodasLasPartes'}
  BY DEF Unicos, Fiel
<1> QED BY <1>1, <1>2 DEF Fiel

-----------------------------------------------------------------------------
(* The requests.                                                               *)

\* Steps in which every file keeps its blocks: what a request leaves alone when
\* it opens a file, finds no block or grows inside the last one.
LEMMA MismosBloques ==
    ASSUME BloquesInv, TypeOK', DOMAIN fcb' = DOMAIN fcb,
           \A f \in DOMAIN fcb : /\ Cant(fcb'[f].tam) = Cant(fcb[f].tam)
                                 /\ fcb'[f].tam >= fcb[f].tam
                                 /\ fcb'[f].directo = fcb[f].directo
                                 /\ fcb'[f].indirecto = fcb[f].indirecto,
           UNCHANGED <<palabras, bitmap>>, UNCHANGED escrito \/ escrito'[1] = Nadie
    PROVE  BloquesInv'
<1>0. TypeOK /\ Anotados /\ Unicos /\ Fiel
  BY DEF BloquesInv
<1>1. \A f \in DOMAIN fcb : \A k : BloqueIndirecto(f, k)' = BloqueIndirecto(f, k)
  BY DEF BloqueIndirecto
<1>2. Anotados'
  BY <1>0, <1>1 DEF Anotados
<1>3. TodasLasPartes' = TodasLasPartes
  BY DEF TodasLasPartes, Partes
<1>4. \A r \in TodasLasPartes : BloqueDeParte(r)' = BloqueDeParte(r)
  <2> SUFFICES ASSUME NEW f \in DOMAIN fcb, NEW k \in Partes(f)
               PROVE  BloqueDeParte(<<f, k>>)' = BloqueDeParte(<<f, k>>)
    BY PartesDe
  <2> QED BY <1>0, MismoBloque
<1>5. Unicos' /\ Fiel'
  BY <1>0, <1>3, <1>4 DEF Unicos, Fiel
<1>6. DatosEnSuLugar'
  <2> SUFFICES ASSUME escrito'[1] # Nadie, UNCHANGED escrito PROVE DatosEnSuLugar'
    BY DEF DatosEnSuLugar
  <2>1. /\ escrito[1] \in DOMAIN fcb
        /\ (escrito[2] + 1) * TamBloque <= fcb[escrito[1]].tam
        /\ \A w \in Palabras(BloqueDe(escrito[1], escrito[2])) : palabras[w] = escrito
    BY DEF BloquesInv, DatosEnSuLugar
  <2>2. BloqueDe(escrito[1], escrito[2])' = BloqueDe(escrito[1], escrito[2])
    BY <1>1, <2>1 DEF BloqueDe
  <2>3. (escrito[2] + 1) * TamBloque <= fcb'[escrito[1]].tam
    <3>1. /\ fcb[escrito[1]].tam \in Nat /\ fcb'[escrito[1]].tam \in Nat
          /\ escrito[2] \in Nat /\ TamBloque \in Nat
      <4>1. \A f \in DOMAIN fcb : fcb[f].tam \in Nat /\ fcb'[f].tam \in Nat
        BY <1>0 DEF TypeOK
      <4>2. escrito[2] \in Nat
        BY <1>0 DEF TypeOK
      <4> QED BY <2>1, <4>1, <4>2, BloquesAssumption
    <3>2. (escrito[2] + 1) * TamBloque \in Nat
      BY <3>1
    <3>3. fcb'[escrito[1]].tam >= fcb[escrito[1]].tam
      BY <2>1
    <3> QED BY <2>1, <3>1, <3>2, <3>3
  <2> QED BY <2>1, <2>2, <2>3 DEF DatosEnSuLugar
<1> QED BY <1>2, <1>5, <1>6 DEF BloquesInv

\* A new file has no blocks.
LEMMA BloquesCrearArchivo ==
    ASSUME BloquesInv, TypeOK', NEW f \in Archivos, CrearArchivo(f)
    PROVE  BloquesInv'
<1>0. TypeOK /\ Anotados /\ Unicos /\ Fiel
  BY DEF BloquesInv
<1>1. /\ f \notin DOMAIN fcb /\ DOMAIN fcb' = DOMAIN fcb \union {f}
      /\ fcb'[f].tam = 0 /\ \A g \in DOMAIN fcb : fcb'[g] = fcb[g]
      /\ UNCHANGED <<palabras, bitmap, escrito>>
  BY DEF CrearArchivo, Fcb
<1>2. Cant(0) = 0
  BY Cantidad
<1>3. Partes(f)' = {}
  BY <1>1, <1>2 DEF Partes
<1>4. \A g \in DOMAIN fcb : Partes(g)' = Partes(g)
  BY <1>1 DEF Partes
<1>5. TodasLasPartes' = TodasLasPartes
  BY <1>1, <1>3, <1>4 DEF TodasLasPartes
<1>6. \A g \in DOMAIN fcb : \A k :
          BloqueIndirecto(g, k)' = BloqueIndirecto(g, k)
  BY <1>1 DEF BloqueIndirecto
<1>7. Anotados'
  <2>1. Cant(fcb'[f].tam) <= Punteros + 1 /\ 1 .. Cant(fcb'[f].tam) - 1 = {}
    BY <1>1, <1>2, BloquesAssumption
  <2> QED BY <1>0, <1>1, <1>6, <2>1 DEF Anotados
<1>8. \A r \in TodasLasPartes : BloqueDeParte(r)' = BloqueDeParte(r)
  <2> SUFFICES ASSUME NEW g \in DOMAIN fcb, NEW k \in Partes(g)
               PROVE  BloqueDeParte(<<g, k>>)' = BloqueDeParte(<<g, k>>)
    BY PartesDe
  <2> QED BY <1>0, <1>1, MismoBloque
<1>9. Unicos' /\ Fiel'
  BY <1>0, <1>1, <1>5, <1>8 DEF Unicos, Fiel
<1>10. DatosEnSuLugar'
  BY <1>1, <1>6 DEF BloquesInv, DatosEnSuLugar, BloqueDe
<1> QED BY <1>7, <1>9, <1>10 DEF BloquesInv

\* A block that a program writes is not the indirect block of any file.
LEMMA BloquesEscribir ==
    ASSUME BloquesInv, TypeOK', NEW f \in Archivos, EscribirArchivo(f)
    PROVE  BloquesInv' /\ UNCHANGED sana
<1>0. TypeOK /\ Anotados /\ Unicos /\ Fiel
  BY DEF BloquesInv
<1>2. f \in DOMAIN fcb /\ UNCHANGED <<fcb, bitmap>>
  BY <1>0 DEF EscribirArchivo, TypeOK
<1>1. PICK k \in 0 .. (fcb[f].tam \div TamBloque) - 1 :
        LET b == BloqueDe(f, k) IN
        IF (k > 0 => PunteroDentro(f, k)) /\ Palabras(b) \subseteq DOMAIN palabras
        THEN /\ palabras' = [w \in DOMAIN palabras |->
                               IF w \in Palabras(b) THEN Dato(f, k) ELSE palabras[w]]
             /\ escrito' = Dato(f, k)
             /\ UNCHANGED sana
        ELSE sana' = FALSE /\ UNCHANGED <<palabras, escrito>>
  BY DEF EscribirArchivo, Palabras
<1>3. /\ k \in Nat /\ fcb[f].tam \in Nat
      /\ (k + 1) * TamBloque <= fcb[f].tam /\ k \in Partes(f)
  <2>1. fcb[f].tam \in Nat
    BY <1>0, <1>2 DEF TypeOK
  <2>2. k \in Nat
    BY <2>1, BloquesAssumption
  <2>3. (k + 1) * TamBloque <= fcb[f].tam
    BY <2>1, EnteroEnTamanio
  <2>4. k < Cant(fcb[f].tam)
    BY <2>1, <2>2, <2>3, BloqueEntero
  <2> QED BY <1>0, <1>2, <2>1, <2>2, <2>3, <2>4, QueParte
<1> DEFINE b == BloqueDe(f, k)
<1>4. b = BloqueDeParte(<<f, k>>) /\ b \in Ids
  <2>1. k # -1
    BY <1>3
  <2>2. b = BloqueDeParte(<<f, k>>)
    BY <2>1 DEF BloqueDeParte
  <2> QED BY <1>0, <1>2, <1>3, <2>2, BloqueValido
<1>4a. /\ palabras' = [w \in DOMAIN palabras |->
                        IF w \in Palabras(b) THEN Dato(f, k) ELSE palabras[w]]
       /\ escrito' = Dato(f, k)
       /\ UNCHANGED sana
  <2>1. k > 0 => PunteroDentro(f, k)
    BY <1>0, <1>2, <1>3, SiempreLegible
  <2>2. Palabras(b) \subseteq DOMAIN palabras
    BY <1>0, <1>4, PalabrasDentro DEF TypeOK
  <2> QED BY <1>1, <2>1, <2>2
<1> HIDE DEF b
<1>5. /\ \A w \in Palabras(b) : palabras'[w] = Dato(f, k)
      /\ \A w \in DOMAIN palabras : w \notin Palabras(b) => palabras'[w] = palabras[w]
  <2>1. Palabras(b) \subseteq DOMAIN palabras
    BY <1>0, <1>4, PalabrasDentro DEF TypeOK
  <2> QED BY <1>4a, <2>1
<1>6. ASSUME NEW g \in DOMAIN fcb, NEW j \in Partes(g), j > 0, NEW w \in Palabras(fcb[g].indirecto)
      PROVE  palabras'[w] = palabras[w]
  <2>1. /\ -1 \in Partes(g) /\ fcb[g].indirecto \in Ids
        /\ BloqueDeParte(<<g, -1>>) = fcb[g].indirecto
    <3>1. Cant(fcb[g].tam) > 1
      BY <1>0, <1>6, QueParte
    <3> QED BY <1>0, <3>1, QueParte DEF TypeOK, BloqueDeParte
  <2>2. <<g, -1>> # <<f, k>>
    BY <1>3
  <2>3. fcb[g].indirecto # b
    BY <1>0, <1>2, <1>3, <1>4, <2>1, <2>2, PartesDe DEF Unicos
  <2>4. w \notin Palabras(b)
    BY <1>4, <1>6, <2>1, <2>3, PalabrasDistintas, LibresFinito
  <2>5. w \in DOMAIN palabras
    BY <1>0, <1>6, <2>1, PalabrasDentro DEF TypeOK
  <2> QED BY <1>5, <2>4, <2>5
<1>7. ASSUME NEW g \in DOMAIN fcb, NEW j \in Partes(g)
      PROVE  BloqueDeParte(<<g, j>>)' = BloqueDeParte(<<g, j>>)
  BY <1>0, <1>2, <1>6, MismoBloque
<1>8. Anotados'
  <2> SUFFICES ASSUME NEW g \in DOMAIN fcb, NEW j \in 1 .. Cant(fcb[g].tam) - 1
               PROVE  BloqueIndirecto(g, j)' \in Ids \ {0}
    BY <1>0, <1>2 DEF Anotados
  <2>1. j \in Partes(g) /\ j # -1 /\ j # 0
    BY <1>0, QueParte
  <2>2. BloqueIndirecto(g, j)' = BloqueIndirecto(g, j)
    BY <1>7, <2>1 DEF BloqueDeParte, BloqueDe
  <2> QED BY <1>0, <2>2 DEF Anotados
<1>9. Unicos' /\ Fiel'
  <2>1. TodasLasPartes' = TodasLasPartes
    BY <1>2 DEF TodasLasPartes, Partes
  <2>2. \A r \in TodasLasPartes : BloqueDeParte(r)' = BloqueDeParte(r)
    BY <1>7, PartesDe
  <2> QED BY <1>0, <1>2, <2>1, <2>2 DEF Unicos, Fiel
<1>10. DatosEnSuLugar'
  <2>1. escrito'[1] = f /\ escrito'[2] = k
    BY <1>4a DEF Dato
  <2>2. BloqueDe(f, k)' = b
    <3>1. k # -1
      BY <1>3
    <3> QED BY <1>2, <1>3, <1>4, <1>7, <3>1 DEF BloqueDeParte
  <2> QED BY <1>4a, <1>2, <1>3, <1>5, <2>1, <2>2 DEF DatosEnSuLugar
<1> QED BY <1>4a, <1>8, <1>9, <1>10 DEF BloquesInv

\* Growth inside the last block takes none and writes no number.
LEMMA BloquesCrecer ==
    ASSUME BloquesInv, TypeOK', NEW f \in DOMAIN fcb, NEW tam \in Nat,
           fcb[f].tam < tam, Cant(fcb[f].tam) = Cant(tam), Agrandar(f, tam),
           UNCHANGED escrito \/ escrito'[1] = Nadie
    PROVE  BloquesInv' /\ UNCHANGED sana
<1> DEFINE actual == Cant(fcb[f].tam)
           hasta == Hasta(actual, tam - fcb[f].tam)
           vuelta == actual .. hasta - 1
           nuevos == PrimerosLibres(Cardinality(vuelta))
           lista == ListaTotal(f) \o nuevos
           inicial == Inicial(ListaTotal(f), vuelta)
           indirecto == IF 1 \in vuelta THEN nuevos[1 - actual + 1] ELSE fcb[f].indirecto
<1>0. TypeOK /\ Legible(f)
  BY SiempreLegible DEF BloquesInv
<1>1. fcb[f].tam \in Nat /\ actual \in Nat /\ actual >= 1 /\ Cant(tam - fcb[f].tam) = 1
  <2>1. fcb[f].tam \in Nat
    BY <1>0 DEF TypeOK
  <2> QED BY <2>1, Cantidad, DentroDelBloque
<1>2. hasta = 1 /\ vuelta = {}
  BY <1>1 DEF Hasta
<1>3. Cardinality(vuelta) = 0 /\ Cardinality({0, 1} \intersect vuelta) = 0
  BY <1>2, FS_EmptySet
<1>4. ~(Cardinality(vuelta) > Cardinality(Libres)) /\ nuevos = <<>>
  <2>1. PrimerosLibres(0) = <<>>
    BY DEF PrimerosLibres
  <2> QED BY <1>3, <2>1, LibresFinito
<1>5. ListaTotal(f) \in Seq(Nat) /\ lista = ListaTotal(f)
  BY <1>0, <1>4, TipoLista, ConcatEmptySeq
<1>6. Len(lista) \in Nat /\ inicial = Len(lista)
  <2>1. Len(lista) \in Nat
    BY <1>5, LenProperties
  <2> QED BY <1>3, <1>5, <2>1 DEF Inicial
<1>7. Anotar(lista, inicial, indirecto) = palabras /\ Anotadas(lista, inicial, indirecto) = {}
  <2> HIDE DEF lista, inicial, indirecto
  <2>1. \A j : j \notin inicial .. Len(lista) - 1
    BY <1>6
  <2>2. Anotar(lista, inicial, indirecto) = [w \in DOMAIN palabras |-> palabras[w]]
    BY <2>1 DEF Anotar
  <2> QED BY <1>0, <2>1, <2>2 DEF TypeOK, Anotadas
<1>8. /\ UNCHANGED <<bitmap, palabras, sana>>
      /\ fcb' = [fcb EXCEPT ![f] = Fcb(tam, fcb[f].directo, fcb[f].indirecto)]
  <2>1. ~(Anotadas(lista, inicial, indirecto) \subseteq DOMAIN palabras) => FALSE
    BY <1>7
  <2>2. /\ bitmap' = IF nuevos = <<>> THEN bitmap ELSE Ocupar(nuevos)
        /\ palabras' = IF Len(lista) > 2 THEN Anotar(lista, inicial, indirecto) ELSE palabras
        /\ fcb' = [fcb EXCEPT ![f] =
              Fcb(tam, IF 0 \in vuelta THEN nuevos[0 - actual + 1] ELSE fcb[f].directo,
                       indirecto)]
        /\ UNCHANGED sana
    BY <1>0, <1>4, <2>1 DEF Agrandar
  <2>3. indirecto = fcb[f].indirecto
    BY <1>2
  <2> HIDE DEF vuelta, nuevos, lista, inicial, indirecto
  <2> QED BY <1>2, <1>4, <1>7, <2>2, <2>3
<1>9. /\ DOMAIN fcb' = DOMAIN fcb
      /\ \A g \in DOMAIN fcb : /\ Cant(fcb'[g].tam) = Cant(fcb[g].tam)
                               /\ fcb'[g].tam >= fcb[g].tam
                               /\ fcb'[g].directo = fcb[g].directo
                               /\ fcb'[g].indirecto = fcb[g].indirecto
  <2>1. \A g \in DOMAIN fcb : fcb[g].tam \in Nat
    BY <1>0 DEF TypeOK
  <2> QED BY <1>8, <2>1 DEF Fcb
<1> QED BY <1>8, <1>9, MismosBloques

\* The entries that leave the end of the list are the blocks that the file does
\* not have any more.
LEMMA QuienesSalen ==
    ASSUME TypeOK, Anotados, NEW f \in DOMAIN fcb, NEW nuevo \in Nat,
           BloquesEnteros(<<fcb[f].tam, nuevo>>), fcb[f].tam > nuevo
    PROVE  LET tam == fcb[f].tam
               lista == ListaTotal(f)
               salen == {lista[j] : j \in Len(lista) - CuantosSalen(tam, nuevo) + 1 .. Len(lista)}
           IN  /\ ~(nuevo <= TamBloque /\ tam > TamBloque)
               /\ salen = {BloqueDe(f, k) : k \in Cant(nuevo) .. Cant(tam) - 1}
               /\ Cant(nuevo) < Cant(tam)
               /\ \/ Cant(tam) = 1 /\ Cant(nuevo) = 0
                  \/ Cant(nuevo) > 1
<1> DEFINE tam == fcb[f].tam
           c == Cant(tam)
           d == Cant(nuevo)
           lista == ListaTotal(f)
           n == CuantosSalen(tam, nuevo)
<1>1. tam \in Nat /\ c \in Nat /\ d \in Nat /\ tam - nuevo \in Nat /\ Cant(tam - nuevo) \in Nat
  <2>1. tam \in Nat
    BY DEF TypeOK
  <2>2. tam - nuevo \in Nat
    BY <2>1
  <2> QED BY <2>1, <2>2, Cantidad
<1>2. /\ tam <= TamBloque \/ nuevo > TamBloque
      /\ Cant(tam - nuevo) = c - d
  <2>1. ~(tam = 0) /\ ~(tam < nuevo)
    BY <1>1
  <2> QED BY <2>1 DEF BloquesEnteros
<1>3. ~(nuevo <= TamBloque /\ tam > TamBloque) /\ n = c - d
  BY <1>1, <1>2, BloquesAssumption DEF CuantosSalen
<1>4. c - d >= 1
  BY <1>1, <1>2, Cantidad
<1>5. (c = 1 /\ d = 0) \/ d > 1
  <2>1. CASE tam <= TamBloque
    <3>1. c <= 1
      BY <1>1, <2>1, Cantidad
    <3> QED BY <1>1, <1>4, <3>1
  <2>2. CASE nuevo > TamBloque
    <3>1. ~(nuevo <= TamBloque)
      BY <2>2, BloquesAssumption
    <3>2. ~(d <= 1)
      BY <3>1, Cantidad
    <3> QED BY <1>1, <3>2
  <2> QED BY <1>2, <2>1, <2>2
<1>6. CASE c = 1 /\ d = 0
  <2>1. lista = <<fcb[f].directo>> /\ Len(lista) = 1
    BY <1>6 DEF ListaTotal
  <2>2. Len(lista) - n + 1 .. Len(lista) = {1} /\ d .. c - 1 = {0}
    BY <1>3, <1>6, <2>1
  <2>3. {lista[j] : j \in Len(lista) - n + 1 .. Len(lista)} = {BloqueDe(f, k) : k \in d .. c - 1}
    BY <2>1, <2>2 DEF BloqueDe
  <2> QED BY <1>3, <1>4, <1>6, <1>1, <2>3
<1>7. CASE d > 1
  <2> DEFINE u == <<fcb[f].directo>>
             r == [k \in 1 .. c - 1 |-> BloqueIndirecto(f, k)]
  <2>1. lista = (u \o u) \o r
    <3>1. c > 1 /\ c # 0 /\ c # 1
      BY <1>1, <1>4, <1>7
    <3> QED BY <3>1 DEF ListaTotal
  <2>3. r \in Seq(Nat) /\ Len(r) = c - 1
    <3>1. \A k : BloqueIndirecto(f, k) \in Nat
      BY DEF BloqueIndirecto, TypeOK
    <3>2. c - 1 \in Nat
      BY <1>1, <1>4
    <3> QED BY <3>1, <3>2
  <2>4. u \o u \in Seq(Nat) /\ Len(u \o u) = 2
    <3>1. u \in Seq(Nat) /\ Len(u) = 1
      <4>1. fcb[f].directo \in Nat
        BY LibresFinito DEF TypeOK
      <4> QED BY <4>1
    <3> HIDE DEF u
    <3>2. u \o u \in Seq(Nat) /\ Len(u \o u) = Len(u) + Len(u)
      BY <3>1, ConcatProperties
    <3> QED BY <3>1, <3>2
  <2>5. /\ Len(lista) = c + 1
        /\ \A j \in 1 .. Len(lista) : j > 2 => lista[j] = r[j - 2]
    <3> HIDE DEF u, r, lista
    <3>1. /\ Len(lista) = 2 + (c - 1)
          /\ \A j \in 1 .. 2 + (c - 1) :
                lista[j] = IF j <= 2 THEN (u \o u)[j] ELSE r[j - 2]
      BY <2>1, <2>3, <2>4, ConcatProperties
    <3> QED BY <1>1, <3>1
  <2>6. \A j \in d + 2 .. c + 1 : lista[j] = BloqueDe(f, j - 2)
    <3> SUFFICES ASSUME NEW j \in d + 2 .. c + 1 PROVE lista[j] = BloqueDe(f, j - 2)
      OBVIOUS
    <3>1. j \in 1 .. Len(lista) /\ j > 2 /\ j - 2 \in 1 .. c - 1 /\ j - 2 # 0
      BY <1>1, <1>7, <2>5
    <3>2. lista[j] = BloqueIndirecto(f, j - 2)
      BY <2>5, <3>1
    <3> QED BY <3>1, <3>2 DEF BloqueDe
  <2>7. Len(lista) - n + 1 = d + 2
    BY <1>1, <1>3, <2>5
  <2> HIDE DEF lista, n, c, d
  <2>8. {lista[j] : j \in d + 2 .. c + 1} = {BloqueDe(f, k) : k \in d .. c - 1}
    <3>1. ASSUME NEW j \in d + 2 .. c + 1
          PROVE  j - 2 \in d .. c - 1
      BY <1>1
    <3>2. ASSUME NEW k \in d .. c - 1
          PROVE  k + 2 \in d + 2 .. c + 1 /\ (k + 2) - 2 = k
      BY <1>1
    <3> QED BY <2>6, <3>1, <3>2
  <2>9. {lista[j] : j \in Len(lista) - n + 1 .. Len(lista)} = {BloqueDe(f, k) : k \in d .. c - 1}
    BY <2>5, <2>7, <2>8
  <2>10. d < c
    BY <1>1, <1>4
  <2> QED BY <1>3, <1>7, <2>9, <2>10 DEF lista, n, c, d
<1> QED BY <1>5, <1>6, <1>7

\* Shrinking takes from the bitmap the blocks that the file loses.
LEMMA BloquesAchicar ==
    ASSUME BloquesInv, TypeOK', NEW f \in DOMAIN fcb, NEW nuevo \in Nat,
           BloquesEnteros(<<fcb[f].tam, nuevo>>), fcb[f].tam > nuevo, Achicar(f, nuevo),
           escrito' = IF escrito[1] = f /\ nuevo < (escrito[2] + 1) * TamBloque
                      THEN Dato(Nadie, 1) ELSE escrito
    PROVE  BloquesInv' /\ UNCHANGED sana
<1> DEFINE tam == fcb[f].tam
           c == Cant(tam)
           d == Cant(nuevo)
           lista == ListaTotal(f)
           salen == {lista[j] : j \in Len(lista) - CuantosSalen(tam, nuevo) + 1 .. Len(lista)}
           R == {<<f, k>> : k \in d .. c - 1}
<1>0. TypeOK /\ Anotados /\ Unicos /\ Fiel
  BY DEF BloquesInv
<1>1. /\ ~(nuevo <= TamBloque /\ tam > TamBloque)
      /\ salen = {BloqueDe(f, k) : k \in d .. c - 1}
      /\ d < c /\ ((c = 1 /\ d = 0) \/ d > 1)
  BY <1>0, QuienesSalen
<1>2. /\ bitmap' = bitmap \ salen /\ UNCHANGED <<palabras, sana>>
      /\ fcb' = [fcb EXCEPT ![f].tam = nuevo, ![f].indirecto = IF 0 \in salen THEN 0 ELSE @]
  <2>1. (IF nuevo <= TamBloque /\ tam > TamBloque THEN fcb[f].indirecto ELSE 0) = 0
    BY <1>1
  <2>2. Legible(f)
    BY <1>0, SiempreLegible
  <2> HIDE DEF salen
  <2> QED BY <2>1, <2>2 DEF Achicar, salen
<1> HIDE DEF salen
<1>3. c \in Nat /\ d \in Nat
  BY <1>0, Cantidad DEF TypeOK
<1>4. \A k \in d .. c - 1 : k \in Partes(f) /\ BloqueDeParte(<<f, k>>) = BloqueDe(f, k)
  <2> SUFFICES ASSUME NEW k \in d .. c - 1
               PROVE  k \in Partes(f) /\ BloqueDeParte(<<f, k>>) = BloqueDe(f, k)
    OBVIOUS
  <2>1. k \in 0 .. c - 1 /\ k # -1
    BY <1>3
  <2> QED BY <1>0, <2>1, QueParte DEF BloqueDeParte
<1>5. d > 1 => 0 \notin salen
  <2> SUFFICES ASSUME d > 1, NEW k \in d .. c - 1 PROVE BloqueDe(f, k) # 0
    BY <1>1
  <2>1. k > 0
    BY <1>3
  <2> QED BY <1>0, <1>4, <2>1, BloqueValido
<1>6. /\ DOMAIN fcb' = DOMAIN fcb
      /\ \A g \in DOMAIN fcb \ {f} : fcb'[g] = fcb[g]
      /\ fcb'[f].tam = nuevo /\ fcb'[f].directo = fcb[f].directo
      /\ d > 1 => fcb'[f].indirecto = fcb[f].indirecto
  BY <1>0, <1>2, <1>5, FcbAchicado
<1>7. ASSUME NEW k
      PROVE  k \in Partes(f)' <=> k \in Partes(f) /\ k \notin d .. c - 1
  <2>1. k \in Partes(f) <=> \/ k = -1 /\ c > 1
                            \/ k \in 0 .. c - 1
    BY <1>0, QueParte
  <2>2. k \in Partes(f)' <=> \/ k = -1 /\ d > 1
                             \/ k \in 0 .. d - 1
    BY <1>3, <1>6 DEF Partes
  <2> HIDE DEF c, d
  <2>3. k = -1 \/ k \in Nat \/ (k # -1 /\ k \notin 0 .. c - 1 /\ k \notin 0 .. d - 1)
    BY <1>3
  <2> QED BY <1>1, <1>3, <2>1, <2>2, <2>3
<1>8. TodasLasPartes' = TodasLasPartes \ R
  <2>1. \A g \in DOMAIN fcb \ {f} : Partes(g)' = Partes(g)
    BY <1>6 DEF Partes
  <2>2. ASSUME NEW r
        PROVE  r \in TodasLasPartes' <=> r \in TodasLasPartes /\ r \notin R
    <3>1. r \in TodasLasPartes' <=> \E g \in DOMAIN fcb : \E k \in Partes(g)' : r = <<g, k>>
      BY <1>6 DEF TodasLasPartes
    <3> HIDE DEF c, d
    <3> QED BY <1>7, <2>1, <3>1, PartesDe
  <2> QED BY <2>2
<1>9. ASSUME NEW g \in DOMAIN fcb, NEW k \in Partes(g)'
      PROVE  k \in Partes(g) /\ BloqueDeParte(<<g, k>>)' = BloqueDeParte(<<g, k>>)
  <2>1. k \in Partes(g)
    BY <1>6, <1>7 DEF Partes
  <2>2. fcb'[g].directo = fcb[g].directo
    BY <1>6
  <2>3. k # 0 => fcb'[g].indirecto = fcb[g].indirecto
    <3>1. CASE g # f
      BY <1>6, <3>1
    <3>2. CASE g = f /\ k # 0
      <4>1. d > 1
        <5>1. (k = -1 /\ d > 1) \/ k \in 0 .. d - 1
          BY <1>3, <1>6, <3>2 DEF Partes
        <5> QED BY <1>1, <1>3, <3>2, <5>1
      <4> QED BY <1>6, <3>2, <4>1
    <3> QED BY <3>1, <3>2
  <2> QED BY <1>0, <1>2, <2>1, <2>2, <2>3, MismoBloque
<1>10. Unicos' /\ Fiel'
  <2>1. R \subseteq TodasLasPartes
    BY <1>4, PartesDe
  <2>2. \A r \in TodasLasPartes \ R : BloqueDeParte(r)' = BloqueDeParte(r)
    <3> SUFFICES ASSUME NEW r \in TodasLasPartes' PROVE BloqueDeParte(r)' = BloqueDeParte(r)
      BY <1>8
    <3>1. \E g \in DOMAIN fcb : \E k \in Partes(g)' : r = <<g, k>>
      BY <1>6 DEF TodasLasPartes
    <3> QED BY <1>9, <3>1
  <2>3. salen = {BloqueDeParte(r) : r \in R}
    BY <1>1, <1>4
  <2> HIDE DEF R
  <2> QED BY <1>0, <1>2, <1>8, <2>1, <2>2, <2>3, PartesQuitadas
<1>11. Anotados'
  <2> SUFFICES ASSUME NEW g \in DOMAIN fcb
               PROVE  /\ Cant(fcb'[g].tam) <= Punteros + 1
                      /\ \A k \in 1 .. Cant(fcb'[g].tam) - 1 : BloqueIndirecto(g, k)' \in Ids \ {0}
    BY <1>6 DEF Anotados
  <2>1. Cant(fcb'[g].tam) \in Nat /\ Cant(fcb[g].tam) \in Nat /\ Cant(fcb'[g].tam) <= Cant(fcb[g].tam)
    <3>1. fcb'[g].tam = IF g = f THEN nuevo ELSE fcb[g].tam
      BY <1>6
    <3>2. Cant(fcb[g].tam) \in Nat
      BY <1>0, QueParte
    <3> QED BY <1>1, <1>3, <3>1, <3>2
  <2>2. Cant(fcb'[g].tam) <= Punteros + 1
    BY <1>0, <2>1, BloquesAssumption DEF Anotados
  <2>3. ASSUME NEW k \in 1 .. Cant(fcb'[g].tam) - 1 PROVE BloqueIndirecto(g, k)' \in Ids \ {0}
    <3>1. k \in Partes(g)' /\ k # -1 /\ k # 0
      BY <2>1 DEF Partes
    <3>2. BloqueIndirecto(g, k)' = BloqueIndirecto(g, k)
      BY <1>9, <3>1 DEF BloqueDeParte, BloqueDe
    <3>3. k \in 1 .. Cant(fcb[g].tam) - 1
      BY <2>1
    <3> QED BY <1>0, <3>2, <3>3 DEF Anotados
  <2> QED BY <2>2, <2>3
<1>12. DatosEnSuLugar'
  <2> SUFFICES ASSUME escrito'[1] # Nadie PROVE DatosEnSuLugar'
    BY DEF DatosEnSuLugar
  <2>0. PICK g, k : g = escrito[1] /\ k = escrito[2]
    OBVIOUS
  <2>1. escrito' = escrito /\ ~(g = f /\ nuevo < (k + 1) * TamBloque)
    BY <2>0 DEF Dato
  <2>2. /\ g \in DOMAIN fcb
        /\ (k + 1) * TamBloque <= fcb[g].tam
        /\ \A w \in Palabras(BloqueDe(g, k)) : palabras[w] = escrito
    BY <2>0, <2>1 DEF BloquesInv, DatosEnSuLugar
  <2>3. k \in Nat /\ (k + 1) * TamBloque \in Nat
    <3>1. k \in Nat
      BY <1>0, <2>0 DEF TypeOK
    <3> QED BY <3>1, BloquesAssumption
  <2>4. (k + 1) * TamBloque <= fcb'[g].tam /\ fcb'[g].tam \in Nat
    <3>1. fcb'[g].tam = IF g = f THEN nuevo ELSE fcb[g].tam
      BY <1>6, <2>2
    <3>2. fcb[g].tam \in Nat
      BY <1>0, <2>2 DEF TypeOK
    <3> QED BY <2>1, <2>2, <2>3, <3>1, <3>2
  <2>5. k \in Partes(g)' /\ k # -1
    <3>1. k < Cant(fcb'[g].tam)
      BY <2>3, <2>4, BloqueEntero
    <3>2. Cant(fcb'[g].tam) \in Nat
      BY <2>4, Cantidad
    <3> QED BY <2>3, <3>1, <3>2 DEF Partes
  <2>6. BloqueDe(g, k)' = BloqueDe(g, k)
    BY <1>9, <2>2, <2>5 DEF BloqueDeParte
  <2> QED BY <1>2, <1>6, <2>0, <2>1, <2>2, <2>4, <2>6 DEF DatosEnSuLugar
<1> QED BY <1>2, <1>10, <1>11, <1>12 DEF BloquesInv

\* How many blocks a file of c blocks takes, with the indirect one, and which of
\* those it finds is for each part: the direct block first, then the indirect one.
Tantos(c) == IF c > 1 THEN c + 1 ELSE 1
Turno(k) == IF k = 0 THEN 1 ELSE IF k = -1 THEN 2 ELSE k + 2

LEMMA LosQueTiene ==
    ASSUME NEW tam \in Nat, tam > 0
    PROVE  Tiene(tam) - Tiene(0) = Tantos(Cant(tam))
<1>1. Cant(0) = 0 /\ Cant(tam) \in Nat /\ Cant(tam) # 0
  BY Cantidad
<1> QED BY <1>1 DEF Tiene, Tantos

\* A truncation needs more blocks than are free.
Falta ==
    \E f \in abiertos : \E c \in Cambios :
        /\ c[1] = fcb[f].tam /\ c[1] < c[2]
        /\ Tiene(c[2]) - Tiene(c[1]) > Cardinality(Libres)

\* What growth from nothing does: the free blocks in order, and the number of
\* each one after the second in the indirect block.
LEMMA EfectoNacer ==
    ASSUME TypeOK, NEW f \in DOMAIN fcb, NEW tam \in Nat, fcb[f].tam = 0, tam > 0,
           Agrandar(f, tam)
    PROVE  \/ /\ UNCHANGED <<fcb, bitmap, palabras>>
              /\ Cant(tam) <= Punteros + 1 => Tantos(Cant(tam)) > Cardinality(Libres)
           \/ \E s, i :
                /\ UNCHANGED sana
                /\ s \in [1 .. Tantos(Cant(tam)) -> Libres]
                /\ \A a, b \in 1 .. Tantos(Cant(tam)) : a < b => s[a] < s[b]
                /\ Cant(tam) > 1 => i = s[2]
                /\ fcb' = [fcb EXCEPT ![f] = Fcb(tam, s[1], i)]
                /\ bitmap' = bitmap \union {s[a] : a \in 1 .. Tantos(Cant(tam))}
                /\ palabras' =
                     [w \in DOMAIN palabras |->
                        IF w - i * Punteros + 1 \in 1 .. Cant(tam) - 1
                        THEN Numero(s[w - i * Punteros + 3]) ELSE palabras[w]]
<1> DEFINE c == Cant(tam)
           n == Tantos(c)
           vuelta == 0 .. Hasta(0, tam) - 1
           s == PrimerosLibres(n)
           i == IF 1 \in vuelta THEN s[2] ELSE fcb[f].indirecto
           inicial == Inicial(<<>>, vuelta)
<1>1. c \in Nat /\ c >= 1 /\ n \in Nat /\ n >= 1 /\ (n > 1 <=> c > 1) /\ (c > 1 => n = c + 1)
  BY Cantidad DEF Tantos
<1>2. Cant(0) = 0 /\ tam - 0 = tam
  BY Cantidad
<1>3. Hasta(0, tam) = n
  BY <1>1 DEF Hasta, Tantos
<1>4. vuelta = 0 .. n - 1 /\ Cardinality(vuelta) = n
  <2>1. Cardinality(0 .. n - 1) = IF 0 > n - 1 THEN 0 ELSE n - 1 - 0 + 1
    BY <1>1, FS_Interval
  <2> HIDE DEF n
  <2> QED BY <1>1, <1>3, <2>1
<1>5. ListaTotal(f) = <<>>
  BY <1>2 DEF ListaTotal
<1> HIDE DEF c, n
<1>6. CASE n > Cardinality(Libres)
  BY <1>2, <1>4, <1>6 DEF Agrandar, n, c
<1>7. CASE ~(n > Cardinality(Libres))
  <2>1. s \in [1 .. n -> Libres] /\ \A a, b \in 1 .. n : a < b => s[a] < s[b]
    <3>1. n <= Cardinality(Libres)
      BY <1>1, <1>7, LibresFinito
    <3> QED BY <1>1, <3>1, Nuevos
  <2>2. IF \/ ~Legible(f)
           \/ Len(<<>> \o s) > 2 /\ ~(Anotadas(<<>> \o s, inicial, i) \subseteq DOMAIN palabras)
        THEN sana' = FALSE /\ UNCHANGED <<fcb, bitmap, palabras>>
        ELSE /\ bitmap' = IF s = <<>> THEN bitmap ELSE Ocupar(s)
             /\ palabras' = IF Len(<<>> \o s) > 2
                            THEN Anotar(<<>> \o s, inicial, i) ELSE palabras
             /\ fcb' = [fcb EXCEPT ![f] = Fcb(tam, IF 0 \in vuelta THEN s[1] ELSE fcb[f].directo, i)]
             /\ UNCHANGED sana
    <3>1. 0 - 0 + 1 = 1 /\ 1 - 0 + 1 = 2
      OBVIOUS
    <3> HIDE DEF s
    <3>2. PrimerosLibres(n) = s
      BY DEF s
    <3> QED BY <1>2, <1>4, <1>5, <1>7, <3>1, <3>2 DEF Agrandar
  <2> HIDE DEF s
  <2>3. s \in Seq(Libres) /\ Len(s) = n /\ <<>> \o s = s /\ s # <<>>
    <3>1. s \in Seq(Libres) /\ Len(s) = n
      BY <1>1, <2>1
    <3>2. <<>> \o s = s
      BY <3>1, ConcatEmptySeq
    <3> QED BY <1>1, <3>1, <3>2
  <2>4. 0 \in vuelta /\ (c > 1 => 1 \in vuelta /\ i = s[2])
    <3>1. 0 \in vuelta /\ (c > 1 => 1 \in vuelta)
      <4> HIDE DEF vuelta
      <4> QED BY <1>1, <1>4
    <3> HIDE DEF vuelta
    <3> QED BY <3>1
  <2>4a. c > 1 => inicial = 2
    <3> SUFFICES ASSUME c > 1 PROVE inicial = 2
      OBVIOUS
    <3>1. {0, 1} \intersect vuelta = 0 .. 1
      <4> HIDE DEF vuelta
      <4>1. {0, 1} \subseteq vuelta /\ {0, 1} = 0 .. 1
        BY <1>1, <1>4
      <4> QED BY <4>1
    <3>2. Cardinality(0 .. 1) = 2
      <4>1. ASSUME NEW a \in Int, NEW b \in Int, b = a + 1 PROVE Cardinality(a .. b) = 2
        BY <4>1, FS_Interval
      <4>2. PICK a \in Int, b \in Int : a = 0 /\ b = 1
        OBVIOUS
      <4>3. Cardinality(a .. b) = 2
        <5>1. b = a + 1
          BY <4>2
        <5> QED BY <4>1, <5>1
      <4> QED BY <4>2, <4>3
    <3>3. Len(<<>>) = 0
      OBVIOUS
    <3> QED BY <3>1, <3>2, <3>3 DEF Inicial
  <2>4b. CASE UNCHANGED <<fcb, bitmap, palabras>> /\ ~(c <= Punteros + 1)
    BY <2>4b DEF c
  <2>4c. ASSUME c <= Punteros + 1
         PROVE  ~(Len(s) > 2 /\ ~(Anotadas(s, inicial, i) \subseteq DOMAIN palabras))
    <3> SUFFICES ASSUME Len(s) > 2, NEW j \in inicial .. Len(s) - 1
                 PROVE  DirPuntero(i, j - 1) \in DOMAIN palabras
      BY DEF Anotadas
    <3>1. c > 1 /\ inicial = 2 /\ i = s[2] /\ 2 \in 1 .. n
      BY <1>1, <2>3, <2>4, <2>4a
    <3> HIDE DEF i, inicial
    <3>2. j - 1 \in 1 .. Punteros /\ i \in Ids
      <4>1. j - 1 \in 1 .. Punteros
        BY <1>1, <2>3, <2>4c, <3>1, BloquesAssumption
      <4>2. i \in Libres
        BY <2>1, <3>1
      <4> QED BY <4>1, <4>2, LibresFinito
    <3>3. DirPuntero(i, j - 1) \in 0 .. CantBloques * Punteros - 1
      BY <3>2, EntradaDentro, PalabrasDentro
    <3> QED BY <3>3 DEF TypeOK
  <2>4d. Legible(f)
    BY <1>2 DEF Legible
  <2>4e. \/ UNCHANGED <<fcb, bitmap, palabras>> /\ ~(c <= Punteros + 1)
         \/ /\ bitmap' = Ocupar(s)
            /\ palabras' = IF Len(s) > 2 THEN Anotar(s, inicial, i) ELSE palabras
            /\ fcb' = [fcb EXCEPT ![f] = Fcb(tam, s[1], i)]
            /\ UNCHANGED sana
    <3> HIDE DEF i, inicial, vuelta
    <3> QED BY <2>2, <2>3, <2>4, <2>4c, <2>4d
  <2> DEFINE Efecto(t, x) ==
               /\ UNCHANGED sana
               /\ t \in [1 .. n -> Libres]
               /\ \A a, b \in 1 .. n : a < b => t[a] < t[b]
               /\ c > 1 => x = t[2]
               /\ fcb' = [fcb EXCEPT ![f] = Fcb(tam, t[1], x)]
               /\ bitmap' = bitmap \union {t[a] : a \in 1 .. n}
               /\ palabras' =
                    [w \in DOMAIN palabras |->
                       IF w - x * Punteros + 1 \in 1 .. c - 1
                       THEN Numero(t[w - x * Punteros + 3]) ELSE palabras[w]]
  <2> SUFFICES ASSUME /\ bitmap' = Ocupar(s)
                      /\ palabras' = IF Len(s) > 2 THEN Anotar(s, inicial, i) ELSE palabras
                      /\ fcb' = [fcb EXCEPT ![f] = Fcb(tam, s[1], i)]
                      /\ UNCHANGED sana
               PROVE  \E t, x : Efecto(t, x)
    <3> HIDE DEF i, inicial, vuelta
    <3> QED BY <2>4b, <2>4e DEF n, c
  <2>5. bitmap' = bitmap \union {s[a] : a \in 1 .. n}
    BY <2>1, <2>3 DEF Ocupar, ToSet
  <2>7. palabras' = [w \in DOMAIN palabras |->
                       IF w - i * Punteros + 1 \in 1 .. c - 1
                       THEN Numero(s[w - i * Punteros + 3]) ELSE palabras[w]]
    <3>1. CASE c = 1
      <4>1. palabras' = palabras /\ 1 .. c - 1 = {}
        <5> HIDE DEF inicial, i, vuelta
        <5> QED BY <1>1, <2>3, <3>1
      <4> HIDE DEF i
      <4> QED BY <4>1 DEF TypeOK
    <3>2. CASE c > 1
      <4>1. inicial = 2 /\ palabras' = Anotar(s, inicial, i)
        <5>1. Len(s) > 2
          BY <1>1, <2>3, <3>2
        <5> HIDE DEF inicial, i
        <5> QED BY <2>4a, <3>2, <5>1
      <4>2. ASSUME NEW w \in DOMAIN palabras
            PROVE  Anotar(s, 2, i)[w] =
                      IF w - i * Punteros + 1 \in 1 .. c - 1
                      THEN Numero(s[w - i * Punteros + 3]) ELSE palabras[w]
        <5>0. i \in Nat /\ w \in Int /\ i * Punteros \in Int
          <6>1. i \in Libres
            BY <1>1, <2>1, <2>4, <3>2
          <6>2. i \in Nat
            BY <6>1, LibresFinito
          <6> QED BY <6>2, BloquesAssumption DEF TypeOK
        <5> HIDE DEF i
        <5>1. Anotar(s, 2, i)[w] =
                IF w - i * Punteros + 2 \in 2 .. Len(s) - 1
                THEN Numero(s[w - i * Punteros + 2 + 1]) ELSE palabras[w]
          BY DEF Anotar
        <5> DEFINE z == i * Punteros
        <5>2. z \in Int /\ w \in Int
          BY <5>0
        <5> HIDE DEF z
        <5>3. /\ w - z + 2 + 1 = w - z + 3
              /\ w - z + 2 \in 2 .. Len(s) - 1 <=> w - z + 1 \in 1 .. c - 1
          BY <1>1, <2>3, <3>2, <5>2
        <5> QED BY <5>1, <5>3 DEF z
      <4>3. Anotar(s, 2, i) = [w \in DOMAIN palabras |-> Anotar(s, 2, i)[w]]
        BY DEF Anotar
      <4> HIDE DEF i, inicial
      <4> QED BY <4>1, <4>2, <4>3
    <3> QED BY <1>1, <3>1, <3>2
  <2> HIDE DEF i, inicial, vuelta
  <2>8. Efecto(s, i)
    BY <2>1, <2>4, <2>5, <2>7
  <2> HIDE DEF Efecto
  <2> QED BY <2>8
<1> QED BY <1>6, <1>7

\* Growth from nothing takes free blocks, each one for one part, and writes only
\* in the one that becomes the indirect block.
LEMMA BloquesNacer ==
    ASSUME BloquesInv, TypeOK', NEW f \in DOMAIN fcb, NEW tam \in Nat, fcb[f].tam = 0, tam > 0,
           Cant(tam) <= Punteros + 1, Agrandar(f, tam),
           UNCHANGED escrito \/ escrito'[1] = Nadie
    PROVE  BloquesInv' /\ (UNCHANGED sana \/ Tantos(Cant(tam)) > Cardinality(Libres))
<1>0. TypeOK /\ Anotados /\ Unicos /\ Fiel
  BY DEF BloquesInv
<1>1. CASE /\ UNCHANGED <<fcb, bitmap, palabras>>
           /\ Cant(tam) <= Punteros + 1 => Tantos(Cant(tam)) > Cardinality(Libres)
  <2>1. \A g \in DOMAIN fcb : fcb[g].tam \in Nat
    BY <1>0 DEF TypeOK
  <2>2. \A g \in DOMAIN fcb : fcb'[g].tam >= fcb[g].tam
    BY <1>1, <2>1
  <2> QED BY <1>1, <2>2, MismosBloques
<1> DEFINE c == Cant(tam)
           n == Tantos(c)
           K == {k \in -1 .. c - 1 : k = -1 => c > 1}
           R == {<<f, k>> : k \in K}
<1>2. ASSUME NEW s, NEW i, UNCHANGED sana,
             s \in [1 .. n -> Libres], \A a, b \in 1 .. n : a < b => s[a] < s[b],
             c > 1 => i = s[2],
             fcb' = [fcb EXCEPT ![f] = Fcb(tam, s[1], i)],
             bitmap' = bitmap \union {s[a] : a \in 1 .. n},
             palabras' = [w \in DOMAIN palabras |->
                            IF w - i * Punteros + 1 \in 1 .. c - 1
                            THEN Numero(s[w - i * Punteros + 3]) ELSE palabras[w]]
      PROVE  BloquesInv' /\ UNCHANGED sana
  <2>1. /\ c \in Nat /\ c >= 1 /\ c <= Punteros + 1 /\ Punteros \in Nat
        /\ n = IF c > 1 THEN c + 1 ELSE 1
    BY Cantidad, BloquesAssumption DEF Tantos
  <2> HIDE DEF c, n
  <2>2. /\ DOMAIN fcb' = DOMAIN fcb
        /\ \A g \in DOMAIN fcb \ {f} : fcb'[g] = fcb[g]
        /\ fcb'[f].tam = tam /\ fcb'[f].directo = s[1] /\ fcb'[f].indirecto = i
        /\ i \in Ids /\ i \in Nat
    <3>1. /\ DOMAIN fcb' = DOMAIN fcb
          /\ \A g \in DOMAIN fcb \ {f} : fcb'[g] = fcb[g]
          /\ fcb'[f] = Fcb(tam, s[1], i)
      BY <1>2
    <3>2. fcb'[f].tam = tam /\ fcb'[f].directo = s[1] /\ fcb'[f].indirecto = i
      BY <3>1 DEF Fcb
    <3>3. i \in Ids
      BY <3>1, <3>2 DEF TypeOK
    <3> QED BY <3>1, <3>2, <3>3, LibresFinito
  <2>3. \A a \in 1 .. n : s[a] \in Ids /\ s[a] \in Nat /\ s[a] \notin bitmap
    BY <1>2, LibresFinito DEF Libres
  <2>3a. c > 1 => i \notin bitmap
    <3>1. c > 1 => 2 \in 1 .. n
      BY <2>1
    <3>2. c > 1 => s[2] \notin bitmap
      BY <2>3, <3>1
    <3> QED BY <1>2, <3>2
  <2>4. ASSUME NEW w \in DOMAIN palabras, w \notin Palabras(i) \/ ~(c > 1)
        PROVE  palabras'[w] = palabras[w]
    <3>1. w \in Int /\ i * Punteros \in Int /\ (i + 1) * Punteros = i * Punteros + Punteros
      BY <1>0, <2>1, <2>2 DEF TypeOK
    <3> DEFINE z == i * Punteros
    <3>2. z \in Int /\ Palabras(i) = z .. z + Punteros - 1
      <4> DEFINE y == (i + 1) * Punteros
      <4>1. z \in Int /\ y = z + Punteros
        BY <3>1
      <4>2. Palabras(i) = z .. y - 1
        BY DEF Palabras
      <4> HIDE DEF y, z
      <4> QED BY <2>1, <4>1, <4>2
    <3> HIDE DEF z
    <3>3. ~(w - z + 1 \in 1 .. c - 1)
      BY <2>1, <2>4, <3>1, <3>2
    <3> QED BY <1>2, <3>3 DEF z
  <2>5. ASSUME NEW k \in 1 .. c - 1
        PROVE  BloqueIndirecto(f, k)' = s[k + 2]
    <3> DEFINE w == DirPuntero(i, k)
    <3>1. k \in 1 .. Punteros
      BY <2>1
    <3>2. w \in Palabras(i) /\ w \in DOMAIN palabras /\ w \in DOMAIN palabras'
      <4>1. w \in Palabras(i)
        BY <2>2, <3>1, EntradaDentro
      <4>2. w \in 0 .. CantBloques * Punteros - 1
        BY <2>2, <4>1, PalabrasDentro
      <4> QED BY <1>0, <4>1, <4>2 DEF TypeOK
    <3>3. w - i * Punteros + 1 = k /\ w - i * Punteros + 3 = k + 2
      <4>1. i * Punteros \in Int
        BY <2>1, <2>2
      <4> QED BY <2>1, <4>1 DEF DirPuntero
    <3> HIDE DEF w
    <3>4. palabras'[w] = Numero(s[k + 2])
      BY <1>2, <3>2, <3>3
    <3>5. Numero(s[k + 2])[2] = s[k + 2]
      BY DEF Numero
    <3> QED BY <2>2, <3>2, <3>4, <3>5 DEF BloqueIndirecto, w
  <2>6. Partes(f) = {} /\ Partes(f)' = K /\ \A g \in DOMAIN fcb \ {f} : Partes(g)' = Partes(g)
    <3>1. Cant(0) = 0
      BY Cantidad
    <3>2. Partes(f) = {}
      BY <3>1 DEF Partes
    <3>3. Partes(f)' = K
      BY <2>2 DEF Partes, c
    <3> QED BY <2>2, <3>2, <3>3 DEF Partes
  <2>7. ASSUME NEW k \in K
        PROVE  Turno(k) \in 1 .. n /\ BloqueDeParte(<<f, k>>)' = s[Turno(k)]
    <3>1. CASE k = -1
      <4>1. Turno(k) = 2 /\ c > 1
        BY <3>1, <2>7 DEF Turno
      <4> QED BY <1>2, <2>1, <2>2, <3>1, <4>1 DEF BloqueDeParte
    <3>2. CASE k = 0
      BY <2>1, <2>2, <3>2 DEF BloqueDeParte, BloqueDe, Turno
    <3>3. CASE k \in 1 .. c - 1
      <4>1. Turno(k) = k + 2 /\ k # -1 /\ k # 0 /\ k + 2 \in 1 .. n
        BY <2>1, <3>3 DEF Turno
      <4> QED BY <2>5, <3>3, <4>1 DEF BloqueDeParte, BloqueDe
    <3> QED BY <2>1, <3>1, <3>2, <3>3
  <2>8. \A a \in 1 .. n : \E k \in K : Turno(k) = a
    <3> SUFFICES ASSUME NEW a \in 1 .. n PROVE \E k \in K : Turno(k) = a
      OBVIOUS
    <3>1. CASE a = 1
      <4>1. 0 \in K /\ Turno(0) = 1
        BY <2>1 DEF Turno
      <4> QED BY <3>1, <4>1
    <3>2. CASE a = 2
      <4>1. -1 \in K /\ Turno(-1) = 2
        BY <2>1, <3>2 DEF Turno
      <4> QED BY <3>2, <4>1
    <3>3. CASE a > 2
      <4>1. a - 2 \in K /\ Turno(a - 2) = a
        BY <2>1, <3>3 DEF Turno
      <4> QED BY <4>1
    <3> QED BY <2>1, <3>1, <3>2, <3>3
  <2>9. \A j, k \in K : Turno(j) = Turno(k) => j = k
    BY <2>1 DEF Turno
  <2>10. \A a, b \in 1 .. n : a # b => s[a] # s[b]
    <3> SUFFICES ASSUME NEW a \in 1 .. n, NEW b \in 1 .. n, a # b PROVE s[a] # s[b]
      OBVIOUS
    <3>1. a < b \/ b < a
      BY <2>1
    <3>2. s[a] < s[b] \/ s[b] < s[a]
      BY <1>2, <3>1
    <3> QED BY <2>3, <3>2
  <2>11. ASSUME NEW g \in DOMAIN fcb, NEW k \in Partes(g)
         PROVE  g # f /\ BloqueDeParte(<<g, k>>)' = BloqueDeParte(<<g, k>>)
    <3>1. g # f /\ fcb'[g] = fcb[g]
      BY <2>2, <2>6
    <3>2. ASSUME k > 0, NEW w \in Palabras(fcb[g].indirecto) PROVE palabras'[w] = palabras[w]
      <4>1. /\ -1 \in Partes(g) /\ fcb[g].indirecto \in Ids
            /\ BloqueDeParte(<<g, -1>>) = fcb[g].indirecto
        <5>1. Cant(fcb[g].tam) > 1
          BY <1>0, <3>2, QueParte
        <5> QED BY <1>0, <5>1, QueParte DEF TypeOK, BloqueDeParte
      <4>2. fcb[g].indirecto \in bitmap
        BY <1>0, <4>1, PartesDe DEF Fiel
      <4>3. c > 1 => w \notin Palabras(i)
        <5>1. c > 1 => i \notin bitmap
          BY <2>3a
        <5>2. i \in Nat /\ fcb[g].indirecto \in Nat
          BY <2>2, <4>1, LibresFinito
        <5>3. c > 1 => i # fcb[g].indirecto
          BY <4>2, <5>1
        <5> QED BY <3>2, <5>2, <5>3, PalabrasDistintas
      <4>4. w \in DOMAIN palabras
        BY <1>0, <3>2, <4>1, PalabrasDentro DEF TypeOK
      <4> QED BY <2>4, <4>3, <4>4
    <3> QED BY <1>0, <3>1, <3>2, MismoBloque
  <2>12. Unicos' /\ Fiel'
    <3>1. TodasLasPartes' = TodasLasPartes \union R
      <4>1. ASSUME NEW r
            PROVE  r \in TodasLasPartes' <=> r \in TodasLasPartes \/ r \in R
        <5>1. r \in TodasLasPartes' <=> \E g \in DOMAIN fcb : \E k \in Partes(g)' : r = <<g, k>>
          BY <2>2 DEF TodasLasPartes
        <5> HIDE DEF K
        <5> QED BY <2>6, <5>1, PartesDe
      <4> QED BY <4>1
    <3>2. \A r \in TodasLasPartes : r \notin R /\ BloqueDeParte(r)' = BloqueDeParte(r)
      BY <2>11, PartesDe
    <3>3. \A r \in R : BloqueDeParte(r)' \notin bitmap
      BY <2>3, <2>7
    <3>4. \A r, q \in R : r # q => BloqueDeParte(r)' # BloqueDeParte(q)'
      BY <2>7, <2>9, <2>10
    <3>5. {s[a] : a \in 1 .. n} = {BloqueDeParte(r)' : r \in R}
      <4> HIDE DEF K
      <4>1. \A k \in K : BloqueDeParte(<<f, k>>)' \in {s[a] : a \in 1 .. n}
        BY <2>7
      <4>2. ASSUME NEW a \in 1 .. n PROVE \E k \in K : s[a] = BloqueDeParte(<<f, k>>)'
        <5>1. PICK k \in K : Turno(k) = a
          BY <2>8
        <5> QED BY <2>7, <5>1
      <4>3. ASSUME NEW r \in R PROVE BloqueDeParte(r)' \in {s[a] : a \in 1 .. n}
        <5>1. PICK k \in K : r = <<f, k>>
          OBVIOUS
        <5> QED BY <4>1, <5>1
      <4>4. ASSUME NEW a \in 1 .. n PROVE \E r \in R : s[a] = BloqueDeParte(r)'
        <5>1. PICK k \in K : s[a] = BloqueDeParte(<<f, k>>)'
          BY <4>2
        <5>2. <<f, k>> \in R
          OBVIOUS
        <5> QED BY <5>1, <5>2
      <4> HIDE DEF R
      <4> QED BY <4>3, <4>4
    <3>6. bitmap' = bitmap \union {BloqueDeParte(r)' : r \in R}
      BY <1>2, <3>5
    <3> HIDE DEF R
    <3> QED BY <1>0, <3>1, <3>2, <3>3, <3>4, <3>6, PartesAgregadas
  <2>13. Anotados'
    <3>1. ASSUME NEW g \in DOMAIN fcb, g # f
          PROVE  /\ Cant(fcb'[g].tam) <= Punteros + 1
                 /\ \A k \in 1 .. Cant(fcb'[g].tam) - 1 : BloqueIndirecto(g, k)' \in Ids \ {0}
      <4>1. fcb'[g] = fcb[g]
        BY <2>2, <3>1
      <4>2. ASSUME NEW k \in 1 .. Cant(fcb[g].tam) - 1
            PROVE  BloqueIndirecto(g, k)' = BloqueIndirecto(g, k)
        <5>1. k \in Partes(g) /\ k # -1 /\ k # 0
          BY <1>0, QueParte
        <5> QED BY <2>11, <5>1 DEF BloqueDeParte, BloqueDe
      <4> QED BY <1>0, <4>1, <4>2 DEF Anotados
    <3>2. ASSUME NEW k \in 1 .. c - 1 PROVE BloqueIndirecto(f, k)' \in Ids \ {0}
      <4>1. 1 \in 1 .. n /\ k + 2 \in 1 .. n /\ 1 < k + 2
        BY <2>1
      <4>2. s[1] < s[k + 2]
        BY <1>2, <4>1
      <4>3. s[k + 2] # 0 /\ s[k + 2] \in Ids
        BY <2>3, <4>1, <4>2
      <4> QED BY <2>5, <4>3
    <3> QED BY <2>1, <2>2, <3>1, <3>2 DEF Anotados, c
  <2>14. DatosEnSuLugar'
    <3> SUFFICES ASSUME escrito'[1] # Nadie PROVE DatosEnSuLugar'
      BY DEF DatosEnSuLugar
    <3>0. PICK g, k : g = escrito[1] /\ k = escrito[2]
      OBVIOUS
    <3>1. /\ escrito' = escrito /\ g \in DOMAIN fcb
          /\ (k + 1) * TamBloque <= fcb[g].tam
          /\ \A w \in Palabras(BloqueDe(g, k)) : palabras[w] = escrito
      BY <3>0 DEF BloquesInv, DatosEnSuLugar
    <3>2. k \in Nat /\ fcb[g].tam \in Nat
      BY <1>0, <3>0, <3>1 DEF TypeOK
    <3>3. k \in Partes(g) /\ k # -1
      <4>1. k < Cant(fcb[g].tam)
        BY <3>1, <3>2, BloqueEntero
      <4> QED BY <1>0, <3>1, <3>2, <4>1, QueParte
    <3>4. /\ g # f /\ fcb'[g] = fcb[g]
          /\ BloqueDe(g, k)' = BloqueDe(g, k) /\ BloqueDe(g, k) = BloqueDeParte(<<g, k>>)
      BY <2>2, <2>11, <3>1, <3>3 DEF BloqueDeParte
    <3>5. BloqueDe(g, k) \in bitmap /\ BloqueDe(g, k) \in Ids
      BY <1>0, <3>1, <3>3, <3>4, BloqueValido, PartesDe DEF Fiel
    <3>6. ASSUME NEW w \in Palabras(BloqueDe(g, k)) PROVE palabras'[w] = palabras[w]
      <4>1. c > 1 => i # BloqueDe(g, k)
        BY <2>3a, <3>5
      <4>2. c > 1 => w \notin Palabras(i)
        BY <2>2, <3>5, <3>6, <4>1, PalabrasDistintas, LibresFinito
      <4>3. w \in DOMAIN palabras
        BY <1>0, <3>5, <3>6, PalabrasDentro DEF TypeOK
      <4> QED BY <2>4, <4>2, <4>3
    <3> QED BY <2>2, <3>0, <3>1, <3>4, <3>6 DEF DatosEnSuLugar
  <2> QED BY <1>2, <2>12, <2>13, <2>14 DEF BloquesInv
<1> QED BY <1>0, <1>1, <1>2, EfectoNacer

\* Nothing has blocks yet.
LEMMA BloquesInicio == Init => BloquesInv
<1> SUFFICES ASSUME Init PROVE BloquesInv
  OBVIOUS
<1>1. PICK viejos \in SUBSET Archivos : fcb = [f \in viejos |-> Fcb(0, 0, 0)]
  BY DEF Init
<1>2. TypeOK
  BY TipoInicio
<1>3. Cant(0) = 0 /\ 1 .. 0 - 1 = {} /\ 0 <= Punteros + 1
  BY Cantidad, BloquesAssumption
<1>4. \A f \in DOMAIN fcb : Cant(fcb[f].tam) = 0
  BY <1>1, <1>3 DEF Fcb
<1>5. Anotados
  BY <1>3, <1>4 DEF Anotados
<1>6. TodasLasPartes = {}
  <2>1. \A f \in DOMAIN fcb : Partes(f) = {}
    BY <1>4 DEF Partes
  <2> QED BY <2>1, PartesDe
<1>7. Unicos /\ Fiel
  BY <1>6 DEF Unicos, Fiel, Init
<1>8. DatosEnSuLugar
  BY DEF DatosEnSuLugar, Init, Dato
<1> QED BY <1>2, <1>5, <1>7, <1>8 DEF BloquesInv

LEMMA BloquesAbrir ==
    ASSUME BloquesInv, TypeOK', NEW f \in Archivos, AbrirArchivo(f)
    PROVE  BloquesInv'
<1>1. UNCHANGED <<fcb, bitmap, palabras, escrito>>
  BY DEF AbrirArchivo
<1>2. \A g \in DOMAIN fcb : fcb[g].tam >= fcb[g].tam
  BY DEF BloquesInv, TypeOK
<1> QED BY <1>1, <1>2, MismosBloques

\* The three truncations of BloquesEnteros, each with what happens to the block
\* that the model follows.
LEMMA BloquesModificar ==
    ASSUME CambiosEnteros, BloquesInv, TypeOK', NEW f \in Archivos, ModificarTamanio(f)
    PROVE  BloquesInv' /\ (UNCHANGED sana \/ Falta)
<1>1. PICK c \in Cambios :
        /\ c[1] = fcb[f].tam
        /\ \/ c[1] < c[2] /\ Agrandar(f, c[2])
           \/ c[1] > c[2] /\ Achicar(f, c[2])
        /\ escrito' = IF escrito[1] = f /\ c[2] < (escrito[2] + 1) * TamBloque
                      THEN Dato(Nadie, 1) ELSE escrito
  BY DEF ModificarTamanio
<1>2. c[2] \in Nat /\ c = <<c[1], c[2]>>
  BY BloquesAssumption
<1>3. f \in DOMAIN fcb /\ fcb[f].tam \in Nat
  BY DEF BloquesInv, TypeOK, ModificarTamanio
<1>4. UNCHANGED escrito \/ escrito'[1] = Nadie
  BY <1>1 DEF Dato
<1>5. BloquesEnteros(c)
  BY DEF CambiosEnteros
<1>6. CASE c[1] > c[2] /\ Achicar(f, c[2])
  <2>1. BloquesEnteros(<<fcb[f].tam, c[2]>>)
    BY <1>1, <1>2, <1>5
  <2> QED BY <1>1, <1>2, <1>3, <1>6, <2>1, BloquesAchicar
<1>7. CASE c[1] < c[2] /\ Agrandar(f, c[2])
  <2>1. CASE c[1] = 0
    <3>1. Cant(c[2]) <= Punteros + 1
      <4>1. ASSUME Cant(0) = Cant(c[2]) PROVE FALSE
        BY <1>1, <1>2, <1>7, <2>1, <4>1, Cantidad
      <4> QED BY <1>1, <1>2, <1>3, <1>5, <1>7, <2>1, <4>1 DEF BloquesEnteros
    <3>2. c[2] > 0
      BY <1>7, <2>1
    <3>3. BloquesInv' /\ (UNCHANGED sana \/ Tantos(Cant(c[2])) > Cardinality(Libres))
      BY <1>1, <1>2, <1>3, <1>4, <1>7, <2>1, <3>1, <3>2, BloquesNacer
    <3>4. Tiene(c[2]) - Tiene(c[1]) = Tantos(Cant(c[2]))
      BY <1>2, <2>1, <3>2, LosQueTiene
    <3>5. f \in abiertos /\ c[1] < c[2]
      BY <1>7 DEF ModificarTamanio
    <3> QED BY <1>1, <3>3, <3>4, <3>5 DEF Falta
  <2>2. CASE c[1] # 0
    <3>1. Cant(fcb[f].tam) = Cant(c[2])
      BY <1>1, <1>2, <1>3, <1>5, <1>7, <2>2 DEF BloquesEnteros
    <3> QED BY <1>1, <1>2, <1>3, <1>4, <1>7, <3>1, BloquesCrecer
  <2> QED BY <2>1, <2>2
<1> QED BY <1>1, <1>6, <1>7

LEMMA BloquesPaso ==
    CambiosEnteros /\ BloquesInv /\ [Next]_vars => BloquesInv' /\ (UNCHANGED sana \/ Falta)
<1> SUFFICES ASSUME CambiosEnteros, BloquesInv, [Next]_vars
             PROVE  BloquesInv' /\ (UNCHANGED sana \/ Falta)
  OBVIOUS
<1>0. TypeOK'
  BY TipoPaso DEF BloquesInv, NextConReinicio
<1>1. CASE UNCHANGED vars
  <2>1. \A g \in DOMAIN fcb : fcb[g].tam >= fcb[g].tam
    BY DEF BloquesInv, TypeOK
  <2>2. UNCHANGED <<fcb, bitmap, palabras, escrito, sana>>
    BY <1>1 DEF vars
  <2> QED BY <1>0, <2>1, <2>2, MismosBloques
<1>2. ASSUME NEW f \in Archivos, AbrirArchivo(f) PROVE BloquesInv' /\ UNCHANGED sana
  BY <1>0, <1>2, BloquesAbrir DEF AbrirArchivo
<1>3. ASSUME NEW f \in Archivos, CrearArchivo(f) PROVE BloquesInv' /\ UNCHANGED sana
  BY <1>0, <1>3, BloquesCrearArchivo DEF CrearArchivo
<1>4. ASSUME NEW f \in Archivos, ModificarTamanio(f)
      PROVE  BloquesInv' /\ (UNCHANGED sana \/ Falta)
  BY <1>0, <1>4, BloquesModificar
<1>5. ASSUME NEW f \in Archivos, EscribirArchivo(f) PROVE BloquesInv' /\ UNCHANGED sana
  BY <1>0, <1>5, BloquesEscribir
<1> QED BY <1>1, <1>2, <1>3, <1>4, <1>5 DEF Next

LEMMA BloquesSiempre == CambiosEnteros => (Spec => []BloquesInv)
<1> SUFFICES ASSUME CambiosEnteros PROVE Spec => []BloquesInv
  OBVIOUS
<1>1. BloquesInv /\ [Next]_vars => BloquesInv'
  BY BloquesPaso
<1> QED BY <1>1, BloquesInicio, PTL DEF Spec

\* While the truncations are of BloquesEnteros, no block is in two files nor
\* twice in one: the search for free blocks gives each one once, and the entries
\* that growth writes are all of the file that grows (agrandar_archivo,
\* obtener_primer_bloque_libre, escribir_bloques_indirectos).
THEOREM BloquesSinCompartir == CambiosEnteros => (Spec => []SinBloquesCompartidos)
<1>1. BloquesInv => SinBloquesCompartidos
  BY DEF BloquesInv, Unicos, SinBloquesCompartidos
<1> QED BY <1>1, BloquesSiempre, PTL

\* And the bitmap is the set of the blocks of the files: shrinking frees the
\* blocks that the file loses and no other (achicar_archivo, setear_bit_en_bitmap).
THEOREM BitmapCorrecto == CambiosEnteros => (Spec => []BitmapFiel)
<1>1. BloquesInv => BitmapFiel
  BY DEF BloquesInv, Fiel, BitmapFiel
<1> QED BY <1>1, BloquesSiempre, PTL

\* And the only request that goes wrong is growth that needs more blocks than are
\* free: no other one takes the block -1, nor reads or writes a word outside the
\* file of blocks, whichever block is the indirect one (leer_bloques_indirectos,
\* escribir_bloques_indirectos, obtener_primer_bloque_libre).
THEOREM FaltaDeBloquesCorrecta == CambiosEnteros => (Spec => SoloPorFaltaDeBloques)
<1> SUFFICES ASSUME CambiosEnteros PROVE Spec => SoloPorFaltaDeBloques
  OBVIOUS
<1>1. BloquesInv /\ [Next]_vars => [sana /\ ~sana' => Falta]_vars
  BY BloquesPaso
<1>2. Spec => [][sana /\ ~sana' => Falta]_vars
  BY <1>1, BloquesSiempre, PTL DEF Spec
<1> QED BY <1>2 DEF SoloPorFaltaDeBloques, Falta

\* And what a program wrote in a block is there, and is found, until the file
\* loses the block: no block of data is the indirect block of a file, nor is a
\* free one that becomes one (escribir_datos, escribir_bloques_indirectos).
THEOREM DatosConservados == CambiosEnteros => (Spec => []BloqueIntacto)
<1>1. BloquesInv => BloqueIntacto
  BY DEF BloquesInv, DatosEnSuLugar, BloqueIntacto, Palabras
<1> QED BY <1>1, BloquesSiempre, PTL

-----------------------------------------------------------------------------
(* Sequences put one after the other.                                          *)

\* What is not empty has a least element: induction, for a set.
LEMMA Primero ==
    ASSUME NEW S \in SUBSET Nat, S # {}
    PROVE  \E m \in S : \A k \in S : m <= k
<1> DEFINE R == OpToRel(<, Nat)
<1>1. IsWellFoundedOn(R, Nat)
  BY NatLessThanWellFounded
<1>2. \A x, y \in Nat : <<y, x>> \in R <=> y < x
  BY DEF OpToRel
<1> HIDE DEF R
<1>3. PICK m \in S : \A k \in S : ~(<<k, m>> \in R)
  BY <1>1, WFMin
<1>4. \A k \in S : ~(k < m)
  <2>1. \A k \in S : k \in Nat /\ m \in Nat
    OBVIOUS
  <2> QED BY <1>2, <1>3, <2>1
<1>5. \A k \in S : k \in Int /\ m \in Int
  OBVIOUS
<1> QED BY <1>4, <1>5

\* h[i] is what the first i sequences of s make.
Acumula(h, s, N) ==
    h = [i \in 1 .. N |-> h[i]] /\ h[1] = s[1] /\ \A i \in 2 .. N : h[i] = h[i - 1] \o s[i]

LEMMA Concatenadas ==
    ASSUME NEW N \in Nat \ {0}, NEW s, Len(s) = N, NEW h, Acumula(h, s, N)
    PROVE  FlattenSeq(s) = h[N]
<1>0. h = [i \in 1 .. N |-> h[i]] /\ h[1] = s[1] /\ \A i \in 2 .. N : h[i] = h[i - 1] \o s[i]
  BY DEF Acumula
<1> DEFINE g == CHOOSE g : g = [i \in 1 .. N |-> IF i = 1 THEN s[i] ELSE g[i - 1] \o s[i]]
<1>1. FlattenSeq(s) = g[N]
  BY DEF FlattenSeq
<1>2. h = [i \in 1 .. N |-> IF i = 1 THEN s[i] ELSE h[i - 1] \o s[i]]
  <2>1. \A i \in 1 .. N : h[i] = IF i = 1 THEN s[i] ELSE h[i - 1] \o s[i]
    <3>1. \A i \in 1 .. N : i = 1 \/ i \in 2 .. N
      OBVIOUS
    <3> QED BY <1>0, <3>1
  <2> QED BY <1>0, <2>1
<1>3. g = [i \in 1 .. N |-> IF i = 1 THEN s[i] ELSE g[i - 1] \o s[i]]
  BY <1>2
<1> HIDE DEF g
<1> DEFINE D == {i \in 1 .. N : g[i] # h[i]}
<1>4. D = {}
  <2> SUFFICES ASSUME D # {} PROVE FALSE
    OBVIOUS
  <2>1. PICK m \in D : \A k \in D : m <= k
    <3>1. D \in SUBSET Nat
      OBVIOUS
    <3> HIDE DEF D
    <3> QED BY <3>1, Primero
  <2>2. m \in 1 .. N /\ g[m] # h[m]
    BY <2>1
  <2>3. m # 1
    BY <1>0, <1>3, <2>2
  <2>4. m - 1 \in 1 .. N /\ m - 1 \notin D /\ m \in 2 .. N
    BY <2>1, <2>2, <2>3
  <2>5. g[m - 1] = h[m - 1]
    BY <2>4
  <2>6. g[m] = g[m - 1] \o s[m]
    BY <1>3, <2>2, <2>3
  <2> QED BY <1>0, <2>2, <2>4, <2>5, <2>6
<1>5. N \in 1 .. N
  OBVIOUS
<1> QED BY <1>1, <1>4, <1>5

\* Pieces of a sequence that go on where the one before ended make the sequence.
Principio(L, m) == [k \in 1 .. m |-> L[k]]
Siguen(s, fin, L, N) ==
    /\ Len(s) = N /\ fin[0] = 0 /\ \A i \in 1 .. N : fin[i - 1] <= fin[i]
    /\ \A i \in 1 .. N : s[i] = [k \in 1 .. fin[i] - fin[i - 1] |-> L[fin[i - 1] + k]]

LEMMA Pedazos ==
    ASSUME NEW N \in Nat \ {0}, NEW fin \in [0 .. N -> Nat],
           NEW V, NEW L \in [Nat -> V], NEW s, Siguen(s, fin, L, N)
    PROVE  FlattenSeq(s) = Principio(L, fin[N])
<1>0. /\ Len(s) = N /\ fin[0] = 0 /\ \A i \in 1 .. N : fin[i - 1] <= fin[i]
      /\ \A i \in 1 .. N : s[i] = [k \in 1 .. fin[i] - fin[i - 1] |-> L[fin[i - 1] + k]]
  BY DEF Siguen
<1> DEFINE h == [i \in 1 .. N |-> [k \in 1 .. fin[i] |-> L[k]]]
<1>1. /\ fin[0] = 0 /\ \A i \in 1 .. N : fin[i - 1] <= fin[i]
      /\ \A i \in 1 .. N : i - 1 \in 0 .. N /\ fin[i] \in Nat /\ fin[i - 1] \in Nat
  BY <1>0
<1>2. h[1] = s[1]
  <2>1. s[1] = [k \in 1 .. fin[1] |-> L[0 + k]]
    <3>1. 1 \in 1 .. N /\ 1 - 1 = 0 /\ fin[1] - 0 = fin[1]
      BY <1>1
    <3>2. s[1] = [k \in 1 .. fin[1] - fin[1 - 1] |-> L[fin[1 - 1] + k]]
      BY <1>0, <3>1
    <3> QED BY <1>1, <3>1, <3>2
  <2>2. \A k \in 1 .. fin[1] : 0 + k = k
    OBVIOUS
  <2>3. h[1] = [k \in 1 .. fin[1] |-> L[k]]
    <3>1. 1 \in 1 .. N
      OBVIOUS
    <3> QED BY <3>1
  <2> QED BY <2>1, <2>2, <2>3
<1>3. ASSUME NEW i \in 2 .. N PROVE h[i] = h[i - 1] \o s[i]
  <2>2. i - 1 \in 1 .. N /\ i \in 1 .. N
    OBVIOUS
  <2>1. PICK a \in Nat, b \in Nat : a = fin[i - 1] /\ b = fin[i] /\ a <= b
    BY <1>1, <2>2
  <2>3. /\ h[i] = [k \in 1 .. b |-> L[k]] /\ h[i - 1] = [k \in 1 .. a |-> L[k]]
        /\ s[i] = [k \in 1 .. b - a |-> L[a + k]]
    BY <1>0, <2>1, <2>2
  <2>4. [k \in 1 .. b |-> L[k]] = [k \in 1 .. a |-> L[k]] \o [k \in 1 .. b - a |-> L[a + k]]
    <3> DEFINE x == [k \in 1 .. a |-> L[k]]
               y == [k \in 1 .. b - a |-> L[a + k]]
    <3>1. x \in Seq(V) /\ y \in Seq(V) /\ Len(x) = a /\ Len(y) = b - a
      <4>1. x \in [1 .. a -> V]
        OBVIOUS
      <4>2. y \in [1 .. b - a -> V]
        <5>1. ASSUME NEW k \in 1 .. b - a PROVE a + k \in Nat
          <6>1. a \in Nat /\ b \in Nat /\ k \in Int /\ k >= 1
            OBVIOUS
          <6> QED BY <6>1
        <5> QED BY <5>1
      <4>3. \A z, m : m \in Nat /\ z \in [1 .. m -> V] => z \in Seq(V) /\ Len(z) = m
        OBVIOUS
      <4>4. a \in Nat /\ b - a \in Nat
        BY <2>1
      <4> HIDE DEF x, y
      <4> QED BY <4>1, <4>2, <4>3, <4>4
    <3>2. \A k \in 1 .. a : x[k] = L[k]
      OBVIOUS
    <3>3. \A k \in a + 1 .. b : y[k - a] = L[k]
      <4> SUFFICES ASSUME NEW k \in a + 1 .. b PROVE y[k - a] = L[k]
        OBVIOUS
      <4>1. k - a \in 1 .. b - a /\ a + (k - a) = k
        <5>1. a \in Int /\ b \in Int /\ k \in Int
          OBVIOUS
        <5> QED BY <5>1
      <4> QED BY <4>1
    <3> HIDE DEF x, y
    <3>4. /\ x \o y \in Seq(V) /\ Len(x \o y) = b
          /\ \A k \in 1 .. b : (x \o y)[k] = IF k <= a THEN x[k] ELSE y[k - a]
      <4>1. /\ x \o y \in Seq(V) /\ Len(x \o y) = a + (b - a)
            /\ \A k \in 1 .. a + (b - a) : (x \o y)[k] = IF k <= a THEN x[k] ELSE y[k - a]
        <5>1. x \in Seq(V) /\ y \in Seq(V)
          BY <3>1
        <5>2. /\ x \o y \in Seq(V) /\ Len(x \o y) = Len(x) + Len(y)
              /\ \A k \in 1 .. Len(x) + Len(y) :
                    (x \o y)[k] = IF k <= Len(x) THEN x[k] ELSE y[k - Len(x)]
          BY <5>1, ConcatProperties, Zenon
        <5>3. Len(x) = a /\ Len(y) = b - a
          BY <3>1
        <5> QED BY <5>2, <5>3, Zenon
      <4>2. a + (b - a) = b
        BY <2>1
      <4> QED BY <4>1, <4>2
    <3>6. \A k \in 1 .. b : (IF k <= a THEN x[k] ELSE y[k - a]) = L[k]
      <4>1. \A k \in 1 .. b : k \in 1 .. a \/ (~(k <= a) /\ k \in a + 1 .. b)
        BY <2>1
      <4> QED BY <2>1, <3>2, <3>3, <4>1
    <3>7. x \o y = [k \in 1 .. b |-> (x \o y)[k]]
      <4>1. x \o y \in [1 .. b -> V]
        BY <3>4, LenProperties
      <4> QED BY <4>1
    <3> QED BY <3>4, <3>6, <3>7 DEF x, y
  <2> QED BY <2>3, <2>4
<1> HIDE DEF h
<1>4. h = [i \in 1 .. N |-> h[i]] /\ h[N] = [k \in 1 .. fin[N] |-> L[k]]
  BY DEF h
<1>5. FlattenSeq(s) = h[N]
  <2>1. Acumula(h, s, N)
    BY <1>2, <1>3, <1>4 DEF Acumula
  <2> QED BY <1>0, <2>1, Concatenadas
<1> QED BY <1>4, <1>5 DEF Principio
-----------------------------------------------------------------------------
(* The bytes of an access.                                                     *)

\* Which block a byte is in, and where.
LEMMA EnBloque ==
    ASSUME NEW a \in Nat, NEW q \in Nat, q * TamBloque <= a, a < (q + 1) * TamBloque
    PROVE  a \div TamBloque = q /\ a % TamBloque = a - q * TamBloque
<1>1. TamBloque \in Nat \ {0}
  BY BloquesAssumption
<1> DEFINE d == a \div TamBloque
           r == a % TamBloque
<1>2. d \in Nat /\ r \in 0 .. TamBloque - 1 /\ a = TamBloque * d + r
  BY <1>1
<1> HIDE DEF d, r
<1>3. d = q
  <2>1. ASSUME d < q PROVE FALSE
    <3>1. TamBloque * (d + 1) <= TamBloque * q
      BY <1>1, <1>2, <2>1
    <3>2. TamBloque * (d + 1) = TamBloque * d + TamBloque
      BY <1>1, <1>2
    <3> QED BY <1>1, <1>2, <3>1, <3>2
  <2>2. ASSUME q < d PROVE FALSE
    <3>1. TamBloque * (q + 1) <= TamBloque * d
      BY <1>1, <1>2, <2>2
    <3> QED BY <1>1, <1>2, <3>1
  <2> QED BY <1>2, <2>1, <2>2
<1>4. r = a - q * TamBloque
  BY <1>1, <1>2, <1>3
<1> QED BY <1>3, <1>4 DEF d, r

\* And back.
LEMMA SuBloque ==
    ASSUME NEW a \in Nat
    PROVE  /\ a \div TamBloque \in Nat
           /\ (a \div TamBloque) * TamBloque <= a
           /\ a < (a \div TamBloque + 1) * TamBloque
           /\ a % TamBloque = a - (a \div TamBloque) * TamBloque
<1>1. TamBloque \in Nat \ {0}
  BY BloquesAssumption
<1> DEFINE d == a \div TamBloque
           r == a % TamBloque
<1>2. d \in Nat /\ r \in 0 .. TamBloque - 1 /\ a = TamBloque * d + r
  BY <1>1
<1> HIDE DEF d, r
<1>3. (d + 1) * TamBloque = TamBloque * d + TamBloque /\ d * TamBloque = TamBloque * d
  BY <1>1, <1>2
<1> QED BY <1>1, <1>2, <1>3 DEF d, r

\* The blocks of a size: the last one is begun and holds the last byte.
LEMMA CantCotas ==
    ASSUME NEW t \in Nat \ {0}
    PROVE  /\ Cant(t) \in Nat \ {0}
           /\ t <= Cant(t) * TamBloque /\ (Cant(t) - 1) * TamBloque < t
BY BloquesAssumption, Cantidad DEF Cant

\* The list with the direct block, or with none.
LEMMA Lista01 == SetToSeq({0}) = <<0>> /\ SetToSeq({}) = <<>>
<1>1. Cardinality({0}) = 1 /\ Cardinality({}) = 0
  BY FS_Singleton, FS_EmptySet
<1>2. <<0>> \in [1 .. 1 -> {0}] /\ IsInjective(<<0>>)
  BY DEF IsInjective
<1>3. \A f \in [1 .. 1 -> {0}] : f = <<0>>
  OBVIOUS
<1>4. SetToSeq({0}) = CHOOSE f \in [1 .. 1 -> {0}] : IsInjective(f)
  BY <1>1 DEF SetToSeq
<1>5. SetToSeq({0}) = <<0>>
  BY <1>2, <1>3, <1>4
<1>6. <<>> \in [1 .. 0 -> {}] /\ IsInjective(<<>>)
  BY DEF IsInjective
<1>7. \A f \in [1 .. 0 -> {}] : f = <<>>
  OBVIOUS
<1>8. SetToSeq({}) = CHOOSE f \in [1 .. 0 -> {}] : IsInjective(f)
  BY <1>1 DEF SetToSeq
<1> QED BY <1>5, <1>6, <1>7, <1>8
\* The multiples of the size of a block, as far as the accesses need them.
LEMMA Multiplos ==
    ASSUME NEW a \in Nat, NEW b \in Nat
    PROVE  /\ a * TamBloque \in Nat /\ (a + 1) * TamBloque = a * TamBloque + TamBloque
           /\ (a + b) * TamBloque = a * TamBloque + b * TamBloque
           /\ 0 * TamBloque = 0 /\ 1 * TamBloque = TamBloque
           /\ a <= b => a * TamBloque <= b * TamBloque
           /\ a * TamBloque < b * TamBloque => a < b
<1>1. TamBloque \in Nat \ {0}
  BY BloquesAssumption
<1>2. a <= b => a * TamBloque <= b * TamBloque
  BY <1>1
<1>3. b <= a => b * TamBloque <= a * TamBloque
  BY <1>1
<1>4. a * TamBloque < b * TamBloque => a < b
  <2>1. a * TamBloque \in Nat /\ b * TamBloque \in Nat
    BY <1>1
  <2> QED BY <1>3, <2>1
<1> QED BY <1>1, <1>2, <1>4

\* A sequence of numbers in a row, after a first one or none.
LEMMA EnFila ==
    ASSUME NEW m \in Nat, NEW q \in Nat
    PROVE  /\ <<0>> \o [i \in 1 .. m |-> 1 + i - 1] = [i \in 1 .. m + 1 |-> 0 + i - 1]
           /\ <<>> \o [i \in 1 .. m |-> q + i - 1] = [i \in 1 .. m |-> q + i - 1]
<1> DEFINE y == [i \in 1 .. m |-> 1 + i - 1]
           z == [i \in 1 .. m |-> q + i - 1]
<1>1. y \in Seq(Nat) /\ Len(y) = m /\ z \in Seq(Nat) /\ \A i \in 1 .. m : y[i] = i
  <2>1. \A i \in 1 .. m : 1 + i - 1 \in Nat /\ q + i - 1 \in Nat /\ 1 + i - 1 = i
    OBVIOUS
  <2>2. y \in [1 .. m -> Nat] /\ z \in [1 .. m -> Nat] /\ \A i \in 1 .. m : y[i] = i
    BY <2>1
  <2> HIDE DEF y, z
  <2> QED BY <2>2
<1> HIDE DEF y, z
<1>2. <<0>> \in Seq(Nat) /\ Len(<<0>>) = 1 /\ <<0>>[1] = 0
  OBVIOUS
<1>3. /\ <<0>> \o y \in Seq(Nat) /\ Len(<<0>> \o y) = m + 1
      /\ \A i \in 1 .. m + 1 : (<<0>> \o y)[i] = IF i <= 1 THEN <<0>>[i] ELSE y[i - 1]
  <2>1. 1 + m = m + 1
    OBVIOUS
  <2> QED BY <1>1, <1>2, <2>1, ConcatProperties
<1>4. \A i \in 1 .. m + 1 : (<<0>> \o y)[i] = 0 + i - 1
  <2> SUFFICES ASSUME NEW i \in 1 .. m + 1 PROVE (<<0>> \o y)[i] = 0 + i - 1
    OBVIOUS
  <2>1. CASE i = 1
    BY <1>2, <1>3, <2>1
  <2>2. CASE i # 1
    <3>1. i - 1 \in 1 .. m /\ ~(i <= 1)
      BY <2>2
    <3> QED BY <1>1, <1>3, <3>1
  <2> QED BY <2>1, <2>2
<1>5. <<0>> \o y = [i \in 1 .. m + 1 |-> (<<0>> \o y)[i]]
  <2>1. <<0>> \o y \in [1 .. m + 1 -> Nat]
    BY <1>3, LenProperties
  <2> QED BY <2>1
<1>6. <<0>> \o y = [i \in 1 .. m + 1 |-> 0 + i - 1]
  BY <1>4, <1>5
<1>7. <<>> \o z = z
  BY <1>1, ConcatEmptySeq
<1> QED BY <1>6, <1>7 DEF y, z

\* The list of N blocks from that of byte p to that of byte p + n - 1.
Cubren(f, p, n, N) ==
    /\ BloquesDelAcceso(f, p, n) = [i \in 1 .. N |-> p \div TamBloque + i - 1]
    /\ (p \div TamBloque + N - 1) * TamBloque < p + n
    /\ p + n <= (p \div TamBloque + N) * TamBloque

\* The list of blocks of an access: from the block where it begins to that where
\* it ends (obtener_lista_de_bloques).
LEMMA BloquesSeguidos ==
    ASSUME NEW f, fcb[f].tam \in Nat, NEW p \in Nat, NEW n \in Nat \ {0},
           p + n <= fcb[f].tam, Admitido(f, p, n)
    PROVE  \E N \in Nat \ {0} : Cubren(f, p, n, N)
<1> DEFINE q == p \div TamBloque
           tam == fcb[f].tam
           t == tam \div TamBloque
           directo == IF p < TamBloque THEN {0} ELSE {}
           desde == IF p < TamBloque THEN TamBloque ELSE p
           hayMas == t - Cardinality(directo) >= 1
           otros == IF hayMas /\ desde < p + n THEN Cant(p + n - desde) ELSE 0
<1>0. TamBloque \in Nat \ {0} /\ tam \in Nat /\ ~(p + n > tam)
  BY BloquesAssumption
<1>1. BloquesDelAcceso(f, p, n) =
        SetToSeq(directo) \o [i \in 1 .. otros |-> desde \div TamBloque + i - 1]
  BY <1>0 DEF BloquesDelAcceso
<1>2. /\ q \in Nat /\ q * TamBloque <= p /\ p < (q + 1) * TamBloque
      /\ p % TamBloque = p - q * TamBloque
  BY SuBloque
<1>3. t \in Nat /\ t * TamBloque <= tam /\ tam < (t + 1) * TamBloque
  BY <1>0, SuBloque
<1>4. Cardinality({0}) = 1 /\ Cardinality({}) = 0
  BY FS_Singleton, FS_EmptySet
<1>5. CASE p < TamBloque
  <2>1. q = 0 /\ directo = {0} /\ desde = TamBloque /\ desde \div TamBloque = 1
    <3>1. TamBloque \div TamBloque = 1
      BY <1>0, EnBloque, Multiplos
    <3>2. q = 0
      <4>1. 0 * TamBloque <= p /\ p < (0 + 1) * TamBloque
        BY <1>0, <1>5
      <4> QED BY <4>1, EnBloque
    <3> QED BY <1>5, <3>1, <3>2
  <2>2. BloquesDelAcceso(f, p, n) = <<0>> \o [i \in 1 .. otros |-> 1 + i - 1]
    BY <1>1, <2>1, Lista01
  <2>3. CASE p + n <= TamBloque
    <3>1. otros = 0
      BY <1>0, <2>1, <2>3
    <3>2. BloquesDelAcceso(f, p, n) = [i \in 1 .. 0 + 1 |-> 0 + i - 1]
      BY <2>2, <3>1, EnFila
    <3>3. (0 + 1 - 1) * TamBloque < p + n /\ p + n <= (0 + 1) * TamBloque
      BY <1>0, <2>3
    <3> QED BY <2>1, <3>2, <3>3 DEF Cubren
  <2>4. CASE p + n > TamBloque
    <3>1. tam >= 2 * TamBloque
      <4>1. p % TamBloque = p
        <5>1. q * TamBloque = 0
          BY <1>0, <2>1
        <5> HIDE DEF q
        <5> QED BY <1>2, <5>1
      <4>2. ~((p % TamBloque) + n <= TamBloque)
        BY <1>0, <2>4, <4>1
      <4>3. fcb[f].tam <= TamBloque \/ fcb[f].tam >= 2 * TamBloque
        BY <4>2 DEF Admitido
      <4> QED BY <1>0, <2>4, <4>3
    <3>2. t >= 2
      <4>1. 2 * TamBloque < (t + 1) * TamBloque
        BY <1>0, <1>3, <3>1
      <4>2. 2 < t + 1
        BY <1>3, <4>1, Multiplos
      <4> QED BY <1>3, <4>2
    <3>3. otros = Cant(p + n - TamBloque)
      BY <1>0, <1>3, <1>4, <2>1, <2>4, <3>2
    <3>4. PICK m \in Nat \ {0} : /\ m = otros /\ p + n - TamBloque <= m * TamBloque
                                 /\ (m - 1) * TamBloque < p + n - TamBloque
      <4>1. p + n - TamBloque \in Nat \ {0}
        BY <1>0, <2>4
      <4> QED BY <3>3, <4>1, CantCotas
    <3>5. BloquesDelAcceso(f, p, n) = [i \in 1 .. m + 1 |-> 0 + i - 1]
      BY <2>2, <3>4, EnFila
    <3>6. (0 + (m + 1) - 1) * TamBloque < p + n /\ p + n <= (0 + (m + 1)) * TamBloque
      <4>1. /\ (m - 1) * TamBloque = m * TamBloque - TamBloque
            /\ (m + 1) * TamBloque = m * TamBloque + TamBloque
            /\ m * TamBloque \in Int
        BY <1>0
      <4>2. 0 + (m + 1) - 1 = m /\ 0 + (m + 1) = m + 1
        OBVIOUS
      <4> QED BY <1>0, <3>4, <4>1, <4>2
    <3> QED BY <2>1, <3>5, <3>6 DEF Cubren
  <2> QED BY <1>0, <2>3, <2>4
<1>6. CASE ~(p < TamBloque)
  <2>1. directo = {} /\ desde = p
    BY <1>6
  <2>2. t >= 1
    <3>1. 1 * TamBloque < (t + 1) * TamBloque
      <4>1. 1 * TamBloque = TamBloque /\ TamBloque <= tam
        BY <1>0, <1>6
      <4>2. PICK u \in Int : u = (t + 1) * TamBloque /\ tam < u
        BY <1>0, <1>3
      <4>3. TamBloque < u
        BY <1>0, <4>1, <4>2
      <4> QED BY <4>1, <4>2, <4>3
    <3>2. 1 < t + 1
      BY <1>3, <3>1, Multiplos
    <3> QED BY <1>3, <3>2
  <2>3. otros = Cant(n)
    <3>1. p < p + n /\ p + n - p = n
      OBVIOUS
    <3>2. t - 0 >= 1
      BY <1>3, <2>2
    <3> QED BY <1>4, <2>1, <3>1, <3>2
  <2>4. PICK m \in Nat \ {0} : /\ m = otros /\ n <= m * TamBloque
                               /\ (m - 1) * TamBloque < n
    BY <2>3, CantCotas
  <2>5. BloquesDelAcceso(f, p, n) = [i \in 1 .. m |-> q + i - 1]
    <3>1. BloquesDelAcceso(f, p, n) = <<>> \o [i \in 1 .. m |-> q + i - 1]
      BY <1>1, <2>1, <2>4, Lista01
    <3>2. <<>> \o [i \in 1 .. m |-> q + i - 1] = [i \in 1 .. m |-> q + i - 1]
      <4> HIDE DEF q
      <4> QED BY <1>2, EnFila
    <3> QED BY <3>1, <3>2
  <2>6. /\ m - 1 \in Nat /\ q + m - 1 = q + (m - 1)
        /\ (q + m - 1) * TamBloque = q * TamBloque + (m - 1) * TamBloque
        /\ (q + m) * TamBloque = q * TamBloque + m * TamBloque
        /\ q * TamBloque \in Int /\ m * TamBloque \in Int /\ (m - 1) * TamBloque \in Int
    <3>1. m - 1 \in Nat /\ q + m - 1 = q + (m - 1)
      BY <1>2
    <3> HIDE DEF q
    <3>2. (q + (m - 1)) * TamBloque = q * TamBloque + (m - 1) * TamBloque
      BY <1>2, <3>1, Multiplos
    <3>3. (q + m) * TamBloque = q * TamBloque + m * TamBloque
      BY <1>2, Multiplos
    <3>4. q * TamBloque \in Int /\ m * TamBloque \in Int /\ (m - 1) * TamBloque \in Int
      BY <1>0, <1>2, <3>1
    <3> QED BY <3>1, <3>2, <3>3, <3>4
  <2>7. (q + m - 1) * TamBloque < p + n /\ p + n <= (q + m) * TamBloque
    <3>1. CASE n < TamBloque
      <4>1. p - q * TamBloque + n <= TamBloque
        BY <1>0, <1>2, <3>1 DEF Admitido
      <4>2. m = 1
        <5>1. (m - 1) * TamBloque < 1 * TamBloque
          BY <1>0, <2>4, <2>6, <3>1
        <5>2. m - 1 < 1
          BY <2>6, <5>1, Multiplos
        <5> QED BY <5>2
      <4>3. (m - 1) * TamBloque = 0 /\ m * TamBloque = TamBloque
        BY <1>0, <4>2
      <4> QED BY <1>0, <1>2, <2>6, <4>1, <4>3
    <3>2. CASE ~(n < TamBloque)
      <4>1. p = q * TamBloque
        BY <1>0, <1>2, <1>6, <2>6, <3>2 DEF Admitido
      <4> QED BY <1>0, <2>4, <2>6, <4>1
    <3> QED BY <3>1, <3>2
  <2> QED BY <2>5, <2>7 DEF Cubren
<1> QED BY <1>5, <1>6
\* Where the i-th of N pieces begins and ends.
Desde(p, i) == IF i = 1 THEN p ELSE (p \div TamBloque + i - 1) * TamBloque
Acaba(p, n, N, i) == IF i = N THEN p + n ELSE (p \div TamBloque + i) * TamBloque

\* Each piece is what the access has of one block, and goes on where the one
\* before it ended.
LEMMA Bordes ==
    ASSUME NEW p \in Nat, NEW n \in Nat \ {0}, NEW N \in Nat \ {0},
           (p \div TamBloque + N - 1) * TamBloque < p + n,
           p + n <= (p \div TamBloque + N) * TamBloque,
           NEW i \in 1 .. N
    PROVE  LET b == p \div TamBloque + i - 1
           IN  /\ b \in Nat /\ Desde(p, i) \in Nat /\ Acaba(p, n, N, i) \in Nat
               /\ b * TamBloque <= Desde(p, i) /\ Desde(p, i) < Acaba(p, n, N, i)
               /\ Acaba(p, n, N, i) <= (b + 1) * TamBloque
               /\ i > 1 => Desde(p, i) = Acaba(p, n, N, i - 1)
<1> DEFINE q == p \div TamBloque
           b == q + i - 1
<1>0. TamBloque \in Nat \ {0}
  BY BloquesAssumption
<1>1. q \in Nat /\ q * TamBloque <= p /\ p < (q + 1) * TamBloque
  BY SuBloque
<1>2. b \in Nat /\ b + 1 = q + i /\ i \in Nat /\ i >= 1 /\ i <= N /\ q + N - 1 \in Nat
  BY <1>1
<1>3. /\ b * TamBloque \in Nat /\ (b + 1) * TamBloque = b * TamBloque + TamBloque
      /\ q * TamBloque \in Nat
  BY <1>1, <1>2, Multiplos
<1>4. b * TamBloque <= (q + N - 1) * TamBloque /\ (q + N - 1) * TamBloque \in Nat
  <2>1. b <= q + N - 1
    BY <1>1, <1>2
  <2> QED BY <1>2, <2>1, Multiplos
<1>5. /\ (q + N - 1) * TamBloque < p + n /\ p + n <= (q + N) * TamBloque
      /\ Desde(p, i) = IF i = 1 THEN p ELSE b * TamBloque
      /\ Acaba(p, n, N, i) = IF i = N THEN p + n ELSE (q + i) * TamBloque
  BY DEF Desde, Acaba
<1>6. i = 1 => b = q
  BY <1>1
<1>7. i > 1 => Desde(p, i) = Acaba(p, n, N, i - 1)
  <2> SUFFICES ASSUME i > 1 PROVE Desde(p, i) = Acaba(p, n, N, i - 1)
    OBVIOUS
  <2>1. i # 1 /\ i - 1 # N
    BY <1>2
  <2>2. q + (i - 1) = q + i - 1
    BY <1>1
  <2> HIDE DEF q
  <2> QED BY <2>1, <2>2 DEF Desde, Acaba, q
<1> HIDE DEF b, q
<1>8. b * TamBloque <= Desde(p, i) /\ Desde(p, i) < (b + 1) * TamBloque /\ Desde(p, i) \in Nat
  <2>1. CASE i = 1
    BY <1>0, <1>1, <1>2, <1>3, <1>5, <1>6, <2>1
  <2>2. CASE i # 1
    BY <1>0, <1>3, <1>5, <2>2
  <2> QED BY <2>1, <2>2
<1>9. /\ Desde(p, i) < Acaba(p, n, N, i) /\ Acaba(p, n, N, i) <= (b + 1) * TamBloque
      /\ Acaba(p, n, N, i) \in Nat
  <2>1. CASE i = N
    <3>1. Acaba(p, n, N, i) = p + n /\ p + n <= (b + 1) * TamBloque
      BY <1>2, <1>5, <2>1
    <3>2. Desde(p, i) < p + n
      <4>1. CASE i = 1
        BY <1>5, <4>1
      <4>2. CASE i # 1
        BY <1>3, <1>4, <1>5, <4>2
      <4> QED BY <4>1, <4>2
    <3> QED BY <3>1, <3>2
  <2>2. CASE i # N
    <3>1. Acaba(p, n, N, i) = (b + 1) * TamBloque
      BY <1>2, <1>5, <2>2
    <3>2. (b + 1) * TamBloque \in Nat
      BY <1>0, <1>3
    <3> QED BY <1>8, <3>1, <3>2
  <2> QED BY <2>1, <2>2
<1> QED BY <1>2, <1>7, <1>8, <1>9 DEF b, q

Numerados(f) == \A k : BloqueDe(f, k) \in Nat

\* armar_lista_offsets.
LEMMA UnTrozo ==
    ASSUME NEW f, NEW p \in Nat, NEW n \in Nat \ {0}, NEW N \in Nat \ {0},
           Admitido(f, p, n), Cubren(f, p, n, N), Numerados(f), NEW i \in 1 .. N
    PROVE  LET b == p \div TamBloque + i - 1
           IN  /\ Trozos(f, p, n)[i].base =
                     BloqueDe(f, b) * TamBloque + Desde(p, i) - b * TamBloque
               /\ Trozos(f, p, n)[i].tam = Acaba(p, n, N, i) - Desde(p, i)
<1> DEFINE q == p \div TamBloque
           b == q + i - 1
           base == BloqueDe(f, b) * TamBloque
           apuntado == b * TamBloque
           desde == Desde(p, i)
           acaba == Acaba(p, n, N, i)
           Trozo(x, y) == [base |-> x, tam |-> y]
<1>0. TamBloque \in Nat \ {0}
  BY BloquesAssumption
<1>1. /\ q \in Nat /\ q * TamBloque <= p /\ p < (q + 1) * TamBloque
      /\ p % TamBloque = p - q * TamBloque
  BY SuBloque
<1>2. /\ b \in Nat /\ desde \in Nat /\ acaba \in Nat
      /\ apuntado <= desde /\ desde < acaba
      /\ acaba <= (b + 1) * TamBloque
  BY Bordes DEF Cubren
<1>3. /\ apuntado \in Nat /\ (b + 1) * TamBloque = apuntado + TamBloque
      /\ base \in Nat
  BY <1>0, <1>2, Multiplos DEF Numerados
<1>4. Trozos(f, p, n)[i] =
        CASE n < TamBloque -> Trozo(base + p - apuntado, n)
          [] n >= TamBloque /\ i = N -> Trozo(base, p + n - apuntado)
          [] n >= TamBloque /\ i = 1 /\ i < N ->
                Trozo(base + p - apuntado, apuntado + TamBloque - p)
          [] OTHER -> Trozo(base, TamBloque)
  <2>1. /\ DOMAIN BloquesDelAcceso(f, p, n) = 1 .. N
        /\ Len(BloquesDelAcceso(f, p, n)) = N
        /\ BloquesDelAcceso(f, p, n)[i] = b
    BY DEF Cubren
  <2> HIDE DEF q
  <2> QED BY <2>1 DEF Trozos, HastaElFinal, q
<1>5. /\ desde = IF i = 1 THEN p ELSE apuntado
      /\ acaba = IF i = N THEN p + n ELSE apuntado + TamBloque
      /\ i = 1 => b = q
  <2>1. i = 1 => b = q
    BY <1>1
  <2>2. q + i = b + 1
    BY <1>1
  <2> QED BY <1>3, <2>1, <2>2 DEF Desde, Acaba
<1>6. i \in Nat /\ i >= 1 /\ i <= N
  OBVIOUS
<1> HIDE DEF q, b, base, apuntado, desde, acaba
<1>7. CASE n < TamBloque
  <2>1. p - q * TamBloque + n <= TamBloque
    BY <1>0, <1>1, <1>7 DEF Admitido
  <2>2. N = 1
    <3>1. PICK j \in Nat : j = q + N - 1 /\ j * TamBloque < p + n
      BY <1>1 DEF q, Cubren
    <3>2. q * TamBloque \in Nat /\ (q + 1) * TamBloque = q * TamBloque + TamBloque
      BY <1>1, Multiplos
    <3>3. j * TamBloque \in Nat
      BY <3>1, Multiplos
    <3>4. j * TamBloque < (q + 1) * TamBloque
      BY <1>0, <2>1, <3>1, <3>2, <3>3
    <3>5. j < q + 1
      BY <1>1, <3>1, <3>4, Multiplos
    <3> QED BY <1>1, <3>1, <3>5
  <2>3. i = 1 /\ i = N
    BY <1>6, <2>2
  <2>4. Trozos(f, p, n)[i] = Trozo(base + p - apuntado, n)
    BY <1>0, <1>4, <1>7
  <2>5. acaba - desde = n
    BY <1>5, <2>3
  <2> QED BY <1>5, <2>3, <2>4, <2>5 DEF base, apuntado, desde, acaba, b, q
<1>8. CASE ~(n < TamBloque) /\ i = N
  <2>1. Trozos(f, p, n)[i] = Trozo(base, p + n - apuntado)
    BY <1>0, <1>4, <1>8
  <2>2. desde = apuntado
    <3>1. CASE i = 1
      <4>1. p + n <= (b + 1) * TamBloque
        BY <1>2, <1>5, <1>8
      <4> QED BY <1>0, <1>2, <1>3, <1>5, <1>8, <3>1, <4>1
    <3> QED BY <1>5, <3>1
  <2>3. base + desde - apuntado = base /\ acaba - desde = p + n - apuntado
    BY <1>3, <1>5, <1>8, <2>2
  <2> QED BY <2>1, <2>3 DEF base, apuntado, desde, acaba, b, q
<1>9. CASE ~(n < TamBloque) /\ i # N
  <2>0. i < N
    BY <1>6, <1>9
  <2>1. CASE i = 1
    <3>1. Trozos(f, p, n)[i] = Trozo(base + p - apuntado, apuntado + TamBloque - p)
      BY <1>0, <1>4, <1>9, <2>0, <2>1
    <3>2. desde = p /\ acaba = apuntado + TamBloque
      BY <1>5, <1>9, <2>1
    <3>3. base + desde - apuntado = base + p - apuntado /\ acaba - desde = apuntado + TamBloque - p
      BY <1>0, <1>2, <1>3, <3>2
    <3>4. Trozos(f, p, n)[i] = Trozo(base + desde - apuntado, acaba - desde)
      BY <3>1, <3>3
    <3> QED BY <3>4 DEF base, apuntado, desde, acaba, b, q
  <2>2. CASE i # 1
    <3>1. Trozos(f, p, n)[i] = Trozo(base, TamBloque)
      BY <1>0, <1>4, <1>9, <2>2
    <3>2. desde = apuntado /\ acaba = apuntado + TamBloque
      BY <1>5, <1>9, <2>2
    <3>3. base + desde - apuntado = base /\ acaba - desde = TamBloque
      BY <1>0, <1>3, <3>2
    <3> QED BY <3>1, <3>3 DEF base, apuntado, desde, acaba, b, q
  <2> QED BY <2>1, <2>2
<1> QED BY <1>7, <1>8, <1>9
Exacto(f, p, n) == Tocados(f, p, n) = [k \in 1 .. n |-> Lugar(f, p + k - 1)]

\* escribir_datos: the bytes of the pieces, one after the other, are those of the
\* access.
LEMMA BytesDelAcceso ==
    ASSUME NEW f, fcb[f].tam \in Nat, Numerados(f),
           NEW p \in Nat, NEW n \in Nat \ {0}, p + n <= fcb[f].tam, Admitido(f, p, n)
    PROVE  Exacto(f, p, n)
<1>0. PICK N \in Nat \ {0} : Cubren(f, p, n, N)
  BY BloquesSeguidos
<1> DEFINE s == [i \in DOMAIN Trozos(f, p, n) |->
                   LET t == Trozos(f, p, n)[i] IN [k \in 1 .. t.tam |-> t.base + k - 1]]
           fin == [i \in 0 .. N |-> IF i = 0 THEN 0 ELSE Acaba(p, n, N, i) - p]
           L == [k \in Nat |-> Lugar(f, p + k - 1)]
           V == {Lugar(f, p + k - 1) : k \in Nat}
           b(i) == p \div TamBloque + i - 1
<1>1. Tocados(f, p, n) = FlattenSeq(s)
  BY DEF Tocados
<1>2. \A i \in 1 .. N :
        /\ b(i) \in Nat /\ Desde(p, i) \in Nat /\ Acaba(p, n, N, i) \in Nat
        /\ b(i) * TamBloque <= Desde(p, i) /\ Desde(p, i) < Acaba(p, n, N, i)
        /\ Acaba(p, n, N, i) <= (b(i) + 1) * TamBloque
        /\ i > 1 => Desde(p, i) = Acaba(p, n, N, i - 1)
  BY <1>0, Bordes DEF Cubren
<1>3. \A i \in 1 .. N :
        /\ Trozos(f, p, n)[i].base =
              BloqueDe(f, b(i)) * TamBloque + Desde(p, i) - b(i) * TamBloque
        /\ Trozos(f, p, n)[i].tam = Acaba(p, n, N, i) - Desde(p, i)
  BY <1>0, UnTrozo
<1>4. DOMAIN Trozos(f, p, n) = 1 .. N
  BY <1>0 DEF Trozos, Cubren
<1>5. Len(s) = N /\ N \in Nat
  BY <1>4
<1> HIDE DEF b
<1>6. ASSUME NEW i \in 1 .. N
      PROVE  /\ i - 1 \in 0 .. N /\ i \in 0 .. N /\ i # 0
             /\ Desde(p, i) = p + fin[i - 1] /\ Acaba(p, n, N, i) = p + fin[i]
             /\ p <= Desde(p, i)
  <2>1. i - 1 \in 0 .. N /\ i \in 0 .. N /\ i # 0
    OBVIOUS
  <2>2. fin[i] = Acaba(p, n, N, i) - p /\ Acaba(p, n, N, i) \in Nat
    BY <1>2, <2>1
  <2>3. CASE i = 1
    <3>1. fin[i - 1] = 0 /\ Desde(p, i) = p
      BY <2>1, <2>3 DEF Desde
    <3> QED BY <2>1, <2>2, <3>1
  <2>4. CASE i # 1
    <3>1. i - 1 \in 1 .. N /\ i > 1 /\ i - 1 # 0
      BY <2>4
    <3>2. fin[i - 1] = Acaba(p, n, N, i - 1) - p /\ Acaba(p, n, N, i - 1) \in Nat
      BY <1>2, <2>1, <3>1
    <3>3. Desde(p, i) = Acaba(p, n, N, i - 1)
      BY <1>2, <3>1
    <3>4. p <= Desde(p, i)
      <4>1. p < (p \div TamBloque + 1) * TamBloque /\ p \div TamBloque \in Nat
        BY SuBloque
      <4>2. PICK j \in Nat : j = p \div TamBloque + i - 1 /\ p \div TamBloque + 1 <= j
        BY <2>4, <4>1
      <4>3. (p \div TamBloque + 1) * TamBloque <= j * TamBloque
        BY <4>1, <4>2, Multiplos
      <4>4. Desde(p, i) = j * TamBloque
        BY <2>4, <4>2 DEF Desde
      <4>5. (p \div TamBloque + 1) * TamBloque \in Nat /\ j * TamBloque \in Nat
        BY <4>1, <4>2, Multiplos
      <4> QED BY <4>1, <4>3, <4>4, <4>5
    <3> QED BY <2>1, <2>2, <3>2, <3>3, <3>4
  <2> QED BY <2>3, <2>4
<1>7. /\ fin \in [0 .. N -> Nat] /\ fin[0] = 0 /\ fin[N] = n
      /\ \A i \in 1 .. N : fin[i - 1] <= fin[i]
  <2>1. fin[0] = 0
    BY <1>5
  <2>2. ASSUME NEW i \in 1 .. N
        PROVE  fin[i] \in Nat /\ fin[i - 1] <= fin[i] /\ fin[i] = Acaba(p, n, N, i) - p
    <3>1. fin[i] = Acaba(p, n, N, i) - p
      BY <1>6
    <3>2. CASE i = 1
      <4>1. fin[i - 1] = 0
        BY <2>1, <3>2
      <4> HIDE DEF fin
      <4> QED BY <1>2, <1>6, <3>1, <4>1
    <3>3. CASE i # 1
      <4>1. i - 1 \in 1 .. N /\ i - 1 # 0 /\ i - 1 \in 0 .. N
        BY <3>3
      <4>2. fin[i - 1] = Acaba(p, n, N, i - 1) - p /\ Acaba(p, n, N, i - 1) \in Nat
        BY <1>2, <4>1
      <4> HIDE DEF fin
      <4> QED BY <1>2, <1>6, <3>1, <4>2
    <3> HIDE DEF fin
    <3> QED BY <3>2, <3>3
  <2>3. \A i \in 0 .. N : i = 0 \/ i \in 1 .. N
    OBVIOUS
  <2>4. fin = [i \in 0 .. N |-> fin[i]]
    OBVIOUS
  <2>5. N \in 1 .. N /\ Acaba(p, n, N, N) - p = n
    BY DEF Acaba
  <2> HIDE DEF fin
  <2>6. \A i \in 0 .. N : fin[i] \in Nat
    BY <2>1, <2>2, <2>3
  <2>7. fin \in [0 .. N -> Nat]
    BY <2>4, <2>6
  <2>8. fin[N] = n
    BY <2>2, <2>5
  <2> QED BY <2>1, <2>2, <2>7, <2>8
<1>8. ASSUME NEW i \in 1 .. N
      PROVE  s[i] = [k \in 1 .. fin[i] - fin[i - 1] |-> L[fin[i - 1] + k]]
  <2>0. fin[i] \in Nat /\ fin[i - 1] \in Nat
    BY <1>6, <1>7
  <2> DEFINE base == BloqueDe(f, b(i)) * TamBloque
             apuntado == b(i) * TamBloque
             desde == Desde(p, i)
             largo == Acaba(p, n, N, i) - Desde(p, i)
  <2>1. s[i] = [k \in 1 .. largo |-> base + desde - apuntado + k - 1]
    BY <1>3, <1>4
  <2>2. largo = fin[i] - fin[i - 1]
    <3> HIDE DEF fin
    <3> QED BY <1>6, <2>0
  <2>3. ASSUME NEW k \in 1 .. largo
        PROVE  L[fin[i - 1] + k] = base + desde - apuntado + k - 1
    <3>1. /\ fin[i - 1] + k \in Nat /\ p + (fin[i - 1] + k) - 1 = desde + k - 1
          /\ largo \in Nat /\ k \in Nat /\ k >= 1 /\ k <= largo
      <4>1. desde = p + fin[i - 1] /\ largo = Acaba(p, n, N, i) - desde
            /\ Acaba(p, n, N, i) \in Nat /\ desde \in Nat /\ desde < Acaba(p, n, N, i)
        BY <1>2, <1>6
      <4> HIDE DEF fin, largo, desde
      <4> QED BY <2>0, <4>1
    <3>2. L[fin[i - 1] + k] = Lugar(f, desde + k - 1)
      <4> HIDE DEF fin, desde
      <4> QED BY <3>1
    <3> DEFINE a == desde + k - 1
    <3>3. a \in Nat /\ apuntado <= a /\ a < (b(i) + 1) * TamBloque /\ b(i) \in Nat
      <4>1. /\ b(i) \in Nat /\ desde \in Nat /\ Acaba(p, n, N, i) \in Nat
            /\ apuntado <= desde /\ Acaba(p, n, N, i) <= (b(i) + 1) * TamBloque
            /\ largo = Acaba(p, n, N, i) - desde
        BY <1>2
      <4>2. apuntado \in Nat /\ (b(i) + 1) * TamBloque \in Nat
        BY <4>1, Multiplos
      <4>3. PICK u \in Nat, w \in Nat : u = (b(i) + 1) * TamBloque /\ w = Acaba(p, n, N, i)
        BY <4>1, <4>2
      <4> HIDE DEF apuntado, desde, largo
      <4>4. /\ apuntado \in Nat /\ desde \in Nat /\ apuntado <= desde
            /\ w <= u /\ largo = w - desde
        BY <4>1, <4>2, <4>3
      <4>5. a \in Nat /\ apuntado <= a /\ a < u
        BY <3>1, <4>4
      <4> QED BY <4>1, <4>3, <4>5
    <3>4. a \div TamBloque = b(i) /\ a % TamBloque = a - apuntado
      <4> HIDE DEF a
      <4> QED BY <3>3, EnBloque
    <3>5. Lugar(f, a) = base + (a - apuntado)
      <4> HIDE DEF a
      <4> QED BY <3>4 DEF Lugar
    <3>6. base \in Nat /\ apuntado \in Nat /\ desde \in Nat
      BY <1>2, <3>3, Multiplos DEF Numerados
    <3>7. base + (a - apuntado) = base + desde - apuntado + k - 1
      <4> HIDE DEF base, apuntado, desde
      <4> QED BY <3>1, <3>6
    <3> QED BY <3>2, <3>5, <3>7
  <2> HIDE DEF fin, L, base, apuntado, desde, largo, s
  <2> QED BY <2>1, <2>2, <2>3
<1>9. L \in [Nat -> V]
  OBVIOUS
<1> HIDE DEF s, fin, L, V
<1>10. FlattenSeq(s) = [k \in 1 .. n |-> L[k]]
  <2>1. Siguen(s, fin, L, N)
    BY <1>5, <1>7, <1>8 DEF Siguen
  <2>2. FlattenSeq(s) = Principio(L, fin[N])
    BY <1>5, <1>7, <1>9, <2>1, Pedazos
  <2> QED BY <1>7, <2>2 DEF Principio
<1>11. \A k \in 1 .. n : L[k] = Lugar(f, p + k - 1)
  BY DEF L
<1> QED BY <1>1, <1>10, <1>11 DEF Exacto

\* An access that the code admits goes to each of its bytes, in order and to no
\* other, whatever the size of the file and wherever its blocks are, for every size
\* of block and also after truncations that leave a file wrong blocks or a restart
\* (obtener_lista_de_bloques, armar_lista_offsets, escribir_datos).
THEOREM AccesoCorrecto == (Spec => []AccesoExacto) /\ (SpecConReinicio => []AccesoExacto)
<1>1. TypeOK => AccesoExacto
  <2> SUFFICES ASSUME TypeOK, NEW f \in abiertos,
                      NEW p \in 0 .. fcb[f].tam - 1, NEW n \in 1 .. fcb[f].tam - p,
                      Admitido(f, p, n)
               PROVE  Exacto(f, p, n)
    BY DEF AccesoExacto, Exacto
  <2>1. f \in DOMAIN fcb /\ fcb[f].tam \in Nat /\ fcb[f].directo \in Nat
    BY LibresFinito DEF TypeOK
  <2>2. Numerados(f)
    BY <2>1 DEF Numerados, BloqueDe, BloqueIndirecto, TypeOK
  <2>3. p \in Nat /\ n \in Nat \ {0} /\ p + n <= fcb[f].tam
    BY <2>1
  <2> QED BY <2>1, <2>2, <2>3, BytesDelAcceso
<1>2. Spec => []AccesoExacto
  BY <1>1, TipoCorrecto, PTL
<1>3. SpecConReinicio => []AccesoExacto
  BY <1>1, TipoCorrecto, PTL
<1> QED BY <1>2, <1>3

=============================================================================
