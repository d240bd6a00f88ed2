------------------------------ MODULE FileSystem ------------------------------
(***************************************************************************)
(* The file system (fileSystem/src/fileSystem.c): the FCB of each file, the *)
(* bitmap of blocks and the pointers kept in the blocks, through creation, *)
(* growth, shrinking, writes and restarts.  atender_kernel is the only     *)
(* thread, so a request is one step.                                       *)
(*                                                                         *)
(* A file has a direct block, and from its second block on an indirect     *)
(* block that holds the numbers of the others.  The FCB in lista_fcb and   *)
(* the one on disk are written together (modificar_fcb), so the model has  *)
(* one; what is in lista_fcb is the set of files opened since the start.   *)
(***************************************************************************)
EXTENDS Integers, Sequences, FiniteSets, SequencesExt

CONSTANTS
    Archivos,       \* names of files
    CantBloques,    \* BLOCK_COUNT
    TamBloque,      \* BLOCK_SIZE
    Punteros,       \* block numbers that fit in a block
    Cambios,        \* the truncations programs ask for: <<size, new size>>
    Nadie           \* no file

ASSUME BloquesAssumption ==
    /\ CantBloques \in Nat \ {0} /\ TamBloque \in Nat \ {0} /\ Punteros \in Nat \ {0}
    /\ Cambios \subseteq Nat \X Nat /\ Nadie \notin Archivos

VARIABLES
    fcb,            \* the FCB of each file that exists
    abiertos,       \* the files in lista_fcb
    bitmap,         \* the blocks whose bit is set
    palabras,       \* the file of blocks, in words of the size of a pointer
    escrito,        \* history: the block of a file that was written
    sana            \* no block -1 was taken, no word outside the file of blocks used

vars == <<fcb, abiertos, bitmap, palabras, escrito, sana>>

Ids == 0 .. CantBloques - 1
Fcb(tam, directo, indirecto) == [tam |-> tam, directo |-> directo, indirecto |-> indirecto]

\* A word is the number of a block, or what a program wrote there.
Numero(id) == <<Nadie, id>>
Dato(f, k) == <<f, k>>

\* How many blocks a file of so many bytes has.
Cant(tam) == (tam + TamBloque - 1) \div TamBloque

\* leer_acceso: the number of block k of a file, which is data to the indirect
\* block.  Outside the file of blocks there is no word, and whatever is read or
\* written there is undefined: sana ends, and 0 stands for what was read.  A
\* mistaken version takes the place of the block in bytes for one in words.
DirPunteroMal(indirecto, k) == indirecto * TamBloque + k - 1
DirPuntero(indirecto, k) == indirecto * Punteros + k - 1
PunteroDentro(f, k) == DirPuntero(fcb[f].indirecto, k) \in DOMAIN palabras
BloqueIndirecto(f, k) ==
    LET w == DirPuntero(fcb[f].indirecto, k)
    IN  IF w \in DOMAIN palabras THEN palabras[w][2] ELSE 0
BloqueDe(f, k) == IF k = 0 THEN fcb[f].directo ELSE BloqueIndirecto(f, k)

\* obtener_lista_total_de_bloques: the entry of the indirect block is made from
\* PUNTERO_DIRECTO.
ListaTotal(f) ==
    LET c == Cant(fcb[f].tam)
        directo == <<fcb[f].directo>>
    IN  CASE c = 0 -> <<>>
          [] c = 1 -> directo
          [] c > 1 -> directo \o directo \o [k \in 1 .. c - 1 |-> BloqueIndirecto(f, k)]
Legible(f) == \A k \in 1 .. Cant(fcb[f].tam) - 1 : PunteroDentro(f, k)

\* obtener_primer_bloque_libre looks at each bit of the bitmap, of as many whole
\* bytes as fit in the number of blocks; a mistaken version starts at the second
\* bit and goes one too far.
BitsMal == 1 .. 8 * (CantBloques \div 8)
Bits == 0 .. 8 * (CantBloques \div 8) - 1
Libres == Bits \ bitmap

\* obtener_primer_bloque_libre, n times.
PrimerosLibres(n) ==
    [i \in 1 .. n |-> CHOOSE b \in Libres : Cardinality({d \in Libres : d < b}) = i - 1]

-----------------------------------------------------------------------------
(* Growth: agrandar_archivo.                                               *)

\* Its loop runs from the blocks the file has to those the DIFFERENCE needs,
\* one more if it passes through the indirect block; a mistaken version
\* forgets that one.
HastaMal(actual, diferencia) == Cant(diferencia)
Hasta(actual, diferencia) ==
    Cant(diferencia) + IF actual <= 1 /\ Cant(diferencia) > 1 THEN 1 ELSE 0

\* setear_bit_en_bitmap for each block; a mistaken version forgets the last.
OcuparMal(nuevos) == bitmap \union ToSet(Front(nuevos))
Ocupar(nuevos) == bitmap \union ToSet(nuevos)

\* The first entry of the list whose number is not in the indirect block yet; a
\* mistaken version counts the direct block only.
InicialMal(lista, vuelta) == Len(lista) + Cardinality({0} \intersect vuelta)
Inicial(lista, vuelta) == Len(lista) + Cardinality({0, 1} \intersect vuelta)

\* escribir_bloques_indirectos: entry j of the list (from 0) goes to word j - 2
\* of the indirect block, whether or not the block has so many words.
Anotadas(lista, inicial, indirecto) ==
    {DirPuntero(indirecto, j - 1) : j \in inicial .. Len(lista) - 1}
Anotar(lista, inicial, indirecto) ==
    [w \in DOMAIN palabras |->
        LET j == w - indirecto * Punteros + 2
        IN  IF j \in inicial .. Len(lista) - 1 THEN Numero(lista[j + 1]) ELSE palabras[w]]

Agrandar(f, tam) ==
    LET actual == Cant(fcb[f].tam)
        vuelta == actual .. Hasta(actual, tam - fcb[f].tam) - 1
        nuevos == PrimerosLibres(Cardinality(vuelta))
        Nuevo(i) == nuevos[i - actual + 1]
        directo == IF 0 \in vuelta THEN Nuevo(0) ELSE fcb[f].directo
        indirecto == IF 1 \in vuelta THEN Nuevo(1) ELSE fcb[f].indirecto
        lista == ListaTotal(f) \o nuevos
        inicial == Inicial(ListaTotal(f), vuelta)
    IN  IF \/ Cardinality(vuelta) > Cardinality(Libres)
           \/ ~Legible(f)
           \/ Len(lista) > 2 /\ ~(Anotadas(lista, inicial, indirecto) \subseteq DOMAIN palabras)
        THEN sana' = FALSE /\ UNCHANGED <<fcb, bitmap, palabras>>
        ELSE /\ bitmap' = IF nuevos = <<>> THEN bitmap ELSE Ocupar(nuevos)
             /\ palabras' = IF Len(lista) > 2 THEN Anotar(lista, inicial, indirecto)
                            ELSE palabras
             /\ fcb' = [fcb EXCEPT ![f] = Fcb(tam, directo, indirecto)]
             /\ UNCHANGED sana

-----------------------------------------------------------------------------
(* Shrinking: achicar_archivo.                                             *)

\* How many entries leave the end of the list: the blocks of the DIFFERENCE,
\* and the indirect one if the file keeps one block or none; a mistaken
\* version leaves one too few out.
CuantosSalenMal(tam, nuevo) == Cant(tam - nuevo) - 1
CuantosSalen(tam, nuevo) ==
    Cant(tam - nuevo) + IF nuevo <= TamBloque /\ tam > TamBloque THEN 1 ELSE 0

Achicar(f, nuevo) ==
    LET tam == fcb[f].tam
        lista == ListaTotal(f)
        salen == {lista[j] : j \in Len(lista) - CuantosSalen(tam, nuevo) + 1 .. Len(lista)}
        puntero == IF nuevo <= TamBloque /\ tam > TamBloque THEN fcb[f].indirecto ELSE 0
    IN  /\ IF Legible(f)
           THEN /\ bitmap' = bitmap \ salen
                /\ fcb' = [fcb EXCEPT ![f].tam = nuevo,
                                      ![f].indirecto = IF puntero \in salen THEN 0 ELSE @]
                /\ UNCHANGED sana
           ELSE sana' = FALSE /\ UNCHANGED <<fcb, bitmap>>
        /\ UNCHANGED palabras

-----------------------------------------------------------------------------
(* The bytes of an access: n of them from position p of a file.            *)

\* obtener_lista_de_bloques and leer_bloques_indirectos.  The size is divided by
\* the block without rounding up, so the last part of a file does not count when
\* it decides whether there is anything after the direct block.
BloquesDelAcceso(f, p, n) ==
    LET directo == IF p < TamBloque THEN {0} ELSE {}
        desde == IF p < TamBloque THEN TamBloque ELSE p
        hayMas == fcb[f].tam \div TamBloque - Cardinality(directo) >= 1
        otros == IF hayMas /\ desde < p + n THEN Cant(p + n - desde) ELSE 0
    IN  IF p + n > fcb[f].tam THEN <<>>
        ELSE SetToSeq(directo) \o [i \in 1 .. otros |-> desde \div TamBloque + i - 1]

\* The size of the last piece; a mistaken version counts from the position.
HastaElFinalMal(p, n, apuntado) == n
HastaElFinal(p, n, apuntado) == p + n - apuntado

\* armar_lista_offsets: "apuntado" is the position where the i-th block starts.
Trozos(f, p, n) ==
    LET bloques == BloquesDelAcceso(f, p, n)
        Trozo(base, tam) == [base |-> base, tam |-> tam]
    IN  [i \in DOMAIN bloques |->
            LET base == BloqueDe(f, bloques[i]) * TamBloque
                apuntado == (p \div TamBloque + i - 1) * TamBloque
            IN  CASE n < TamBloque -> Trozo(base + p - apuntado, n)
                  [] n >= TamBloque /\ i = Len(bloques) ->
                        Trozo(base, HastaElFinal(p, n, apuntado))
                  [] n >= TamBloque /\ i = 1 /\ i < Len(bloques) ->
                        Trozo(base + p - apuntado, apuntado + TamBloque - p)
                  [] OTHER -> Trozo(base, TamBloque)]

\* escribir_datos goes through the pieces in order: the bytes of the file of
\* blocks that it writes.
Tocados(f, p, n) ==
    FlattenSeq([i \in DOMAIN Trozos(f, p, n) |->
        LET t == Trozos(f, p, n)[i] IN [k \in 1 .. t.tam |-> t.base + k - 1]])

-----------------------------------------------------------------------------
\* The directory of FCBs may hold files without blocks from earlier.
Init ==
    /\ \E viejos \in SUBSET Archivos : fcb = [f \in viejos |-> Fcb(0, 0, 0)]
    /\ abiertos = {}
    /\ bitmap = {}
    /\ palabras = [w \in 0 .. CantBloques * Punteros - 1 |-> Numero(0)]
    /\ escrito = Dato(Nadie, 0)
    /\ sana = TRUE

\* ABRIR_ARCHIVO of a file that is on disk.
AbrirArchivo(f) ==
    /\ sana /\ f \in DOMAIN fcb
    /\ abiertos' = abiertos \union {f}
    /\ UNCHANGED <<fcb, bitmap, palabras, escrito, sana>>

\* ABRIR_ARCHIVO of one that is not, and the CREAR_ARCHIVO that follows it.
CrearArchivo(f) ==
    /\ sana /\ f \notin DOMAIN fcb
    /\ fcb' = [g \in DOMAIN fcb \union {f} |-> IF g = f THEN Fcb(0, 0, 0) ELSE fcb[g]]
    /\ abiertos' = abiertos \union {f}
    /\ UNCHANGED <<bitmap, palabras, escrito, sana>>

\* MODIFICAR_TAMANIO
ModificarTamanio(f) ==
    /\ sana /\ f \in abiertos
    /\ \E c \in Cambios :
        /\ c[1] = fcb[f].tam
        /\ \/ c[1] < c[2] /\ Agrandar(f, c[2])
           \/ c[1] > c[2] /\ Achicar(f, c[2])
        /\ escrito' = IF escrito[1] = f /\ c[2] < (escrito[2] + 1) * TamBloque
                      THEN Dato(Nadie, 1) ELSE escrito
    /\ UNCHANGED abiertos

\* ESCRIBIR_ARCHIVO of a whole block.  The model follows one block, any one.
EscribirArchivo(f) ==
    /\ sana /\ f \in abiertos /\ escrito = Dato(Nadie, 0)
    /\ \E k \in 0 .. (fcb[f].tam \div TamBloque) - 1 :
        LET b == BloqueDe(f, k)
            suyas == b * Punteros .. (b + 1) * Punteros - 1
        IN  IF (k > 0 => PunteroDentro(f, k)) /\ suyas \subseteq DOMAIN palabras
            THEN /\ palabras' = [w \in DOMAIN palabras |->
                                   IF w \in suyas THEN Dato(f, k) ELSE palabras[w]]
                 /\ escrito' = Dato(f, k)
                 /\ UNCHANGED sana
            ELSE sana' = FALSE /\ UNCHANGED <<palabras, escrito>>
    /\ UNCHANGED <<fcb, abiertos, bitmap>>

Next ==
    \E f \in Archivos :
        AbrirArchivo(f) \/ CrearArchivo(f) \/ ModificarTamanio(f) \/ EscribirArchivo(f)

Spec == Init /\ [][Next]_vars

\* crear_bitmap at each start: its size is in bytes, and so many bits are
\* cleaned; the FCBs and the blocks stay on disk.
Reiniciar ==
    /\ sana
    /\ bitmap' = bitmap \ (0 .. CantBloques \div 8)
    /\ abiertos' = {}
    /\ UNCHANGED <<fcb, palabras, escrito, sana>>

NextConReinicio == Next \/ Reiniciar
SpecConReinicio == Init /\ [][NextConReinicio]_vars

-----------------------------------------------------------------------------
\* The blocks of each file: the indirect one (-1), the direct one (0), the rest.
Partes(f) == LET c == Cant(fcb[f].tam) IN {k \in -1 .. c - 1 : k = -1 => c > 1}
TodasLasPartes == UNION {{<<f, k>> : k \in Partes(f)} : f \in DOMAIN fcb}
BloqueDeParte(r) == IF r[2] = -1 THEN fcb[r[1]].indirecto ELSE BloqueDe(r[1], r[2])

TypeOK ==
    /\ DOMAIN fcb \subseteq Archivos
    /\ \A f \in DOMAIN fcb : fcb[f] \in [tam : Nat, directo : Ids, indirecto : Ids]
    /\ abiertos \subseteq DOMAIN fcb
    /\ bitmap \subseteq Ids
    /\ palabras \in [0 .. CantBloques * Punteros - 1 -> (Archivos \union {Nadie}) \X Nat]
    /\ escrito \in (Archivos \union {Nadie}) \X Nat
    /\ sana \in BOOLEAN

\* No block is in two files, nor twice in one: growth, with its detour through
\* the indirect block, takes only blocks that nobody has.
SinBloquesCompartidos ==
    sana => \A r, q \in TodasLasPartes : r # q => BloqueDeParte(r) # BloqueDeParte(q)

\* A bit is set exactly for the blocks of the files: none is lost when a file
\* shrinks, none is free while a file has it.
BitmapFiel == sana => bitmap = {BloqueDeParte(r) : r \in TodasLasPartes}

\* What a program wrote in a block of a file is there until the file loses the
\* block: neither pointers nor other files are written over it, and the file
\* still finds it.
BloqueIntacto ==
    escrito[1] # Nadie =>
        LET b == BloqueDe(escrito[1], escrito[2]) IN
        \A w \in b * Punteros .. (b + 1) * Punteros - 1 : palabras[w] = escrito

\* How many blocks the files of a size have, with the indirect one.
Tiene(tam) == Cant(tam) + IF Cant(tam) > 1 THEN 1 ELSE 0

\* The only request that goes wrong is growth that needs more blocks than are
\* free: with enough of them, and for reading, writing and shrinking, no block -1
\* is used nor a word outside the file of blocks, wherever the indirect block is.
SoloPorFaltaDeBloques ==
    [][sana /\ ~sana' =>
          \E f \in abiertos : \E c \in Cambios :
              /\ c[1] = fcb[f].tam /\ c[1] < c[2]
              /\ Tiene(c[2]) - Tiene(c[1]) > Cardinality(Libres)]_vars

\* Byte k of a file is byte k mod TamBloque of its block k div TamBloque.
Lugar(f, k) == BloqueDe(f, k \div TamBloque) * TamBloque + (k % TamBloque)

\* The accesses that the code gets right: inside one block, or of a block and
\* more from the direct block or from where a block starts, if what follows the
\* direct block has a whole block.
Admitido(f, p, n) ==
    \/ n < TamBloque /\ (p % TamBloque) + n <= TamBloque
    \/ /\ n >= TamBloque
       /\ p < TamBloque \/ p % TamBloque = 0
       /\ fcb[f].tam <= TamBloque \/ fcb[f].tam >= 2 * TamBloque

\* Such an access to a file, of whatever size growth and shrinking left it and
\* wherever its blocks are, goes to each of its bytes, in order and to no other:
\* pieces, list of blocks and indirect block agree.
AccesoExacto ==
    sana => \A f \in abiertos : \A p \in 0 .. fcb[f].tam - 1 : \A n \in 1 .. fcb[f].tam - p :
        Admitido(f, p, n) => Tocados(f, p, n) = [k \in 1 .. n |-> Lugar(f, p + k - 1)]

=============================================================================
