------------------------------- MODULE Memoria -------------------------------
(***************************************************************************)
(* The memory (memoria/src/memoria.c): the table of free holes, the table  *)
(* of segments of every process, the search for a hole, the release of     *)
(* segments with the union of holes, and the compaction.  atender_modulos  *)
(* serves one request at a time (mutex_modulos), so a request is one step. *)
(*                                                                         *)
(* The client is the kernel: after REALIZAR_COMPACTACION it asks for the   *)
(* compaction and then for the same segment again (analizar_resultado),    *)
(* and only new processes get in between.  Requests name processes that    *)
(* did not end and segments the process does not have yet.                 *)
(***************************************************************************)
EXTENDS Integers, Sequences, FiniteSets, SequencesExt

CONSTANTS
    TamMemoria,     \* TAM_MEMORIA
    TamSegmento,    \* TAM_SEGMENTO_0
    Algoritmo,      \* ALGORITMO_ASIGNACION
    MaxProcesos,    \* bound on the number of processes
    MaxHuecos,      \* bound on the holes there are before a release
    Ids,            \* ids of the segments that programs create and delete
    Tamanios        \* sizes of the segments that programs create

ASSUME TamaniosAssumption ==
    /\ TamMemoria \in Nat /\ TamSegmento \in Nat
    /\ MaxProcesos \in Nat /\ MaxHuecos \in Nat
    /\ Ids \subseteq Nat /\ Tamanios \subseteq Nat \ {0}
ASSUME AsignacionAssumption == Algoritmo \in {"FIRST", "BEST", "WORST"}

VARIABLES
    huecos,         \* tabla_huecos_libres
    tabla,          \* tabla_general: the segments of process p are tabla[p]
    celdas,         \* memoria_usuario
    vivos,          \* the processes that did not end
    pedido,         \* the segment the kernel is waiting for
    negada,         \* history: the size answered SIN_MEMORIA last, or 0
    sana,           \* no uninitialised index was used
    escrito         \* history: the segment that was filled, while it exists

vars == <<huecos, tabla, celdas, vivos, pedido, negada, sana, escrito>>

Hueco(base, tam) == [base |-> base, tam |-> tam]
Segmento(id, base, tam) == [id |-> id, base |-> base, tam |-> tam]
Hasta(x) == x.base .. x.base + x.tam - 1
SinPedido == [paso |-> "ninguno"]
Nadie == <<>>
Borrado == <<0, 0>>

-----------------------------------------------------------------------------
(* The search for a hole.                                                  *)

SumaDe(lista) == FoldLeft(LAMBDA s, h : s + h.tam, 0, lista)

\* hay_espacio; a mistaken version that leaves no room for an exact fit.
HayEspacioMal(tam) == tam < SumaDe(huecos)
HayEspacio(tam) == tam <= SumaDe(huecos)

Alcanzan(lista, tam) == {i \in DOMAIN lista : lista[i].tam >= tam}
BuscarPorFirst(lista, tam) == Min(Alcanzan(lista, tam))

\* buscar_por_best and buscar_por_worst stop at the first hole that improves
\* on the first one that is large enough.
BuscarPorBest(lista, tam) ==
    LET i == BuscarPorFirst(lista, tam)
        mejores == {j \in Alcanzan(lista, tam) : j > i /\ lista[j].tam < lista[i].tam}
    IN  IF mejores = {} THEN i ELSE Min(mejores)
BuscarPorWorst(lista, tam) ==
    LET i == BuscarPorFirst(lista, tam)
        mejores == {j \in DOMAIN lista : j > i /\ lista[j].tam > lista[i].tam}
    IN  IF mejores = {} THEN i ELSE Min(mejores)

Buscar(lista, tam) ==
    CASE Algoritmo = "FIRST" -> BuscarPorFirst(lista, tam)
      [] Algoritmo = "BEST" -> BuscarPorBest(lista, tam)
      [] Algoritmo = "WORST" -> BuscarPorWorst(lista, tam)

-----------------------------------------------------------------------------
(* The tables.                                                             *)

\* list_sort by base: the order of holes of the same base is not specified.
Ordenamientos(lista) ==
    {o \in {[i \in DOMAIN lista |-> lista[f[i]]] : f \in Bijection(DOMAIN lista, DOMAIN lista)} :
        \A i \in 1 .. Len(o) - 1 : o[i].base <= o[i + 1].base}

\* crear_segmento takes the segment from the start of the hole; a mistaken
\* version that forgets to shrink the hole.
OcuparMal(lista, i, tam) == [lista EXCEPT ![i] = Hueco(@.base + tam, @.tam)]
Ocupar(lista, i, tam) == [lista EXCEPT ![i] = Hueco(@.base + tam, @.tam - tam)]

\* combinar_huecos_libres: each hole is joined to the one before it if it
\* starts where that one ends.
Combinar(lista) ==
    LET unir(hechos, h) ==
          IF hechos # <<>> /\ Last(hechos).base + Last(hechos).tam = h.base
          THEN Front(hechos) \o <<Hueco(Last(hechos).base, Last(hechos).tam + h.tam)>>
          ELSE Append(hechos, h)
    IN  FoldLeft(unir, <<>>, lista)

\* eliminar_segmento on the segments of one process and the holes: all that
\* the sort may leave.
Liberar(segs, lista, id) ==
    LET cuales == {j \in DOMAIN segs : segs[j].id = id}
    IN  IF cuales = {} THEN
            {[segs |-> segs, huecos |-> Combinar(o)] : o \in Ordenamientos(lista)}
        ELSE LET j == Min(cuales)
                 nueva == Append(lista, Hueco(segs[j].base, segs[j].tam))
             IN  {[segs |-> RemoveAt(segs, j), huecos |-> Combinar(o)] :
                     o \in Ordenamientos(nueva)}

\* eliminar_proceso: from the last segment to the second; the first one of the
\* list is the segment 0 that all share.  A mistaken version stops before it.
UltimoQueQuedaMal == 3
UltimoQueQueda == 2
LiberarTodos(segs, lista) ==
    LET quitar(hechos, j) ==
          UNION {Liberar(e.segs, e.huecos, e.segs[j].id) : e \in hechos}
        indices == [k \in 1 .. Len(segs) - UltimoQueQueda + 1 |-> Len(segs) + 1 - k]
    IN  FoldLeft(quitar, {[segs |-> segs, huecos |-> lista]}, indices)

-----------------------------------------------------------------------------
(* The compaction.                                                         *)

\* compactar_tabla_general: all the segments in the order of their bases (the
\* segments 0 share theirs; the order of those does not matter) ...
Todos == UNION {{<<p, j>> : j \in DOMAIN tabla[p]} : p \in DOMAIN tabla}
Antes(a, b) ==
    LET ba == tabla[a[1]][a[2]].base
        bb == tabla[b[1]][b[2]].base
    IN  ba < bb \/ (ba = bb /\ a[1] < b[1])
Lugar(r) == 1 + Cardinality({q \in Todos : Antes(q, r)})
PorBase == [k \in 1 .. Cardinality(Todos) |-> CHOOSE r \in Todos : Lugar(r) = k]

\* ... after as many as there are processes, which are the segments 0; a
\* mistaken version skips one less ...
CuantosCeroMal == Len(tabla) - 1
CuantosCero == Len(tabla)
AMover == SubSeq(PorBase, CuantosCero + 1, Len(PorBase))

\* ... each one is moved down to where the one before it ends.
BaseNueva(k) ==
    TamSegmento + SumaDe([i \in 1 .. k - 1 |-> tabla[AMover[i][1]][AMover[i][2]]])
TablaCompactada ==
    [p \in DOMAIN tabla |-> [j \in DOMAIN tabla[p] |->
        LET ks == {k \in DOMAIN AMover : AMover[k] = <<p, j>>}
        IN  IF ks = {} THEN tabla[p][j]
            ELSE [tabla[p][j] EXCEPT !.base = BaseNueva(CHOOSE k \in ks : TRUE)]]]

\* memcpy of each segment, from the first to the last; the areas of one copy
\* may overlap, and then this is what a copy in increasing order leaves.
CeldasCompactadas ==
    LET mover(c, k) ==
          LET s == tabla[AMover[k][1]][AMover[k][2]]
              nueva == BaseNueva(k)
          IN  [a \in DOMAIN c |-> IF a \in nueva .. nueva + s.tam - 1
                                  THEN c[s.base + a - nueva] ELSE c[a]]
    IN  FoldLeft(mover, celdas, [k \in DOMAIN AMover |-> k])

\* compactar_tabla_huecos_libres: one hole, at the end of the memory; a
\* mistaken version takes the size of the last hole for that of all.
HuecosCompactadosMal ==
    <<Hueco(TamMemoria - SumaDe(huecos), Last(huecos).tam)>>
HuecosCompactados ==
    <<Hueco(TamMemoria - SumaDe(huecos), SumaDe(huecos))>>

-----------------------------------------------------------------------------
Init ==
    \* asignar_hueco_segmento_0
    /\ huecos = IF TamMemoria > TamSegmento
                THEN <<Hueco(TamSegmento, TamMemoria - TamSegmento)>>
                ELSE <<Hueco(0, TamMemoria)>>
    /\ tabla = <<>>
    /\ celdas = [a \in 0 .. TamMemoria - 1 |-> 0]
    /\ vivos = {}
    /\ pedido = SinPedido
    /\ negada = 0
    /\ sana = TRUE
    /\ escrito = Nadie

\* INICIALIZAR_ESTRUCTURA: a new process starts with the shared segment 0.
InicializarEstructura ==
    /\ sana
    /\ Len(tabla) < MaxProcesos
    /\ tabla' = Append(tabla, <<Segmento(0, 0, TamSegmento)>>)
    /\ vivos' = vivos \union {Len(tabla) + 1}
    /\ negada' = 0
    /\ UNCHANGED <<huecos, celdas, pedido, sana, escrito>>

Agregar(p, id, base, tam) ==
    tabla' = [tabla EXCEPT ![p] = Append(@, Segmento(id, base, tam))]

\* CREAR_SEGMENTO when some hole is large enough.
HayHueco(p, id, tam) ==
    /\ HayEspacio(tam) /\ Alcanzan(huecos, tam) # {}
    /\ LET i == Buscar(huecos, tam) IN
       /\ huecos' \in Ordenamientos(Ocupar(huecos, i, tam))
       /\ Agregar(p, id, huecos[i].base, tam)
    /\ pedido' = SinPedido
    /\ negada' = 0
    /\ UNCHANGED sana

\* CREAR_SEGMENTO when only all the holes together are large enough.
PideCompactar(p, id, tam) ==
    /\ HayEspacio(tam) /\ Alcanzan(huecos, tam) = {}
    /\ pedido' = [paso |-> "compactar", pid |-> p, id |-> id, tam |-> tam]
    /\ huecos' \in Ordenamientos(huecos)
    /\ UNCHANGED <<tabla, negada, sana>>

\* buscar_por_best and buscar_por_worst return an uninitialised index when
\* no hole is large enough.  If it is not negative, the segment is taken from
\* the last hole; list_replace then writes that hole at the index, if it is in
\* the list.  The model follows the memory no further.
IndiceSinValor(p, id, tam) ==
    /\ HayEspacio(tam) /\ Alcanzan(huecos, tam) = {} /\ Algoritmo # "FIRST"
    /\ LET u == Len(huecos)
           menos == Ocupar(huecos, u, tam)
       IN \E i \in 1 .. u + 1 :
            huecos' \in Ordenamientos(IF i > u THEN menos
                                      ELSE [menos EXCEPT ![i] = menos[u]])
    /\ Agregar(p, id, Last(huecos).base, tam)
    /\ pedido' = SinPedido
    /\ sana' = FALSE
    /\ UNCHANGED negada

SinMemoria(tam) ==
    /\ ~HayEspacio(tam)
    /\ negada' = tam
    /\ pedido' = SinPedido
    /\ UNCHANGED <<huecos, tabla, sana>>

CrearSegmento(p, id, tam) ==
    /\ sana
    /\ \/ HayHueco(p, id, tam) \/ PideCompactar(p, id, tam)
       \/ IndiceSinValor(p, id, tam) \/ SinMemoria(tam)
    /\ UNCHANGED <<celdas, vivos, escrito>>

\* The kernel asks for a segment, and asks again after the compaction.
Pedir(p) ==
    /\ p \in vivos /\ pedido = SinPedido
    /\ \E id \in Ids, tam \in Tamanios :
        /\ id \notin {tabla[p][j].id : j \in DOMAIN tabla[p]}
        /\ CrearSegmento(p, id, tam)
PedirDeNuevo ==
    /\ pedido.paso = "otra vez"
    /\ CrearSegmento(pedido.pid, pedido.id, pedido.tam)

RealizarCompactacion ==
    /\ sana /\ pedido.paso = "compactar"
    /\ tabla' = TablaCompactada
    /\ celdas' = CeldasCompactadas
    /\ huecos' = HuecosCompactados
    /\ pedido' = [pedido EXCEPT !.paso = "otra vez"]
    /\ UNCHANGED <<vivos, negada, sana, escrito>>

\* ELIMINAR_SEGMENTO
EliminarSegmento(p) ==
    /\ sana /\ Len(huecos) < MaxHuecos
    /\ p \in vivos /\ pedido = SinPedido
    /\ \E id \in Ids :
        /\ \E e \in Liberar(tabla[p], huecos, id) :
              tabla' = [tabla EXCEPT ![p] = e.segs] /\ huecos' = e.huecos
        /\ escrito' = IF escrito = <<p, id>> THEN Borrado ELSE escrito
    /\ negada' = 0
    /\ UNCHANGED <<celdas, vivos, pedido, sana>>

\* FINALIZAR; the process keeps its entry, with the segment 0.
Finalizar(p) ==
    /\ sana /\ Len(huecos) < MaxHuecos
    /\ p \in vivos /\ pedido = SinPedido
    /\ \E e \in LiberarTodos(tabla[p], huecos) :
          tabla' = [tabla EXCEPT ![p] = e.segs] /\ huecos' = e.huecos
    /\ vivos' = vivos \ {p}
    /\ escrito' = IF escrito # Nadie /\ escrito[1] = p THEN Borrado ELSE escrito
    /\ negada' = 0
    /\ UNCHANGED <<celdas, pedido, sana>>

\* ACCEDER_PARA_ESCRITURA: a process fills one of its segments, byte k with k.
\* The model follows one segment, any one; of the others it keeps no contents.
Escribir(p) ==
    /\ sana
    /\ p \in vivos /\ pedido = SinPedido /\ escrito = Nadie
    /\ \E j \in 2 .. Len(tabla[p]) :
        LET s == tabla[p][j] IN
        /\ celdas' = [a \in DOMAIN celdas |->
                         IF a \in Hasta(s) THEN a - s.base + 1 ELSE celdas[a]]
        /\ escrito' = <<p, s.id>>
    /\ UNCHANGED <<huecos, tabla, vivos, pedido, negada, sana>>

Next ==
    \/ InicializarEstructura
    \/ \E p \in vivos : Pedir(p) \/ EliminarSegmento(p) \/ Finalizar(p) \/ Escribir(p)
    \/ PedirDeNuevo \/ RealizarCompactacion

Spec == Init /\ [][Next]_vars

-----------------------------------------------------------------------------
\* The segments of processes other than the shared segment 0.
Propios == UNION {{<<p, j>> : j \in 2 .. Len(tabla[p])} : p \in DOMAIN tabla}
De(r) == tabla[r[1]][r[2]]

TypeOK ==
    /\ huecos \in Seq([base : Nat, tam : Int])
    /\ sana => \A i \in DOMAIN huecos : huecos[i] \in [base : 0 .. TamMemoria, tam : Nat]
    /\ Len(tabla) <= MaxProcesos
    /\ \A p \in DOMAIN tabla : tabla[p] \in Seq([id : Nat, base : Nat, tam : Nat])
    /\ DOMAIN celdas = 0 .. TamMemoria - 1
    /\ vivos \subseteq DOMAIN tabla
    /\ \/ pedido = SinPedido
       \/ pedido \in [paso : {"compactar", "otra vez"}, pid : DOMAIN tabla,
                      id : Ids, tam : Tamanios]
    /\ sana \in BOOLEAN
    /\ escrito \in {Nadie, Borrado} \union ((DOMAIN tabla) \X Ids)

\* Every address after the segment 0 is in exactly one hole or in exactly one
\* segment, and those of the segment 0 in none: searches, unions of holes,
\* releases and compactions neither lose memory nor hand it out twice.
Particion ==
    sana => \A a \in 0 .. TamMemoria - 1 :
        Cardinality({i \in DOMAIN huecos : a \in Hasta(huecos[i])})
          + Cardinality({r \in Propios : a \in Hasta(De(r))})
              = IF a < TamSegmento THEN 0 ELSE 1

\* After a compaction the segment that the kernel asks for again fits in the
\* hole that is left.
ReintentoEntra ==
    pedido.paso = "otra vez" => Alcanzan(huecos, pedido.tam) # {}

\* A segment that was written holds what was written, wherever compactions
\* moved it and whatever happened around it.
ContenidoIntacto ==
    \A r \in Propios :
        escrito = <<r[1], De(r).id>> =>
            \A a \in Hasta(De(r)) : celdas[a] = a - De(r).base + 1

\* Nothing is left of a process that ended but the shared segment 0.
SinRestos ==
    sana => \A p \in DOMAIN tabla \ vivos : tabla[p] = <<Segmento(0, 0, TamSegmento)>>

\* No two segments share an address, and all are in the memory.
SinSolapes ==
    \A r, q \in Propios :
        /\ Hasta(De(r)) \subseteq TamSegmento .. TamMemoria - 1
        /\ r # q => Hasta(De(r)) \intersect Hasta(De(q)) = {}

Promesa == INSTANCE Segmentacion WITH
    Capacidad <- TamMemoria - TamSegmento,
    segmentos <- [p \in DOMAIN tabla |->
                     {[id |-> tabla[p][j].id, tam |-> tabla[p][j].tam] :
                         j \in 2 .. Len(tabla[p])}],
    libre <- SumaDe(huecos)

\* The memory keeps the promise of Segmentacion: compactions do not show, and
\* a segment is refused only when all the holes together are too small.
PromesaCumplida == Promesa!Spec

=============================================================================
