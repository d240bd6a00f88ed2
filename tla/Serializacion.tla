---------------------------- MODULE Serializacion ----------------------------
(***************************************************************************)
(* How a PCB travels (compartido/src/serializacion.c): serializar_pcb puts *)
(* its fields one after the other in a buffer whose size it computes       *)
(* beforehand, enviar_paquete_a sends so many bytes, and deserializar_pcb  *)
(* takes the fields out again by their places and lengths.  Here a buffer  *)
(* is the sequence of its fields with their widths in bytes; the PCBs are  *)
(* those that Archivos sends between kernel and file system.               *)
(***************************************************************************)
EXTENDS Archivos, SequencesExt

CONSTANTS Palabras,    \* parameters of instructions, the names of files among them
          Largo,       \* strlen + 1 of each of them
          Programa,    \* the instructions of each process
          Perdido      \* what is read where nothing was sent

TInstruccion == [nombre : STRING, parametros : Seq(Palabras)]

ASSUME LargoAssumption == Archivos \subseteq Palabras /\ Largo \in [Palabras -> Nat \ {0}]
ASSUME ProgramaAssumption == Programa \in [Procesos -> Seq(TInstruccion)]

Suma(s) ==
    LET hasta[i \in 0 .. Len(s)] == IF i = 0 THEN 0 ELSE hasta[i - 1] + s[i]
    IN  hasta[Len(s)]

Campo(ancho, valor) == [ancho |-> ancho, valor |-> valor]
Entero(valor) == Campo(4, valor)
Bytes(s) == Suma([i \in DOMAIN s |-> s[i].ancho])

\* The twelve registers, each with one byte more than it has.
BytesRegistros == 4 * 5 + 4 * 9 + 4 * 17

-----------------------------------------------------------------------------
(* serializar_lista_de_instrucciones, deserializar_lista_instrucciones.    *)

SerializarInstruccion(ins) ==
    <<Entero(ins.nombre), Entero(Len(ins.parametros))>> \o
    FlattenSeq([j \in DOMAIN ins.parametros |->
        LET q == ins.parametros[j] IN <<Entero(Largo[q]), Campo(Largo[q], q)>>])
SerializarLista(l) ==
    <<Entero(Len(l))>> \o FlattenSeq([i \in DOMAIN l |-> SerializarInstruccion(l[i])])

\* stream_size, counted before anything is written.
TamanioLista(l) ==
    4 + Suma([i \in DOMAIN l |-> 8 + Suma([j \in DOMAIN l[i].parametros |->
                                             4 + Largo[l[i].parametros[j]]])])

\* What is at place i of a buffer, if it is there and as wide as it should be.
Leer(s, i, ancho) ==
    IF i \in DOMAIN s /\ s[i].ancho = ancho THEN s[i].valor ELSE Perdido
LeerEntero(s, i) == Leer(s, i, 4)
Cuantos(s, i) == LET n == LeerEntero(s, i) IN IF n = Perdido THEN 0 ELSE n

\* Instructions are read one after the other: the list so far, and the place of
\* the next one.
Una(s, hecho) ==
    LET k == hecho.lugar
        n == Cuantos(s, k + 1)
        ins == [nombre |-> LeerEntero(s, k),
                parametros |-> [j \in 1 .. n |->
                    Leer(s, k + 2 * j + 1, LeerEntero(s, k + 2 * j))]]
    IN  [lista |-> Append(hecho.lista, ins), lugar |-> k + 2 + 2 * n]
DeserializarLista(s) ==
    LET n == Cuantos(s, 1)
        leido[i \in 0 .. n] ==
            IF i = 0 THEN [lista |-> <<>>, lugar |-> 2] ELSE Una(s, leido[i - 1])
    IN  leido[n].lista

-----------------------------------------------------------------------------
(* serializar_pcb, deserializar_pcb.                                       *)

\* tamanioTotal is assigned in the loop: only the last open file counts.
TamanioArchivos(l) == IF l = <<>> THEN 0 ELSE Largo[Last(l).dir] + 2 * 4

\* buffer->size; a mistaken version forgets the float.
TamanioMal(b) ==
    4 * 20 + 4 + Largo[b.arch_a_abrir] + TamanioLista(b.instrucciones) + 136
        + 12 * Len(b.tabla_segmentos) + TamanioArchivos(b.archivos_abiertos)
Tamanio(b) ==
    4 * 20 + 4 + Largo[b.arch_a_abrir] + 4 + TamanioLista(b.instrucciones) + 136
        + 12 * Len(b.tabla_segmentos) + TamanioArchivos(b.archivos_abiertos)

SerializarTabla(t) ==
    FlattenSeq([i \in DOMAIN t |->
        <<Entero(t[i].id), Entero(t[i].base), Entero(t[i].tam)>>])
SerializarArchivos(l) ==
    FlattenSeq([i \in DOMAIN l |->
        LET q == l[i].dir
        IN  <<Entero(Largo[q]), Campo(Largo[q], q), Entero(l[i].punt)>>])

SerializarPcb(b) ==
    <<Entero(b.pid), Entero(b.program_counter), Campo(BytesRegistros, b.registro),
      Entero(Len(b.tabla_segmentos))>>
    \o SerializarTabla(b.tabla_segmentos)
    \o <<Entero(Len(b.archivos_abiertos))>>
    \o SerializarArchivos(b.archivos_abiertos)
    \o <<Entero(b.estimacion), Entero(b.llegadaExec), Entero(b.llegadaReady),
         Entero(b.real_ant), Entero(b.conexion_consola), Entero(b.dat_seg),
         Entero(b.dat_tamanio), Entero(Largo[b.arch_a_abrir]),
         Campo(Largo[b.arch_a_abrir], b.arch_a_abrir), Entero(b.posicion),
         Entero(b.df_fs), Entero(b.cant_bytes), Entero(TamanioLista(b.instrucciones)),
         Campo(TamanioLista(b.instrucciones), SerializarLista(b.instrucciones))>>

\* enviar_paquete_a: what lies past the size of the buffer is not sent.
Enviado(b) ==
    LET s == SerializarPcb(b)
        caben == {n \in 1 .. Len(s) : Bytes(SubSeq(s, 1, n)) <= Tamanio(b)}
    IN  IF Bytes(s) <= Tamanio(b) THEN s ELSE SubSeq(s, 1, Cardinality(caben))

DeserializarPcb(s) ==
    LET tabla == Cuantos(s, 4)
        a == 5 + 3 * tabla          \* where the number of open files is,
        archivos == Cuantos(s, a)
        f == a + 3 * archivos       \* and the last field of the last one
    IN  [pid |-> LeerEntero(s, 1), program_counter |-> LeerEntero(s, 2),
         registro |-> Leer(s, 3, BytesRegistros),
         tabla_segmentos |-> [i \in 1 .. tabla |->
            [id |-> LeerEntero(s, 2 + 3 * i), base |-> LeerEntero(s, 3 + 3 * i),
             tam |-> LeerEntero(s, 4 + 3 * i)]],
         archivos_abiertos |-> [i \in 1 .. archivos |->
            LET k == a + 3 * i
            IN  [dir |-> Leer(s, k - 1, LeerEntero(s, k - 2)), punt |-> LeerEntero(s, k)]],
         estimacion |-> LeerEntero(s, f + 1), llegadaExec |-> LeerEntero(s, f + 2),
         llegadaReady |-> LeerEntero(s, f + 3), real_ant |-> LeerEntero(s, f + 4),
         conexion_consola |-> LeerEntero(s, f + 5), dat_seg |-> LeerEntero(s, f + 6),
         dat_tamanio |-> LeerEntero(s, f + 7),
         arch_a_abrir |-> Leer(s, f + 9, LeerEntero(s, f + 8)),
         posicion |-> LeerEntero(s, f + 10), df_fs |-> LeerEntero(s, f + 11),
         cant_bytes |-> LeerEntero(s, f + 12),
         instrucciones |->
            LET l == Leer(s, f + 14, LeerEntero(s, f + 13))
            IN  IF l = Perdido THEN <<>> ELSE DeserializarLista(l)]

-----------------------------------------------------------------------------
ASSUME PerdidoAssumption ==
    /\ Perdido \notin Nat
    /\ \A p \in Procesos : Perdido # SerializarLista(Programa[p])

\* The PCB that a message of Archivos stands for; fields that no property tells
\* apart have their name for a value.
PcbDe(m) ==
    [pid |-> m.pid, program_counter |-> pedidos[m.pid], registro |-> "registro",
     tabla_segmentos |-> <<[id |-> 0, base |-> "base", tam |-> "tam"]>>,
     archivos_abiertos |-> archivosAbiertos[m.pid],
     estimacion |-> "estimacion", llegadaExec |-> "llegadaExec",
     llegadaReady |-> "llegadaReady", real_ant |-> "real_ant",
     conexion_consola |-> "conexion_consola", dat_seg |-> "dat_seg",
     dat_tamanio |-> "dat_tamanio", arch_a_abrir |-> m.arch, posicion |-> m.pos,
     df_fs |-> "df_fs", cant_bytes |-> "cant_bytes",
     instrucciones |-> Programa[m.pid]]

\* The size of the buffer counts one open file, and 36 bytes more than what is
\* written besides them.
Holgura == 36
CabenSusArchivos(l) ==
    l # <<>> => Suma([i \in 1 .. Len(l) - 1 |-> Largo[l[i].dir] + 2 * 4]) <= Holgura

\* A PCB arrives as it left, with its pointers, its request and its program, up
\* to the number of open files that the buffer has room for: both sides have the
\* same fields in the same order, and the size computed beforehand is enough.
PcbEntero ==
    \A m \in ToSet(aFs) \union ToSet(deFs) :
        CabenSusArchivos(archivosAbiertos[m.pid]) => DeserializarPcb(Enviado(PcbDe(m))) = PcbDe(m)
=============================================================================
