-------------------------------- MODULE Tablas --------------------------------
(***************************************************************************)
(* The copies of the tables of segments.  The memory has the tables (module *)
(* Memoria); each process carries a copy of its own in its PCB, with which *)
(* the CPU turns logical addresses into physical ones                      *)
(* (obtener_direccion_fisica), and the kernel keeps the tables that the    *)
(* last compaction sent (tabla_general of kernel/src/kernel.c), which it   *)
(* writes over the copy of every process it dispatches.                    *)
(*                                                                         *)
(* A process asks for segments and deletes them while it runs; one runs at *)
(* a time, and meanwhile consoles may hand in others.                      *)
(***************************************************************************)
EXTENDS Memoria

VARIABLES
    pcb,            \* pcb->tabla_segmentos of each process
    general,        \* tabla_general of the kernel: empty until a compaction
    cpu,            \* the process that runs, or 0
    sale,           \* the process whose FINALIZAR is on its way, or 0
    cambio          \* history: what happened to each process's table last

copias == <<pcb, general, cpu, sale, cambio>>

InitTablas ==
    /\ Init
    /\ pcb = <<>> /\ general = <<>>
    /\ cpu = 0 /\ sale = 0
    /\ cambio = <<>>

\* crear_pcb: the kernel makes the table with the segment 0 itself.
CrearPcb ==
    /\ InicializarEstructura
    /\ pcb' = Append(pcb, <<Segmento(0, 0, TamSegmento)>>)
    /\ cambio' = Append(cambio, "nada")
    /\ UNCHANGED <<general, cpu, sale>>

\* actualizar_de_la_tabla_general: the last table received for the process; a
\* mistaken version never looks at it.
ActualizarMal(p) == pcb[p]
Actualizar(p) == IF p \in DOMAIN general THEN general[p] ELSE pcb[p]

\* de_ready_a_ejecutar_fifo and _hrrn.  A table that changed after the last
\* compaction goes back to what it was then.
Despachar(p) ==
    /\ sana /\ cpu = 0 /\ p \in vivos \ {sale}
    /\ cpu' = p
    /\ pcb' = [pcb EXCEPT ![p] = Actualizar(p)]
    /\ cambio' = IF p \in DOMAIN general /\ cambio[p] # "nada"
                 THEN [cambio EXCEPT ![p] = "revertida"] ELSE cambio
    /\ UNCHANGED <<vars, general, sale>>

\* The process goes back to READY, now or after a wait, with its copy.
Ceder ==
    /\ sana /\ cpu # 0 /\ pedido = SinPedido
    /\ cpu' = 0
    /\ UNCHANGED <<vars, pcb, general, sale, cambio>>

\* CREACION_EXITOSA after a creation: deserializar_tabla_actualizada, and the
\* CPU takes the table of the answer; a mistaken version keeps its own.
TablaDelResultadoMal(p) == pcb[p]
TablaDelResultado(p) == tabla'[p]

\* CREATE_SEGMENT, and the same again after a compaction.  Without memory the
\* process ends.
Crear(p) ==
    /\ cpu = p /\ sale = 0
    /\ Pedir(p) \/ PedirDeNuevo
    /\ \/ /\ pedido' = SinPedido /\ negada' = 0
          /\ pcb' = [pcb EXCEPT ![p] = TablaDelResultado(p)]
          /\ cambio' = [cambio EXCEPT ![p] = "creada"]
          /\ UNCHANGED <<cpu, sale>>
       \/ /\ pedido' = SinPedido /\ negada' # 0
          /\ cpu' = 0 /\ sale' = p
          /\ UNCHANGED <<pcb, cambio>>
       \/ /\ pedido' # SinPedido
          /\ UNCHANGED <<pcb, cpu, sale, cambio>>
    /\ UNCHANGED general

\* What COMPACTAR leaves in the kernel; a mistaken version only adds the tables
\* of the processes it did not know.
RecibirMal == [p \in DOMAIN tabla' |-> IF p \in DOMAIN general THEN general[p] ELSE tabla'[p]]
Recibir == tabla'

\* COMPACTAR: deserializar_tabla_general_actualizada adds the tables to those
\* of earlier compactions, and the last one of a process counts.
Compactar ==
    /\ RealizarCompactacion
    /\ general' = Recibir
    /\ cambio' = [p \in DOMAIN cambio |-> "nada"]
    /\ UNCHANGED <<pcb, cpu, sale>>

\* DELETE_SEGMENT: execute gives the PCB of the answer to its own parameter, and
\* ejecutar_pcb goes on with the one it had.
Eliminar(p) ==
    /\ cpu = p /\ sale = 0
    /\ EliminarSegmento(p)
    /\ cambio' = [cambio EXCEPT ![p] = "borrada"]
    /\ UNCHANGED <<pcb, general, cpu, sale>>

\* EXIT, SEG_FAULT
Salir(p) ==
    /\ sana /\ cpu = p /\ sale = 0 /\ pedido = SinPedido
    /\ cpu' = 0 /\ sale' = p
    /\ UNCHANGED <<vars, pcb, general, cambio>>

\* The memory gets FINALIZAR before any later request of the kernel.
Terminar(p) ==
    /\ sale = p
    /\ Finalizar(p)
    /\ sale' = 0
    /\ UNCHANGED <<pcb, general, cpu, cambio>>

NextTablas ==
    \/ CrearPcb \/ Ceder \/ Compactar
    \/ \E p \in vivos :
          Despachar(p) \/ Crear(p) \/ Eliminar(p) \/ Salir(p) \/ Terminar(p)

SpecTablas == InitTablas /\ [][NextTablas]_<<vars, copias>>

-----------------------------------------------------------------------------
\* obtener_direccion_fisica: the last segment with that id that is large
\* enough; -1 is a segmentation fault.
Direccion(t, id, offset, tam) ==
    LET sirven == {j \in DOMAIN t : t[j].id = id /\ offset + tam <= t[j].tam}
    IN  IF sirven = {} THEN -1 ELSE offset + t[Max(sirven)].base

\* The CPU goes to the address that the memory has for the segment.
TraduceBien(p) ==
    \A id \in Ids \union {0}, offset \in 0 .. TamMemoria - 1 :
        Direccion(pcb[p], id, offset, 1) = Direccion(tabla[p], id, offset, 1)

Ejecutando == cpu # 0 /\ pedido = SinPedido

TypeOKTablas ==
    /\ TypeOK
    /\ DOMAIN pcb = DOMAIN tabla /\ DOMAIN general \subseteq DOMAIN tabla
    /\ cpu \in vivos \union {0} /\ sale \in vivos \union {0}
    /\ cambio \in [DOMAIN tabla -> {"nada", "creada", "borrada", "revertida"}]

\* The process that runs reaches its own segments where the memory has them,
\* also when a compaction that another one asked for moved them meanwhile: the
\* copy is old only after a deletion, or after a dispatch that brought back the
\* table of a compaction older than the last change.
TraduccionFiel ==
    Ejecutando /\ cambio[cpu] \in {"nada", "creada"} => TraduceBien(cpu)

\* "En esta variable guardo la tabla de segmetno que le voy a enviar al kernel Y
\* actualizar el constexto de ejecucion" (crear_segmento): a process that created
\* segments finds them.
ContextoActualizado ==
    Ejecutando /\ cambio[cpu] # "borrada" => TraduceBien(cpu)

=============================================================================
