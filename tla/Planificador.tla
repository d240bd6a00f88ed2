---------------------------- MODULE Planificador ----------------------------
(***************************************************************************)
(* The scheduling core of the kernel (kernel/src/kernel.c) together with   *)
(* the instruction loop of the CPU (cpu/src/cpu.c): the consoles hand in   *)
(* programs, de_new_a_ready admits them, de_ready_a_ejecutar dispatches    *)
(* them to the CPU, atender_cpu serves what the CPU asks for, one thread   *)
(* per resource and one per I/O puts blocked processes back in READY.      *)
(*                                                                         *)
(* A process is its PCB, and a PCB is in one place at a time: a queue, a   *)
(* message, the CPU or a thread.  Segment tables, registers and files are  *)
(* abstracted away.  The file system and the memory are external here:     *)
(* they take the kernel's requests in order and answer.                    *)
(*                                                                         *)
(* Granularity: a sem_wait and what follows it are one step, and so are a  *)
(* push or a send and the sem_post calls after it (a post only enables     *)
(* others, so it can be moved back next to the push).  Where the code      *)
(* reads something after a sem_wait that another thread may have changed,  *)
(* or posts before it is done, there are two steps.  The ready queue is    *)
(* taken from in two steps, since the sort of HRRN runs between them,      *)
(* outside the mutex of the queue; other operations on queues are atomic.  *)
(***************************************************************************)
EXTENDS Integers, Sequences, FiniteSets

CONSTANTS
    Procesos,       \* one per console, named by the pid it will get
    Recursos,       \* RECURSOS of kernel.config
    Instancias,     \* INSTANCIAS_RECURSOS of kernel.config
    Programa,       \* the instructions each console sends
    Grado,          \* GRADO_MAX_MULTIPROGRAMACION
    Algoritmo,      \* ALGORITMO_PLANIFICACION
    Nadie           \* no process

\* Names of the instructions; SEG_FAULT is a MOV whose address is outside the
\* segment, SET any instruction the CPU carries out alone, F_READ also stands
\* for F_WRITE and F_TRUNCATE, which atender_cpu treats alike.
ConParametro == {"WAIT", "SIGNAL"}
Finales == {"EXIT", "SEG_FAULT"}
Instrucciones ==
    {"SET", "IO", "YIELD", "F_READ", "CREATE_SEGMENT", "DELETE_SEGMENT"}
        \union ConParametro \union Finales

ASSUME ProcesosAssumption == Nadie \notin Procesos
ASSUME RecursosAssumption == Nadie \notin Recursos
ASSUME GradoAssumption == Grado \in Nat \ {0}
ASSUME AlgoritmoAssumption == Algoritmo \in {"FIFO", "HRRN"}
ASSUME InstanciasAssumption == Instancias \in [Recursos -> Nat]

\* A program is not empty, its instructions are known and it ends.  A name
\* in a WAIT or a SIGNAL need not be one of the resources.
ASSUME ProgramaAssumption ==
    /\ DOMAIN Programa = Procesos
    /\ \A p \in Procesos :
        /\ Len(Programa[p]) \in Nat \ {0}
        /\ DOMAIN Programa[p] = 1 .. Len(Programa[p])
        /\ \A i \in DOMAIN Programa[p] :
              /\ Programa[p][i].nombre \in Instrucciones
              /\ Programa[p][i].nombre \notin Finales => i < Len(Programa[p])

-----------------------------------------------------------------------------
VARIABLES
    consola,        \* what each console knows of its process
    nuevos,         \* cola_new
    listos,         \* cola_ready_fifo (the queue of both algorithms)
    semNuevo, semReady, semMulti, semHabilitar, mutexCompresion,
    hiloNew,        \* where de_new_a_ready is
    hiloExec,       \* where de_ready_a_ejecutar_* is
    instancias,     \* t_recurso.instancias
    colaRecurso,    \* t_recurso.cola_recurso
    semRecurso,     \* t_recurso.sem_recurso
    hiloRecurso,    \* where the thread iniciar_recurso of each resource is
    enIO,           \* processes with a thread in ejecutar_IO
    pc,             \* program_counter: how many instructions were fetched
    cpu,            \* the CPU: its state and the process it runs
    aCpu, aKernel,  \* the two directions of conexion_cpu
    atiende,        \* where atender_cpu is, and for which process
    aFs, deFs,      \* the two directions of conexion_filesystem
    aMemoria, deMemoria,    \* the two directions of conexion_memoria
    duenios,        \* processes for which the memory keeps segments
    compactada,     \* the memory was compacted for the request to come
    kernel          \* "vivo", or "caido" when it dereferences NULL

semaforos == <<semNuevo, semReady, semMulti, semHabilitar, mutexCompresion>>
planif == <<nuevos, listos, hiloNew, hiloExec>>
recursos == <<instancias, colaRecurso, semRecurso, hiloRecurso>>
laCpu == <<pc, cpu>>
canalFs == <<aFs, deFs>>
memoria == <<aMemoria, deMemoria, duenios, compactada>>
vars == <<consola, semaforos, planif, recursos, enIO, laCpu, aCpu, aKernel,
          atiende, canalFs, memoria, kernel>>

\* The kernel runs, and this step does not bring it down.
Vivo == kernel = "vivo" /\ UNCHANGED kernel

Mensaje(op, p) == [op |-> op, pid |-> p]
CpuOciosa == [estado |-> "ociosa", pid |-> Nadie]
AtiendeLibre == [fase |-> "recibir", pid |-> Nadie]

\* The instruction the CPU fetches next, and the one it fetched last.
Siguiente(p) == Programa[p][pc[p] + 1]
Actual(p) == Programa[p][pc[p]]

\* Opcode of the request the CPU sends for an instruction.
OperacionDe ==
    [WAIT |-> "EJECUTAR_WAIT", SIGNAL |-> "EJECUTAR_SIGNAL",
     F_READ |-> "LEER_ARCHIVO", CREATE_SEGMENT |-> "CREAR_SEGMENTO",
     DELETE_SEGMENT |-> "ELIMINAR_SEGMENTO", IO |-> "EJECUTAR_IO",
     YIELD |-> "DESALOJADO", EXIT |-> "FINALIZAR", SEG_FAULT |-> "SEG_FAULT"]
ConRespuesta == {"WAIT", "SIGNAL", "F_READ", "CREATE_SEGMENT", "DELETE_SEGMENT"}
SinRespuesta == {"IO", "YIELD", "EXIT", "SEG_FAULT"}

Init ==
    /\ consola = [p \in Procesos |-> "fuera"]
    /\ nuevos = <<>> /\ listos = <<>>
    /\ semNuevo = 0 /\ semReady = 0
    /\ semMulti = Grado /\ semHabilitar = 1 /\ mutexCompresion = 1
    /\ hiloNew = "espera" /\ hiloExec = "espera"
    /\ instancias = Instancias
    /\ colaRecurso = [r \in Recursos |-> <<>>]
    /\ semRecurso = [r \in Recursos |-> 0]
    /\ hiloRecurso = [r \in Recursos |-> "espera"]
    /\ enIO = {}
    /\ pc = [p \in Procesos |-> 0]
    /\ cpu = CpuOciosa
    /\ aCpu = <<>> /\ aKernel = <<>>
    /\ atiende = AtiendeLibre
    /\ aFs = <<>> /\ deFs = <<>>
    /\ aMemoria = <<>> /\ deMemoria = <<>>
    /\ duenios = {} /\ compactada = FALSE
    /\ kernel = "vivo"

-----------------------------------------------------------------------------
(* The queues, the semaphores and the connections.  The definitions whose  *)
(* name ends in Mal are the mistakes the checks are tried against; no      *)
(* other definition uses them.                                             *)

AgregarAColaNew(p) == nuevos' = Append(nuevos, p) /\ semNuevo' = semNuevo + 1

\* The element is read but stays in the list.
QuitarMal(s, i) == SubSeq(s, 1, i - 1) \o SubSeq(s, i, Len(s))
Quitar(s, i) == SubSeq(s, 1, i - 1) \o SubSeq(s, i + 1, Len(s))

\* The dispatcher of HRRN sorts the ready list, without mutex_cola_ready: the
\* nodes are linked anew while others push.
Ordenando == hiloExec = "elige" /\ Algoritmo = "HRRN"

\* The queue after a push of p.  One that falls in the sort is a data race: any
\* one process, p or another, may drop out of the list.
ConUnoMas(p) ==
    LET s == Append(listos, p) IN
    {s} \union IF Ordenando THEN {Quitar(s, i) : i \in DOMAIN s} ELSE {}

\* agregar_a_cola_ready without its sem_post.
AgregarAColaReadyMal(p) == listos' \in ConUnoMas(p) /\ UNCHANGED semReady
AgregarAColaReady(p) == listos' \in ConUnoMas(p) /\ semReady' = semReady + 1

\* The dispatcher does not wait for the CPU to be free.
WaitHabilitarMal == semHabilitar' = semHabilitar - 1
WaitHabilitar == semHabilitar > 0 /\ semHabilitar' = semHabilitar - 1

\* A sem_post left out, and one too many.
PostHabilitarMal == UNCHANGED semHabilitar
PostHabilitarDobleMal == semHabilitar' = semHabilitar + 2
PostHabilitar == semHabilitar' = semHabilitar + 1

\* A process that ends keeps its slot.
PostMultiMal == UNCHANGED semMulti
PostMulti == semMulti' = semMulti + 1

\* The lock is not taken.
WaitCompresionMal == UNCHANGED mutexCompresion
WaitCompresion == mutexCompresion > 0 /\ mutexCompresion' = mutexCompresion - 1

\* enviar_eliminar_proceso is forgotten.
EliminarProcesoMal(p) == p \in Procesos /\ UNCHANGED aMemoria
EliminarProceso(p) == aMemoria' = Append(aMemoria, Mensaje("FINALIZAR", p))

Responder(op, p) == aCpu' = Append(aCpu, Mensaje(op, p))

\* instancias-- and the test are in the wrong order.
SinUnidadMal(r) == instancias[r] < 0
SinUnidad(r) == instancias[r] - 1 < 0

\* The thread is woken only when the unit stays free.
HayEnColaMal(r) == instancias[r] + 1 > 0
HayEnCola(r) == colaRecurso[r] # <<>>

\* atender_consolas, INSTRUCCIONES: crear_pcb and agregar_a_cola_new.
Conectar(p) ==
    /\ Vivo
    /\ consola[p] = "fuera"
    /\ consola' = [consola EXCEPT ![p] = "activa"]
    /\ AgregarAColaNew(p)
    /\ UNCHANGED <<listos, hiloNew, hiloExec, semReady, semMulti, semHabilitar,
                   mutexCompresion, recursos, enIO, laCpu, aCpu, aKernel,
                   atiende, canalFs, memoria>>

\* de_new_a_ready: sem_wait(sem_nuevo), then loop while cola_new is not empty.
NewDespierta ==
    /\ Vivo
    /\ hiloNew = "espera" /\ semNuevo > 0
    /\ semNuevo' = semNuevo - 1
    /\ hiloNew' = "ciclo"
    /\ UNCHANGED <<consola, nuevos, listos, hiloExec, semReady, semMulti,
                   semHabilitar, mutexCompresion, recursos, enIO, laCpu, aCpu,
                   aKernel, atiende, canalFs, memoria>>

NewDuerme ==
    /\ Vivo
    /\ hiloNew = "ciclo" /\ nuevos = <<>>
    /\ hiloNew' = "espera"
    /\ UNCHANGED <<consola, nuevos, listos, hiloExec, semaforos, recursos, enIO,
                   laCpu, aCpu, aKernel, atiende, canalFs, memoria>>

\* sem_wait(sem_multiprogramacion), quitar_de_cola_new, agregar_a_cola_ready.
Admitir ==
    /\ Vivo
    /\ hiloNew = "ciclo" /\ nuevos # <<>>
    /\ semMulti > 0
    /\ semMulti' = semMulti - 1
    /\ nuevos' = Tail(nuevos)
    /\ AgregarAColaReady(Head(nuevos))
    /\ UNCHANGED <<consola, hiloNew, hiloExec, semNuevo, semHabilitar,
                   mutexCompresion, recursos, enIO, laCpu, aCpu, aKernel,
                   atiende, canalFs, memoria>>

\* de_ready_a_ejecutar_fifo and _hrrn: sem_wait(sem_ready), then loop while
\* cola_ready is not empty.
ExecDespierta ==
    /\ Vivo
    /\ hiloExec = "espera" /\ semReady > 0
    /\ semReady' = semReady - 1
    /\ hiloExec' = "ciclo"
    /\ UNCHANGED <<consola, nuevos, listos, hiloNew, semNuevo, semMulti,
                   semHabilitar, mutexCompresion, recursos, enIO, laCpu, aCpu,
                   aKernel, atiende, canalFs, memoria>>

ExecDuerme ==
    /\ Vivo
    /\ hiloExec = "ciclo" /\ listos = <<>>
    /\ hiloExec' = "espera"
    /\ UNCHANGED <<consola, nuevos, listos, hiloNew, semaforos, recursos, enIO,
                   laCpu, aCpu, aKernel, atiende, canalFs, memoria>>

\* sem_wait(sem_habilitar_exec), after which HRRN sorts.
TomarCpu ==
    /\ Vivo
    /\ hiloExec = "ciclo" /\ listos # <<>>
    /\ WaitHabilitar
    /\ hiloExec' = "elige"
    /\ UNCHANGED <<consola, nuevos, listos, hiloNew, semNuevo, semReady,
                   semMulti, mutexCompresion, recursos, enIO, laCpu, aCpu,
                   aKernel, atiende, canalFs, memoria>>

\* The place in cola_ready of the process to run: the head under FIFO; under
\* HRRN the first after the sort, which the response ratios decide.
Elegible(i) == Algoritmo = "FIFO" => i = 1

\* quitar_de_cola_ready, EJECUTAR.
Despachar ==
    /\ Vivo
    /\ hiloExec = "elige"
    /\ hiloExec' = "ciclo"
    /\ \E i \in DOMAIN listos :
        /\ Elegible(i)
        /\ listos' = Quitar(listos, i)
        /\ aCpu' = Append(aCpu, Mensaje("EJECUTAR", listos[i]))
    /\ UNCHANGED <<consola, nuevos, hiloNew, semaforos, recursos, enIO, laCpu,
                   aKernel, atiende, canalFs, memoria>>

-----------------------------------------------------------------------------
(* The CPU: ejecutar_pcb runs fetch and execute until an instruction sets  *)
(* band_ejecutar.                                                          *)

restoCpu == <<consola, semaforos, planif, recursos, enIO, atiende, canalFs,
              memoria>>

\* The CPU runs p and fetch finds an instruction (past the end of the list it
\* would find NULL, and the CPU would go no further).
Corriendo(p) == /\ cpu = [estado |-> "ejecutando", pid |-> p]
                /\ pc[p] < Len(Programa[p])

\* atender_kernel of the CPU, EJECUTAR.  Any other opcode makes the CPU close
\* the connection.
CpuRecibe ==
    /\ Vivo
    /\ cpu.estado = "ociosa" /\ aCpu # <<>>
    /\ aCpu' = Tail(aCpu)
    /\ cpu' = IF Head(aCpu).op = "EJECUTAR"
              THEN [estado |-> "ejecutando", pid |-> Head(aCpu).pid]
              ELSE [estado |-> "desincronizada", pid |-> Nadie]
    /\ UNCHANGED <<restoCpu, pc, aKernel>>

\* An instruction the CPU carries out alone (SET, MOV_IN, MOV_OUT).
CpuLocal(p) ==
    /\ Vivo
    /\ Corriendo(p) /\ Siguiente(p).nombre = "SET"
    /\ pc' = [pc EXCEPT ![p] = @ + 1]
    /\ UNCHANGED <<restoCpu, cpu, aCpu, aKernel>>

\* An instruction that sends the PCB to the kernel and waits for the answer.
CpuConsulta(p) ==
    /\ Vivo
    /\ Corriendo(p) /\ Siguiente(p).nombre \in ConRespuesta
    /\ pc' = [pc EXCEPT ![p] = @ + 1]
    /\ aKernel' = Append(aKernel, Mensaje(OperacionDe[Siguiente(p).nombre], p))
    /\ cpu' = [cpu EXCEPT !.estado = "esperando"]
    /\ UNCHANGED <<restoCpu, aCpu>>

\* An instruction that sends the PCB to the kernel and sets band_ejecutar.
CpuEntrega(p) ==
    /\ Vivo
    /\ Corriendo(p) /\ Siguiente(p).nombre \in SinRespuesta
    /\ pc' = [pc EXCEPT ![p] = @ + 1]
    /\ aKernel' = Append(aKernel, Mensaje(OperacionDe[Siguiente(p).nombre], p))
    /\ cpu' = CpuOciosa
    /\ UNCHANGED <<restoCpu, aCpu>>

\* The answers after which the process goes on, and those that stop it.
Sigue ==
    [WAIT |-> "CONTINUAR", SIGNAL |-> "RESULT_1", F_READ |-> "CONTINUAR",
     CREATE_SEGMENT |-> "EJECUTAR", DELETE_SEGMENT |-> "EJECUTAR"]
Para ==
    [WAIT |-> "DETENER", SIGNAL |-> "RESULT_0", F_READ |-> "DETENER",
     CREATE_SEGMENT |-> "FINALIZAR", DELETE_SEGMENT |-> "ninguna"]

\* What the CPU makes of the answer.  An opcode it does not expect leaves the
\* rest of that message in the stream, and everything it reads from then on
\* is out of step: the model follows it no further.
CpuRespuesta(p) ==
    /\ Vivo
    /\ cpu = [estado |-> "esperando", pid |-> p] /\ aCpu # <<>>
    /\ aCpu' = Tail(aCpu)
    /\ LET i == Actual(p).nombre
           op == Head(aCpu).op
       IN  cpu' = IF op = Sigue[i] THEN [cpu EXCEPT !.estado = "ejecutando"]
                  ELSE IF op = Para[i] THEN CpuOciosa
                  ELSE [estado |-> "desincronizada", pid |-> Nadie]
    /\ UNCHANGED <<restoCpu, pc, aKernel>>

-----------------------------------------------------------------------------
(* atender_cpu.                                                            *)

\* The request at the head of the connection, taken off it.
Llega(op, p) ==
    /\ Vivo
    /\ atiende = AtiendeLibre
    /\ aKernel # <<>> /\ Head(aKernel) = Mensaje(op, p)
    /\ aKernel' = Tail(aKernel)

Desalojado(p) ==
    /\ Llega("DESALOJADO", p)
    /\ AgregarAColaReady(p)
    /\ PostHabilitar
    /\ UNCHANGED <<consola, nuevos, hiloNew, hiloExec, semNuevo, semMulti,
                   mutexCompresion, recursos, enIO, laCpu, aCpu, atiende,
                   canalFs, memoria>>

restoRecurso == <<planif, semNuevo, semReady, semMulti, mutexCompresion,
                  hiloRecurso, enIO, laCpu, atiende, canalFs, memoria>>

\* ejecutar_wait.  For a resource that does not exist it answers CONTINUAR,
\* tells the console that the process ended and frees the CPU for another.
EjecutarWait(p) ==
    /\ Llega("EJECUTAR_WAIT", p)
    /\ LET r == Actual(p).param IN
       \/ /\ r \in Recursos /\ SinUnidad(r)
          /\ instancias' = [instancias EXCEPT ![r] = @ - 1]
          /\ colaRecurso' = [colaRecurso EXCEPT ![r] = Append(@, p)]
          /\ Responder("DETENER", p) /\ PostHabilitar
          /\ UNCHANGED <<consola, semRecurso>>
       \/ /\ r \in Recursos /\ ~SinUnidad(r)
          /\ instancias' = [instancias EXCEPT ![r] = @ - 1]
          /\ Responder("CONTINUAR", p)
          /\ UNCHANGED <<consola, colaRecurso, semRecurso, semHabilitar>>
       \/ /\ r \notin Recursos
          /\ Responder("CONTINUAR", p) /\ PostHabilitar
          /\ consola' = [consola EXCEPT ![p] = "terminada"]
          /\ UNCHANGED <<instancias, colaRecurso, semRecurso>>
    /\ UNCHANGED restoRecurso

\* ejecutar_signal.  For a resource that does not exist it answers 0, tells
\* the console that the process ended and frees the CPU for another.
EjecutarSignal(p) ==
    /\ Llega("EJECUTAR_SIGNAL", p)
    /\ LET r == Actual(p).param IN
       \/ /\ r \in Recursos
          /\ instancias' = [instancias EXCEPT ![r] = @ + 1]
          /\ semRecurso' = IF HayEnCola(r) THEN [semRecurso EXCEPT ![r] = @ + 1]
                           ELSE semRecurso
          /\ Responder("RESULT_1", p)
          /\ UNCHANGED <<consola, colaRecurso, semHabilitar>>
       \/ /\ r \notin Recursos
          /\ Responder("RESULT_0", p) /\ PostHabilitar
          /\ consola' = [consola EXCEPT ![p] = "terminada"]
          /\ UNCHANGED <<instancias, colaRecurso, semRecurso>>
    /\ UNCHANGED restoRecurso

EjecutarIO(p) ==
    /\ Llega("EJECUTAR_IO", p)
    /\ PostHabilitar
    /\ enIO' = enIO \union {p}
    /\ UNCHANGED <<consola, planif, semNuevo, semReady, semMulti,
                   mutexCompresion, recursos, laCpu, aCpu, atiende, canalFs,
                   memoria>>

\* LEER_ARCHIVO, ESCRIBIR_ARCHIVO, MODIFICAR_TAMANIO: the process waits for
\* the file system, and no compaction may start until it answers.
Transferir(p) ==
    /\ Llega("LEER_ARCHIVO", p)
    /\ WaitCompresion
    /\ aFs' = Append(aFs, p)
    /\ Responder("DETENER", p) /\ PostHabilitar
    /\ UNCHANGED <<consola, planif, semNuevo, semReady, semMulti, recursos,
                   enIO, laCpu, atiende, deFs, memoria>>

\* CREAR_SEGMENTO, ELIMINAR_SEGMENTO: the request goes to the memory and
\* atender_cpu enters analizar_resultado.
PedirSegmento(p) ==
    \E op \in {"CREAR_SEGMENTO", "ELIMINAR_SEGMENTO"} :
        /\ Llega(op, p)
        /\ aMemoria' = Append(aMemoria, Mensaje(op, p))
        /\ atiende' = [fase |-> "analizar", pid |-> p]
        /\ UNCHANGED <<consola, semaforos, planif, recursos, enIO, laCpu, aCpu,
                       canalFs, deMemoria, duenios, compactada>>

\* FINALIZAR, SEG_FAULT: the CPU and the slot are given back first ...
Finalizar(p) ==
    \E op \in {"FINALIZAR", "SEG_FAULT"} :
        /\ Llega(op, p)
        /\ PostHabilitar /\ PostMulti
        /\ atiende' = [fase |-> "notificar", pid |-> p]
        /\ UNCHANGED <<consola, planif, semNuevo, semReady, mutexCompresion,
                       recursos, enIO, laCpu, aCpu, canalFs, memoria>>

\* ... and then the memory and the console are told.
Notificar ==
    /\ Vivo
    /\ atiende.fase = "notificar"
    /\ EliminarProceso(atiende.pid)
    /\ consola' = [consola EXCEPT ![atiende.pid] = "finalizada"]
    /\ atiende' = AtiendeLibre
    /\ UNCHANGED <<semaforos, planif, recursos, enIO, laCpu, aCpu, aKernel,
                   canalFs, deMemoria, duenios, compactada>>

-----------------------------------------------------------------------------
(* analizar_resultado: the answers of the memory.                          *)

Resultado(op) ==
    /\ Vivo
    /\ atiende.fase = "analizar"
    /\ deMemoria # <<>> /\ Head(deMemoria) = op
    /\ deMemoria' = Tail(deMemoria)
    /\ UNCHANGED <<planif, semNuevo, semReady, recursos, enIO, laCpu, aKernel,
                   canalFs, duenios, compactada>>

CreacionExitosa ==
    /\ Resultado("CREACION_EXITOSA")
    /\ Responder("EJECUTAR", atiende.pid)
    /\ atiende' = AtiendeLibre
    /\ UNCHANGED <<consola, semMulti, semHabilitar, mutexCompresion, aMemoria>>

\* sem_wait(mutex_compresion): waits for the transfer under way.
RealizarCompactacion ==
    /\ Resultado("REALIZAR_COMPACTACION")
    /\ WaitCompresion
    /\ aMemoria' = Append(aMemoria, Mensaje("REALIZAR_COMPACTACION", Nadie))
    /\ UNCHANGED <<consola, semMulti, semHabilitar, aCpu, atiende>>

Compactar ==
    /\ Resultado("COMPACTAR")
    /\ aMemoria' = Append(aMemoria, Mensaje("CREAR_SEGMENTO", atiende.pid))
    /\ mutexCompresion' = mutexCompresion + 1
    /\ UNCHANGED <<consola, semMulti, semHabilitar, aCpu, atiende>>

SinMemoria ==
    /\ Resultado("SIN_MEMORIA")
    /\ EliminarProceso(atiende.pid)
    /\ Responder("FINALIZAR", atiende.pid)
    /\ consola' = [consola EXCEPT ![atiende.pid] = "finalizada"]
    /\ PostHabilitar /\ PostMulti
    /\ atiende' = AtiendeLibre
    /\ UNCHANGED mutexCompresion

-----------------------------------------------------------------------------
(* The threads that put blocked processes back in READY.                   *)

\* ejecutar_IO: sleep, then agregar_a_cola_ready.
TerminarIO(p) ==
    /\ Vivo
    /\ p \in enIO
    /\ enIO' = enIO \ {p}
    /\ AgregarAColaReady(p)
    /\ UNCHANGED <<consola, nuevos, hiloNew, hiloExec, semNuevo, semMulti,
                   semHabilitar, mutexCompresion, recursos, laCpu, aCpu,
                   aKernel, atiende, canalFs, memoria>>

\* iniciar_recurso: sem_wait(sem_recurso) ...
RecursoDespierta(r) ==
    /\ Vivo
    /\ hiloRecurso[r] = "espera" /\ semRecurso[r] > 0
    /\ semRecurso' = [semRecurso EXCEPT ![r] = @ - 1]
    /\ hiloRecurso' = [hiloRecurso EXCEPT ![r] = "saca"]
    /\ UNCHANGED <<consola, semaforos, planif, instancias, colaRecurso, enIO,
                   laCpu, aCpu, aKernel, atiende, canalFs, memoria>>

\* ... then queue_pop, which returns NULL on an empty queue, and
\* agregar_a_cola_ready.
RecursoSaca(r) ==
    /\ kernel = "vivo"
    /\ hiloRecurso[r] = "saca"
    /\ hiloRecurso' = [hiloRecurso EXCEPT ![r] = "espera"]
    /\ \/ /\ colaRecurso[r] # <<>>
          /\ colaRecurso' = [colaRecurso EXCEPT ![r] = Tail(@)]
          /\ AgregarAColaReady(Head(colaRecurso[r]))
          /\ UNCHANGED kernel
       \/ /\ colaRecurso[r] = <<>>
          /\ kernel' = "caido"
          /\ UNCHANGED <<colaRecurso, listos, semReady>>
    /\ UNCHANGED <<consola, nuevos, hiloNew, hiloExec, semNuevo, semMulti,
                   semHabilitar, mutexCompresion, instancias, semRecurso, enIO,
                   laCpu, aCpu, aKernel, atiende, canalFs, memoria>>

\* atender_fileSystem, DESBLOQUEADO.
Desbloqueado ==
    /\ Vivo
    /\ deFs # <<>>
    /\ deFs' = Tail(deFs)
    /\ mutexCompresion' = mutexCompresion + 1
    /\ AgregarAColaReady(Head(deFs))
    /\ UNCHANGED <<consola, nuevos, hiloNew, hiloExec, semNuevo, semMulti,
                   semHabilitar, recursos, enIO, laCpu, aCpu, aKernel, atiende,
                   aFs, memoria>>

-----------------------------------------------------------------------------
(* The other modules, as the kernel sees them.                             *)

\* The file system serves one transfer at a time.
FileSystem ==
    /\ Vivo
    /\ aFs # <<>>
    /\ aFs' = Tail(aFs) /\ deFs' = Append(deFs, Head(aFs))
    /\ UNCHANGED <<consola, semaforos, planif, recursos, enIO, laCpu, aCpu,
                   aKernel, atiende, memoria>>

\* The memory serves requests in order.  After a compaction the segment fits:
\* it asks for one only when the holes together are large enough.
Memoria ==
    /\ Vivo
    /\ aMemoria # <<>>
    /\ aMemoria' = Tail(aMemoria)
    /\ LET m == Head(aMemoria)
           Contesta(op) == deMemoria' = Append(deMemoria, op) IN
       \/ /\ m.op = "CREAR_SEGMENTO"
          /\ \/ Contesta("CREACION_EXITOSA") /\ duenios' = duenios \union {m.pid}
             \/ /\ ~compactada
                /\ \/ Contesta("REALIZAR_COMPACTACION")
                   \/ Contesta("SIN_MEMORIA")
                /\ UNCHANGED duenios
          /\ compactada' = FALSE
       \/ /\ m.op = "ELIMINAR_SEGMENTO"
          /\ Contesta("CREACION_EXITOSA")
          /\ duenios' \in {duenios, duenios \ {m.pid}}
          /\ UNCHANGED compactada
       \/ /\ m.op = "REALIZAR_COMPACTACION"
          /\ Contesta("COMPACTAR")
          /\ compactada' = TRUE /\ UNCHANGED duenios
       \/ /\ m.op = "FINALIZAR"
          /\ duenios' = duenios \ {m.pid}
          /\ UNCHANGED <<deMemoria, compactada>>
    /\ UNCHANGED <<consola, semaforos, planif, recursos, enIO, laCpu, aCpu,
                   aKernel, atiende, canalFs>>

DeConsolas == \E p \in Procesos : Conectar(p)
HiloNew == NewDespierta \/ NewDuerme \/ Admitir
HiloExec == ExecDespierta \/ ExecDuerme \/ TomarCpu \/ Despachar
Cpu == \/ CpuRecibe
       \/ \E p \in Procesos :
             CpuLocal(p) \/ CpuConsulta(p) \/ CpuEntrega(p) \/ CpuRespuesta(p)
AtenderCpu ==
    \/ \E p \in Procesos :
          \/ Desalojado(p) \/ EjecutarWait(p) \/ EjecutarSignal(p)
          \/ EjecutarIO(p) \/ Transferir(p) \/ PedirSegmento(p)
          \/ Finalizar(p)
    \/ Notificar
    \/ CreacionExitosa \/ RealizarCompactacion \/ Compactar \/ SinMemoria
IniciarRecurso(r) == RecursoDespierta(r) \/ RecursoSaca(r)

Next ==
    \/ DeConsolas
    \/ HiloNew \/ HiloExec \/ Cpu \/ AtenderCpu
    \/ \E p \in Procesos : TerminarIO(p)
    \/ \E r \in Recursos : IniciarRecurso(r)
    \/ Desbloqueado \/ FileSystem \/ Memoria

\* Each thread keeps being scheduled, and a semaphore has one waiter at most,
\* so that weak fairness is what the operating system gives.  Nothing makes a
\* console connect.
Justicia ==
    /\ WF_vars(HiloNew)
    /\ WF_vars(HiloExec)
    /\ WF_vars(Cpu)
    /\ WF_vars(AtenderCpu)
    /\ \A p \in Procesos : WF_vars(TerminarIO(p))
    /\ \A r \in Recursos : WF_vars(IniciarRecurso(r))
    /\ WF_vars(Desbloqueado)
    /\ WF_vars(FileSystem)
    /\ WF_vars(Memoria)

Spec == Init /\ [][Next]_vars
SpecJusta == Spec /\ Justicia

-----------------------------------------------------------------------------
(* Where a process is.                                                     *)

\* The answer that stops the process of the CPU is on its way: the kernel has
\* already put the PCB somewhere else.
Parando == /\ cpu.estado = "esperando" /\ aCpu # <<>>
           /\ Head(aCpu).op = Para[Actual(cpu.pid).nombre]

\* An EJECUTAR that dispatches a process, and not the answer to a request.
EsDespacho(i) == aCpu[i].op = "EJECUTAR" /\ (i > 1 \/ cpu.estado # "esperando")

\* The request at this place of conexion_cpu carries the only PCB.
EsEntrega(i) ==
    aKernel[i].op \in {OperacionDe[n] : n \in SinRespuesta}

Sitios(s, p, nombre) == {<<nombre, i>> : i \in {j \in DOMAIN s : s[j] = p}}
Lugares(p) ==
    UNION {Sitios(nuevos, p, "new"), Sitios(listos, p, "ready"),
           UNION {Sitios(colaRecurso[r], p, r) : r \in Recursos},
           Sitios(aFs, p, "aFs"), Sitios(deFs, p, "deFs"),
           {<<"io", 1>> : q \in enIO \intersect {p}},
           {<<"cpu", 1>> : q \in {cpu.pid} \intersect IF Parando THEN {} ELSE {p}},
           {<<"aCpu", i>> : i \in {j \in DOMAIN aCpu :
                                    EsDespacho(j) /\ aCpu[j].pid = p}},
           {<<"aKernel", i>> : i \in {j \in DOMAIN aKernel :
                                      EsEntrega(j) /\ aKernel[j].pid = p}}}

\* The permission to use the CPU, free or in the hands of the dispatcher.
Permiso == semHabilitar + IF hiloExec = "elige" THEN 1 ELSE 0

Saliendo(p) == atiende = [fase |-> "notificar", pid |-> p]

\* Processes between their admission and their end.
Admitidos ==
    {p \in Procesos : /\ consola[p] = "activa" /\ ~Saliendo(p)
                      /\ Sitios(nuevos, p, "new") = {}}

\* How many units of r a process holds: its WAITs that were granted less its
\* SIGNALs, counting the instructions the kernel has served.
Servidas(p) ==
    pc[p] - Cardinality({i \in DOMAIN aKernel :
                aKernel[i].pid = p /\ ~EsEntrega(i)})
\* How many of the first k instructions of p are an n for a resource of R.
Veces(p, k, n, R) ==
    Cardinality({i \in 1 .. k :
        Programa[p][i].nombre = n /\ Programa[p][i].param \in R})
Cuenta(p, n, r) == Veces(p, Servidas(p), n, {r})
Posee(p, r) ==
    Cuenta(p, "WAIT", r) - Cuenta(p, "SIGNAL", r)
        - Cardinality(Sitios(colaRecurso[r], p, r))

\* Wake-ups of r under way: a post not yet taken, or taken and not yet used.
EnCamino(r) == semRecurso[r] + IF hiloRecurso[r] = "saca" THEN 1 ELSE 0

-----------------------------------------------------------------------------
AlCpu == [op : {"EJECUTAR", "CONTINUAR", "DETENER", "FINALIZAR", "RESULT_0",
                "RESULT_1"}, pid : Procesos]
AlKernel == [op : {OperacionDe[n] : n \in ConRespuesta \union SinRespuesta},
             pid : Procesos]
AMemoria == [op : {"CREAR_SEGMENTO", "ELIMINAR_SEGMENTO", "FINALIZAR"}, pid : Procesos]
                \union {Mensaje("REALIZAR_COMPACTACION", Nadie)}

TypeOK ==
    /\ consola \in [Procesos -> {"fuera", "activa", "terminada", "finalizada"}]
    /\ nuevos \in Seq(Procesos) /\ listos \in Seq(Procesos)
    /\ semNuevo \in Nat /\ semReady \in Nat
    /\ semMulti \in Nat /\ semHabilitar \in Nat /\ mutexCompresion \in Nat
    /\ hiloNew \in {"espera", "ciclo"} /\ hiloExec \in {"espera", "ciclo", "elige"}
    /\ instancias \in [Recursos -> Int]
    /\ colaRecurso \in [Recursos -> Seq(Procesos)]
    /\ semRecurso \in [Recursos -> Nat]
    /\ hiloRecurso \in [Recursos -> {"espera", "saca"}]
    /\ enIO \subseteq Procesos
    /\ pc \in [Procesos -> Nat] /\ \A p \in Procesos : pc[p] <= Len(Programa[p])
    /\ \/ cpu \in [estado : {"ejecutando", "esperando"}, pid : Procesos]
       \/ cpu = CpuOciosa
       \/ cpu = [estado |-> "desincronizada", pid |-> Nadie]
    /\ aCpu \in Seq(AlCpu) /\ aKernel \in Seq(AlKernel)
    /\ \/ atiende \in [fase : {"analizar", "notificar"}, pid : Procesos]
       \/ atiende = AtiendeLibre
    /\ aFs \in Seq(Procesos) /\ deFs \in Seq(Procesos)
    /\ aMemoria \in Seq(AMemoria)
    /\ deMemoria \in Seq({"CREACION_EXITOSA", "REALIZAR_COMPACTACION",
                          "COMPACTAR", "SIN_MEMORIA"})
    /\ duenios \subseteq Procesos /\ compactada \in BOOLEAN
    /\ kernel \in {"vivo", "caido"}

\* Every process a console handed in and that has not ended is in exactly one
\* place (a queue, a message, the CPU, a thread), and one that has ended in
\* none: the six threads that pass PCBs around never lose or duplicate one.  The
\* sort of HRRN takes PCBs out of the ready list, so that this is about FIFO.
UnSoloLugar ==
    \A p \in Procesos :
        Cardinality(Lugares(p)) =
            IF consola[p] = "activa" /\ ~Saliendo(p) THEN 1 ELSE 0

\* The CPU and atender_cpu stay in step: the CPU never reads an opcode other
\* than the answer it waits for (a dispatch in its place would be read as that
\* answer), and the permission that sem_habilitar_exec counts is free, or in the
\* hands of the dispatcher, only when nobody has the CPU.
DialogoCpu ==
    /\ cpu.estado # "desincronizada"
    /\ Permiso + Cardinality({i \in DOMAIN aCpu : EsDespacho(i)})
         + Cardinality({i \in DOMAIN aKernel : EsEntrega(i)})
         + (IF cpu.estado # "ociosa" /\ ~Parando THEN 1 ELSE 0) = 1

\* The degree of multiprogramming: the slots not in use are exactly those that
\* sem_multiprogramacion counts, whatever way the processes ended.
GradoRespetado == semMulti + Cardinality(Admitidos) = Grado

\* Wake-ups match waiters: the processes in the queue of a resource are those
\* that wait for a unit and those already woken; nobody waits next to a free
\* unit, and the thread of the resource never pops an empty queue.
EsperasJustas ==
    \A r \in Recursos :
        Len(colaRecurso[r]) = EnCamino(r)
            + IF instancias[r] < 0 THEN -instancias[r] ELSE 0

\* The units of a resource that processes hold never exceed INSTANCIAS_RECURSOS.
ExclusionDeRecursos ==
    \A r \in Recursos :
        Cardinality({p \in Procesos : Posee(p, r) > 0}) <= Instancias[r]

\* mutex_compresion: no compaction while the file system copies to or from
\* memory, and one transfer at a time.
Compactando ==
    \/ \E i \in DOMAIN aMemoria : aMemoria[i].op = "REALIZAR_COMPACTACION"
    \/ \E i \in DOMAIN deMemoria : deMemoria[i] = "COMPACTAR"
CompactacionExclusiva ==
    mutexCompresion + Len(aFs) + Len(deFs) + (IF Compactando THEN 1 ELSE 0) = 1

\* A process whose console was told that it ended has no segments in the memory,
\* or the request that frees them is already in the connection.
MemoriaLiberada ==
    \A p \in duenios :
        consola[p] \in {"terminada", "finalizada"} =>
            \E i \in DOMAIN aMemoria : aMemoria[i] = Mensaje("FINALIZAR", p)

\* The log of ejecutar_wait and ejecutar_signal for a resource that does not
\* exist: "El recurso no existe, el proceso finaliza".  Nothing of the process is
\* left in the kernel or the CPU, and the memory frees its segments.
SinRecursoFinaliza ==
    MemoriaLiberada /\ \A p \in Procesos : consola[p] = "terminada" => Lugares(p) = {}

\* The thread of a resource survives every SIGNAL.
KernelVivo == kernel = "vivo"

-----------------------------------------------------------------------------
(* Where the threads wait: at a semaphore, at an empty connection or queue.    *)

EsperaNew == \/ hiloNew = "espera" /\ semNuevo = 0
             \/ hiloNew = "ciclo" /\ nuevos # <<>> /\ semMulti = 0
EsperaExec == \/ hiloExec = "espera" /\ semReady = 0
              \/ hiloExec = "ciclo" /\ listos # <<>> /\ semHabilitar = 0
EsperaCpu == \/ cpu.estado \in {"ociosa", "esperando"} /\ aCpu = <<>>
             \/ cpu.estado = "ejecutando" /\ pc[cpu.pid] >= Len(Programa[cpu.pid])
             \/ cpu.estado = "desincronizada"
EsperaAtender ==
    \/ /\ atiende = AtiendeLibre
       /\ aKernel # <<>> => Head(aKernel).op = "LEER_ARCHIVO" /\ mutexCompresion = 0
    \/ /\ atiende.fase = "analizar"
       /\ deMemoria # <<>> => Head(deMemoria) = "REALIZAR_COMPACTACION" /\ mutexCompresion = 0
EsperaRecurso(r) == hiloRecurso[r] = "espera" /\ semRecurso[r] = 0

TodosEsperan ==
    /\ EsperaNew /\ EsperaExec /\ EsperaCpu /\ EsperaAtender
    /\ \A r \in Recursos : EsperaRecurso(r)
    /\ enIO = {} /\ aFs = <<>> /\ deFs = <<>> /\ aMemoria = <<>>

EsperaUnidad(p) ==
    \E r \in Recursos : instancias[r] < 0 /\ \E i \in DOMAIN colaRecurso[r] : colaRecurso[r][i] = p

\* p waits for a unit of a resource, or in NEW for a slot that a process that so
\* waits holds.
Atascado(p) ==
    \/ EsperaUnidad(p)
    \/ /\ Sitios(nuevos, p, "new") # {} /\ semMulti = 0
       /\ \E q \in Admitidos : EsperaUnidad(q)

\* When every thread waits, every process that has not ended waits for a unit of
\* a resource nobody will give back, or in NEW for a slot that a process that so
\* waits holds: no wake-up, dispatch, answer or slot is ever lost, whatever
\* consoles are still to come.
QuietoSoloPorRecursos ==
    kernel = "vivo" /\ TodosEsperan =>
        \A p \in Procesos : consola[p] = "activa" => Atascado(p)

\* Every process a console hands in ends, unless the programs wait for each other
\* in a circle and all that is left is stuck in it: the threads never go round
\* without getting anywhere, nor pass over a process forever.
TodosTerminan ==
    \A p \in Procesos :
        consola[p] = "activa" ~> consola[p] = "finalizada" \/ (TodosEsperan /\ Atascado(p))

-----------------------------------------------------------------------------
(* Inductive invariants.                                                   *)

\* Every WAIT and SIGNAL names a resource of the configuration.
RecursosConocidos ==
    \A p \in Procesos : \A i \in DOMAIN Programa[p] :
        Programa[p][i].nombre \in ConParametro => Programa[p][i].param \in Recursos

Libera(m) == m.op = "FINALIZAR"

\* The connection with the memory: besides the notices that a process ended,
\* one request or its answer, while atender_cpu is in analizar_resultado.
ConversacionMemoria ==
    /\ \A i \in 1 .. Len(aMemoria) - 1 : Libera(aMemoria[i])
    /\ \/ /\ atiende.fase # "analizar"
          /\ deMemoria = <<>>
          /\ \A i \in 1 .. Len(aMemoria) : Libera(aMemoria[i])
       \/ /\ atiende.fase = "analizar"
          /\ deMemoria = <<>> /\ Len(aMemoria) > 0
          /\ ~Libera(aMemoria[Len(aMemoria)])
          /\ aMemoria[Len(aMemoria)].op = "ELIMINAR_SEGMENTO" <=>
                Actual(atiende.pid).nombre = "DELETE_SEGMENT"
       \/ /\ atiende.fase = "analizar"
          /\ Len(deMemoria) = 1
          /\ \A i \in 1 .. Len(aMemoria) : Libera(aMemoria[i])
          /\ deMemoria[1] # "CREACION_EXITOSA" =>
                Actual(atiende.pid).nombre # "DELETE_SEGMENT"

\* The conversation between the CPU and atender_cpu, phase by phase: the state of
\* the CPU, what is in each direction of the connection, and the semaphore.
Pedida == Actual(cpu.pid).nombre
Analizando == atiende.fase = "analizar"
Vacios == aCpu = <<>> /\ aKernel = <<>>
FaseLibre == /\ cpu.estado = "ociosa" /\ Vacios /\ ~Analizando
             /\ Permiso = 1
FaseDespacho == /\ cpu.estado = "ociosa" /\ aKernel = <<>> /\ ~Analizando
                /\ Len(aCpu) = 1 /\ aCpu[1].op = "EJECUTAR" /\ Permiso = 0
FaseEntrega == /\ cpu.estado = "ociosa" /\ aCpu = <<>> /\ ~Analizando
               /\ Len(aKernel) = 1 /\ EsEntrega(1) /\ Permiso = 0
FaseCorre == /\ cpu.estado = "ejecutando" /\ Vacios /\ ~Analizando
             /\ Permiso = 0
FasePedido == /\ cpu.estado = "esperando" /\ aCpu = <<>> /\ ~Analizando
              /\ Len(aKernel) = 1 /\ aKernel[1] = Mensaje(OperacionDe[Pedida], cpu.pid)
              /\ Permiso = 0
FaseAnaliza == /\ cpu.estado = "esperando" /\ Vacios /\ Analizando
               /\ atiende.pid = cpu.pid /\ Permiso = 0
               /\ Pedida \in {"CREATE_SEGMENT", "DELETE_SEGMENT"}
FaseSigue == /\ cpu.estado = "esperando" /\ aKernel = <<>> /\ ~Analizando
             /\ Len(aCpu) = 1 /\ aCpu[1].op = Sigue[Pedida] /\ Permiso = 0
FasePara == /\ cpu.estado = "esperando" /\ aKernel = <<>> /\ ~Analizando
            /\ \/ Len(aCpu) = 1 /\ Permiso = 1
               \/ Len(aCpu) = 2 /\ aCpu[2].op = "EJECUTAR" /\ Permiso = 0
            /\ aCpu[1].op = Para[Pedida]
Dialogo ==
    /\ cpu.estado = "esperando" =>
          pc[cpu.pid] \in 1 .. Len(Programa[cpu.pid]) /\ Pedida \in ConRespuesta
    /\ \/ FaseLibre \/ FaseDespacho \/ FaseEntrega \/ FaseCorre \/ FasePedido
       \/ FaseAnaliza \/ FaseSigue \/ FasePara

-----------------------------------------------------------------------------
(* The life of a process as the log of the kernel tells it.                *)

EnCola(p, r) == Sitios(colaRecurso[r], p, r) # {}
EstadoDe(p) ==
    CASE consola[p] = "fuera" -> "fuera"
      [] consola[p] = "finalizada" \/ Saliendo(p) -> "exit"
      [] Sitios(nuevos, p, "new") # {} -> "new"
      [] Sitios(listos, p, "ready") # {} -> "ready"
      [] \/ p \in enIO
         \/ Sitios(aFs, p, "aFs") \union Sitios(deFs, p, "deFs") # {}
         \/ \E r \in Recursos : EnCola(p, r) -> "block"
      [] OTHER -> "exec"

Ciclo == INSTANCE CicloDeVida WITH
    estado <- [p \in Procesos |-> EstadoDe(p)],
    espera <- [p \in Procesos |->
                  IF \E r \in Recursos : EnCola(p, r)
                  THEN CHOOSE r \in Recursos : EnCola(p, r) ELSE Nadie],
    libres <- [r \in Recursos |-> instancias[r] + Len(colaRecurso[r])]

\* The kernel keeps the promise of CicloDeVida when every WAIT and SIGNAL names
\* a resource: one process in EXEC, Grado admitted, and a unit goes to whoever
\* waits for it before anybody else.
CicloCumplido == Ciclo!Spec

=============================================================================
