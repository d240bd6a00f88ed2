------------------------------- MODULE Archivos -------------------------------
(***************************************************************************)
(* The files that processes open (kernel/src/kernel.c): the global table   *)
(* of open files, the queue and the thread of each one, the pointers that  *)
(* each PCB keeps, and the two conversations that an F_OPEN goes through:  *)
(* with the CPU (atender_cpu) and with the file system                     *)
(* (atender_fileSystem).                                                   *)
(*                                                                         *)
(* Processes run any sequence of instructions on files, up to MaxPedidos.  *)
(* The careful ones close what they have open, nothing else, do not open   *)
(* it twice, have closed all when they end, and read only what the file    *)
(* has; the careless ones (descuidados) do what they please.  The          *)
(* scheduler and the conversation with the CPU are those of Planificador,  *)
(* so READY is a set here and an instruction is one step with the part of  *)
(* atender_cpu that serves it; what the file system answers comes later.   *)
(*                                                                         *)
(* The thread iniciar_archivo of a file that is freed goes on waiting for  *)
(* a semaphore that nobody posts, or that the same file or another one     *)
(* takes over; it does then what the new thread would, so the model has    *)
(* one per file.                                                           *)
(***************************************************************************)
EXTENDS Integers, Sequences, FiniteSets

CONSTANTS
    Procesos,
    Archivos,       \* names of files
    Nombra,         \* the files that the program of each process names
    Posiciones,     \* positions that F_SEEK asks for
    MaxPedidos,     \* bound on the instructions of each process
    Sueltos,        \* the processes that may be careless
    Nadie           \* no process

ASSUME NadieAssumption == Nadie \notin Procesos
ASSUME NombraAssumption == Nombra \in [Procesos -> SUBSET Archivos]
ASSUME PosicionesAssumption == Posiciones \subseteq Nat \ {0}
ASSUME MaxPedidosAssumption == MaxPedidos \in [Procesos -> Nat]
ASSUME SueltosAssumption == Sueltos \subseteq Procesos

VARIABLES
    lista,              \* lista_archivos_abiertos
    cola,               \* t_archivo.cola_archivo
    semArchivo,         \* t_archivo.sem_archivo
    archivosAbiertos,   \* pcb->archivos_abiertos
    listos,             \* the processes in READY
    cpu,                \* what the CPU does and for which process
    mutexCompresion,
    aFs, deFs,          \* the two directions of conexion_filesystem
    enDisco,            \* the files with an FCB
    fs,                 \* the file system: "vivo", or "caido" when it uses NULL
    terminados,         \* the processes that ended
    kernel,             \* "vivo", or "caido": it uses NULL or a freed file, or exits
    pedidos,            \* how many instructions each process ran
    descuidados,        \* the careless processes
    usa,                \* history: who was given each file and did not close it
    esperado            \* history: where the next access of each process should be

tablas == <<lista, cola, semArchivo>>
canalFs == <<aFs, deFs, enDisco, fs, mutexCompresion>>
historia == <<usa, esperado>>
vars == <<tablas, archivosAbiertos, listos, cpu, canalFs, terminados, kernel,
          pedidos, descuidados, historia>>

CpuOciosa == [estado |-> "ociosa", pid |-> Nadie]
Corre(p) == [estado |-> "ejecutando", pid |-> p]
Espera(p) == [estado |-> "esperando", pid |-> p]

\* A message carries a PCB, of which these fields matter.
Mensaje(op, p, f, pos) == [op |-> op, pid |-> p, arch |-> f, pos |-> pos]
Pedido(op, p, f) == Mensaje(op, p, f, 0)

Init ==
    /\ lista = {}
    /\ cola = [f \in Archivos |-> <<>>]
    /\ semArchivo = [f \in Archivos |-> 0]
    /\ archivosAbiertos = [p \in Procesos |-> <<>>]
    /\ listos = Procesos
    /\ cpu = CpuOciosa
    /\ mutexCompresion = 1
    /\ aFs = <<>> /\ deFs = <<>>
    /\ enDisco \in SUBSET Archivos
    /\ fs = "vivo"
    /\ terminados = {}
    /\ kernel = "vivo"
    /\ pedidos = [p \in Procesos |-> 0]
    /\ descuidados \in SUBSET Sueltos
    /\ usa = [f \in Archivos |-> {}]
    /\ esperado = [p \in Procesos |-> [f \in Archivos |-> 0]]

-----------------------------------------------------------------------------
(* The pointers of a PCB.                                                  *)

\* The entries that a PCB has for a file: closing it removes none.
Entradas(p, f) ==
    {i \in DOMAIN archivosAbiertos[p] : archivosAbiertos[p][i].dir = f}
Primera(p, f) == CHOOSE i \in Entradas(p, f) : \A j \in Entradas(p, f) : i <= j
Ultima(p, f) == CHOOSE i \in Entradas(p, f) : \A j \in Entradas(p, f) : i >= j

\* What an F_OPEN that gets the file, now or later, adds to the PCB.
AgregarEntrada(p, f) ==
    /\ archivosAbiertos' = [archivosAbiertos EXCEPT
                               ![p] = Append(@, [dir |-> f, punt |-> 0])]
    /\ esperado' = [esperado EXCEPT ![p][f] = 0]

\* actualizar_puntero stops at the first entry; a mistaken version goes on to
\* the last one.
ActualizaMal(p, f) == Ultima(p, f)
Actualiza(p, f) == Primera(p, f)

\* buscar_puntero: without an entry the result is not initialised.
BuscarPuntero(p, f) ==
    IF Entradas(p, f) = {} THEN {0} \union Posiciones
    ELSE {archivosAbiertos[p][Primera(p, f)].punt}

-----------------------------------------------------------------------------
Vivo == kernel = "vivo" /\ UNCHANGED kernel

\* The CPU takes a process from READY.
Despachar(p) ==
    /\ Vivo
    /\ cpu = CpuOciosa /\ p \in listos
    /\ cpu' = Corre(p)
    /\ listos' = listos \ {p}
    /\ UNCHANGED <<tablas, archivosAbiertos, canalFs, terminados, pedidos,
                   descuidados, historia>>

\* A process runs its next instruction.
Instruccion(p) ==
    /\ cpu = Corre(p)
    /\ pedidos[p] < MaxPedidos[p]
    /\ pedidos' = [pedidos EXCEPT ![p] = @ + 1]
    /\ UNCHANGED <<descuidados, enDisco, fs>>

\* queue_push; a mistaken version gets ahead of the others.
EncolarMal(c, p) == <<p>> \o c
Encolar(c, p) == Append(c, p)

\* F_OPEN of a file in the table: contiene_archivo puts the PCB in its queue.
AbrirContenido(p, f) ==
    /\ Vivo
    /\ Instruccion(p)
    /\ p \in usa[f] => p \in descuidados
    /\ f \in lista
    /\ AgregarEntrada(p, f)
    /\ cola' = [cola EXCEPT ![f] = Encolar(@, p)]
    /\ cpu' = CpuOciosa
    /\ UNCHANGED <<lista, semArchivo, listos, aFs, deFs, mutexCompresion,
                   terminados, usa>>

\* F_OPEN of a file that is not: the file system is asked, the CPU waits.
AbrirOtro(p, f) ==
    /\ Vivo
    /\ Instruccion(p)
    /\ p \in usa[f] => p \in descuidados
    /\ f \notin lista
    /\ aFs' = Append(aFs, Pedido("ABRIR_ARCHIVO", p, f))
    /\ cpu' = Espera(p)
    /\ UNCHANGED <<tablas, archivosAbiertos, listos, deFs, mutexCompresion,
                   terminados, historia>>

\* cerrar_archivo wakes the first waiter, or forgets the file; a mistaken
\* version forgets it in any case.
HayColaMal(f) == Len(cola[f]) < 0
HayCola(f) == cola[f] # <<>>

\* sem_post(sem_archivo), left out, and done twice.
PostArchivoMal(f) == f \in Archivos /\ UNCHANGED semArchivo
PostArchivoDobleMal(f) == semArchivo' = [semArchivo EXCEPT ![f] = @ + 2]
PostArchivo(f) == semArchivo' = [semArchivo EXCEPT ![f] = @ + 1]

\* F_CLOSE.  If a wake-up of the file is on its way when it is freed, its
\* thread uses it afterwards: the model follows the kernel no further.
Cerrar(p, f) ==
    /\ kernel = "vivo"
    /\ cpu = Corre(p)
    /\ \/ p \notin descuidados /\ p \in usa[f] /\ UNCHANGED pedidos
       \/ /\ p \in descuidados /\ pedidos[p] < MaxPedidos[p]
          /\ pedidos' = [pedidos EXCEPT ![p] = @ + 1]
    /\ usa' = [usa EXCEPT ![f] = @ \ {p}]
    /\ \/ /\ f \in lista /\ ~HayCola(f)
          /\ lista' = lista \ {f}
          /\ kernel' = IF semArchivo[f] > 0 THEN "caido" ELSE kernel
          /\ UNCHANGED semArchivo
       \/ /\ f \in lista /\ HayCola(f)
          /\ PostArchivo(f)
          /\ UNCHANGED <<lista, kernel>>
       \/ /\ f \notin lista
          /\ UNCHANGED <<lista, semArchivo, kernel>>
    /\ UNCHANGED <<cola, archivosAbiertos, listos, cpu, canalFs, terminados,
                   descuidados, esperado>>

\* F_SEEK: actualizar_puntero.
Buscar(p, f, pos) ==
    /\ Vivo
    /\ Instruccion(p)
    /\ p \in usa[f] \union descuidados
    /\ archivosAbiertos' =
          IF Entradas(p, f) = {} THEN archivosAbiertos
          ELSE [archivosAbiertos EXCEPT ![p][Actualiza(p, f)].punt = pos]
    /\ esperado' = [esperado EXCEPT ![p][f] = pos]
    /\ UNCHANGED <<tablas, listos, cpu, aFs, deFs, mutexCompresion, terminados,
                   usa>>

\* sem_wait(mutex_compresion); a mistaken version does not take it.
WaitCompresionMal == UNCHANGED mutexCompresion
WaitCompresion == mutexCompresion > 0 /\ mutexCompresion' = mutexCompresion - 1

\* F_READ and F_WRITE: the process waits until the file system is done.
Transferir(p, f) ==
    /\ Vivo
    /\ Instruccion(p)
    /\ p \in usa[f] \union descuidados
    /\ WaitCompresion
    /\ \E pos \in BuscarPuntero(p, f) :
          aFs' = Append(aFs, Mensaje("LEER_ARCHIVO", p, f, pos))
    /\ cpu' = CpuOciosa
    /\ UNCHANGED <<tablas, archivosAbiertos, listos, deFs, terminados, historia>>

\* Any instruction after which the process is back in READY.
Ceder(p) ==
    /\ Vivo
    /\ Instruccion(p)
    /\ cpu' = CpuOciosa
    /\ listos' = listos \union {p}
    /\ UNCHANGED <<tablas, archivosAbiertos, aFs, deFs, mutexCompresion,
                   terminados, historia>>

\* FINALIZAR, SEG_FAULT: nothing is done about the files of the process.
Terminar(p) ==
    /\ Vivo
    /\ cpu = Corre(p)
    /\ p \notin descuidados => \A f \in Archivos : p \notin usa[f]
    /\ terminados' = terminados \union {p}
    /\ cpu' = CpuOciosa
    /\ UNCHANGED <<tablas, archivosAbiertos, listos, canalFs, pedidos,
                   descuidados, historia>>

\* iniciar_archivo: sem_wait, queue_pop, which returns NULL on an empty queue,
\* and agregar_a_cola_ready.
IniciarArchivo(f) ==
    /\ kernel = "vivo"
    /\ semArchivo[f] > 0
    /\ semArchivo' = [semArchivo EXCEPT ![f] = @ - 1]
    /\ \/ /\ cola[f] # <<>>
          /\ cola' = [cola EXCEPT ![f] = Tail(@)]
          /\ listos' = listos \union {Head(cola[f])}
          /\ usa' = [usa EXCEPT ![f] = @ \union {Head(cola[f])}]
          /\ UNCHANGED kernel
       \/ /\ cola[f] = <<>>
          /\ kernel' = "caido"
          /\ UNCHANGED <<cola, listos, usa>>
    /\ UNCHANGED <<lista, archivosAbiertos, cpu, canalFs, terminados, pedidos,
                   descuidados, esperado>>

-----------------------------------------------------------------------------
(* The file system: one request at a time, in order.                       *)

Contesta(op) ==
    /\ aFs' = Tail(aFs)
    /\ deFs' = Append(deFs, [Head(aFs) EXCEPT !.op = op])
    /\ UNCHANGED fs

\* An F_READ of an empty file or beyond its end: obtener_lista_de_bloques gives
\* no block, leer_datos uses the first one, NULL, and the process dies.
LeeSinBloques(p) ==
    /\ p \in descuidados
    /\ aFs' = Tail(aFs)
    /\ fs' = "caido"
    /\ UNCHANGED deFs

FileSystem ==
    /\ Vivo
    /\ fs = "vivo"
    /\ aFs # <<>>
    /\ LET m == Head(aFs) IN
       \/ /\ m.op = "ABRIR_ARCHIVO" /\ m.arch \in enDisco
          /\ Contesta("EXISTE_ARCHIVO")
          /\ UNCHANGED enDisco
       \/ /\ m.op = "ABRIR_ARCHIVO" /\ m.arch \notin enDisco
          /\ Contesta("CREAR_ARCHIVO")
          /\ UNCHANGED enDisco
       \/ /\ m.op = "CREAR_ARCHIVO"
          /\ Contesta("ARCHIVO_CREADO")
          /\ enDisco' = enDisco \union {m.arch}
       \/ /\ m.op = "LEER_ARCHIVO"
          /\ Contesta("DESBLOQUEADO") \/ LeeSinBloques(m.pid)
          /\ UNCHANGED enDisco
    /\ UNCHANGED <<tablas, archivosAbiertos, listos, cpu, mutexCompresion,
                   terminados, pedidos, descuidados, historia>>

-----------------------------------------------------------------------------
(* atender_fileSystem.                                                     *)

\* EXISTE_ARCHIVO, ARCHIVO_CREADO: crear_archivo, and the CPU goes on.
ArchivoAbierto ==
    /\ Vivo
    /\ deFs # <<>> /\ Head(deFs).op \in {"EXISTE_ARCHIVO", "ARCHIVO_CREADO"}
    /\ deFs' = Tail(deFs)
    /\ LET p == Head(deFs).pid
           f == Head(deFs).arch IN
       /\ lista' = lista \union {f}
       /\ cola' = [cola EXCEPT ![f] = <<>>]
       /\ semArchivo' = [semArchivo EXCEPT ![f] = 0]
       /\ AgregarEntrada(p, f)
       /\ usa' = [usa EXCEPT ![f] = @ \union {p}]
       /\ cpu' = Corre(p)
    /\ UNCHANGED <<listos, aFs, enDisco, fs, mutexCompresion, terminados,
                   pedidos, descuidados>>

\* CREAR_ARCHIVO: the file does not exist, and the kernel asks for it.
CrearArchivo ==
    /\ Vivo
    /\ deFs # <<>> /\ Head(deFs).op = "CREAR_ARCHIVO"
    /\ deFs' = Tail(deFs)
    /\ aFs' = Append(aFs, Head(deFs))
    /\ UNCHANGED <<tablas, archivosAbiertos, listos, cpu, enDisco, fs,
                   mutexCompresion, terminados, pedidos, descuidados, historia>>

\* DESBLOQUEADO: the transfer is done.
Desbloqueado ==
    /\ Vivo
    /\ deFs # <<>> /\ Head(deFs).op = "DESBLOQUEADO"
    /\ deFs' = Tail(deFs)
    /\ mutexCompresion' = mutexCompresion + 1
    /\ listos' = listos \union {Head(deFs).pid}
    /\ UNCHANGED <<tablas, archivosAbiertos, cpu, aFs, enDisco, fs, terminados,
                   pedidos, descuidados, historia>>

\* The connection is closed at the other end: exit(1).
Desconectado ==
    /\ kernel = "vivo"
    /\ fs = "caido" /\ deFs = <<>>
    /\ kernel' = "caido"
    /\ UNCHANGED <<tablas, archivosAbiertos, listos, cpu, canalFs, terminados,
                   pedidos, descuidados, historia>>

-----------------------------------------------------------------------------
Abrir(p, f) == AbrirContenido(p, f) \/ AbrirOtro(p, f)
Cpu ==
    \E p \in Procesos :
        \/ Despachar(p) \/ Ceder(p) \/ Terminar(p)
        \/ \E f \in Nombra[p] :
              \/ Abrir(p, f) \/ Cerrar(p, f) \/ Transferir(p, f)
              \/ \E pos \in Posiciones : Buscar(p, f, pos)
AtenderFileSystem == ArchivoAbierto \/ CrearArchivo \/ Desbloqueado \/ Desconectado

Next ==
    \/ Cpu \/ FileSystem \/ AtenderFileSystem
    \/ \E f \in Archivos : IniciarArchivo(f)

\* Each thread keeps being scheduled.  A program is finite, so that the CPU,
\* the dispatcher and atender_cpu need no more than that.
Justicia ==
    /\ WF_vars(Cpu)
    /\ WF_vars(FileSystem)
    /\ WF_vars(AtenderFileSystem)
    /\ \A f \in Archivos : WF_vars(IniciarArchivo(f))

Spec == Init /\ [][Next]_vars
SpecJusta == Spec /\ Justicia

-----------------------------------------------------------------------------
EnCola(f) == {cola[f][i] : i \in DOMAIN cola[f]}
Cuidadosos == descuidados = {}

Ops == {"ABRIR_ARCHIVO", "CREAR_ARCHIVO", "LEER_ARCHIVO"}
OpsRespuesta == {"EXISTE_ARCHIVO", "CREAR_ARCHIVO", "ARCHIVO_CREADO", "DESBLOQUEADO"}
Posibles == {0} \union Posiciones
MensajesFs(ops) == [op : ops, pid : Procesos, arch : Archivos, pos : Posibles]

TypeOK ==
    /\ lista \subseteq Archivos
    /\ cola \in [Archivos -> Seq(Procesos)]
    /\ semArchivo \in [Archivos -> Nat]
    /\ archivosAbiertos \in [Procesos -> Seq([dir : Archivos, punt : Posibles])]
    /\ listos \subseteq Procesos /\ terminados \subseteq Procesos
    /\ cpu \in {CpuOciosa} \union [estado : {"ejecutando", "esperando"}, pid : Procesos]
    /\ mutexCompresion \in {0, 1}
    /\ aFs \in Seq(MensajesFs(Ops)) /\ deFs \in Seq(MensajesFs(OpsRespuesta))
    /\ enDisco \subseteq Archivos
    /\ kernel \in {"vivo", "caido"} /\ fs \in {"vivo", "caido"}
    /\ pedidos \in [Procesos -> Nat] /\ \A p \in Procesos : pedidos[p] <= MaxPedidos[p]
    /\ descuidados \subseteq Sueltos
    /\ usa \in [Archivos -> SUBSET Procesos]
    /\ esperado \in [Procesos -> [Archivos -> Posibles]]

\* What is on its way between kernel and file system: a transfer or an opening.
EsTransferencia(m) == m.op \in {"LEER_ARCHIVO", "DESBLOQUEADO"}
EsApertura(m) == m.op \in {"ABRIR_ARCHIVO", "CREAR_ARCHIVO", "EXISTE_ARCHIVO",
                           "ARCHIVO_CREADO"}

\* mutex_compresion admits one transfer at a time, ...
UnaTransferencia ==
    /\ \A i, j \in DOMAIN aFs : EsTransferencia(aFs[i]) /\ EsTransferencia(aFs[j]) => i = j
    /\ \A i, j \in DOMAIN deFs : EsTransferencia(deFs[i]) /\ EsTransferencia(deFs[j]) => i = j
    /\ \A i \in DOMAIN aFs, j \in DOMAIN deFs :
          ~EsTransferencia(aFs[i]) \/ ~EsTransferencia(deFs[j])
    /\ mutexCompresion = 1 =>
          /\ \A i \in DOMAIN aFs : ~EsTransferencia(aFs[i])
          /\ \A j \in DOMAIN deFs : ~EsTransferencia(deFs[j])

\* ... and the CPU, which waits for it, one opening.
UnaApertura ==
    /\ \A i, j \in DOMAIN aFs : EsApertura(aFs[i]) /\ EsApertura(aFs[j]) => i = j
    /\ \A i, j \in DOMAIN deFs : EsApertura(deFs[i]) /\ EsApertura(deFs[j]) => i = j
    /\ \A i \in DOMAIN aFs, j \in DOMAIN deFs : ~EsApertura(aFs[i]) \/ ~EsApertura(deFs[j])
    /\ \A i \in DOMAIN aFs : EsApertura(aFs[i]) =>
          cpu.estado = "esperando" /\ aFs[i].arch \notin lista
    /\ \A j \in DOMAIN deFs : EsApertura(deFs[j]) =>
          cpu.estado = "esperando" /\ deFs[j].arch \notin lista

\* The two conversations share a connection, and its answers reach the kernel in
\* any moment: at most one transfer and one opening are under way, the mutex and
\* the CPU know of them, and no file enters the table while it is being opened.
Conversacion == UnaTransferencia /\ UnaApertura

\* A file is in the table exactly while it has one user, who works with it or
\* was woken for it and is on its way; a file that is not has none and nobody
\* waits for it.  Table, queues, wake-ups and the answers of the file system
\* never disagree, if nobody closes what it did not open.
UnDuenio ==
    Cuidadosos => \A f \in Archivos :
        /\ Cardinality(usa[f]) + semArchivo[f] = IF f \in lista THEN 1 ELSE 0
        /\ f \notin lista => cola[f] = <<>>

\* The kernel falls (NULL from an empty queue, a freed file, the file system gone)
\* only if a process closed what it did not open or read what the file has not.
KernelVivo == kernel = "caido" => ~Cuidadosos

\* A transfer is made where the program is: at the position of its last F_SEEK
\* since it opened the file, or at 0 if it is the first time that it opens it,
\* although closing a file leaves its entry in the PCB.
TransferenciaEnSuLugar ==
    \A i \in DOMAIN aFs :
        LET m == aFs[i] IN
        m.op = "LEER_ARCHIVO" /\ m.pid \in usa[m.arch] =>
            \/ m.pos = esperado[m.pid][m.arch]
            \/ esperado[m.pid][m.arch] = 0 /\ Cardinality(Entradas(m.pid, m.arch)) > 1

\* Whoever waits for a file gets it, if the programs are careful (what they read
\* is in the file, else the file system dies and the kernel exits) and do not wait
\* for each other in a circle: no wake-up is lost between cerrar_archivo and the
\* thread, and no request between the kernel and the file system.
TodosAbren ==
    \A p \in Procesos, f \in Archivos :
        Cuidadosos /\ p \in EnCola(f) ~> p \in usa[f]

\* A file that has been handed over belongs to the first of the queue, whether
\* the thread took it out already or not.
Pasada(f) == semArchivo[f] > 0 /\ cola[f] # <<>>
DuenioDe(f) ==
    IF Pasada(f) THEN Head(cola[f])
    ELSE IF usa[f] # {} THEN CHOOSE p \in usa[f] : TRUE ELSE Nadie
FilaDe(f) == IF Pasada(f) THEN Tail(cola[f]) ELSE cola[f]
Fila == INSTANCE Turnos WITH
    duenio <- [f \in Archivos |-> DuenioDe(f)],
    fila <- [f \in Archivos |-> FilaDe(f)]

\* Among careful processes the kernel keeps the promise of Turnos: a file goes
\* from hand to hand in the order in which it was asked for.
TurnosCumplidos == Fila!Init /\ [][Cuidadosos => Fila!Next]_(Fila!vars)

=============================================================================
