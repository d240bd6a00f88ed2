# Verification of the C-Repo operating system simulator

The repository is a distributed simulator of an operating system in C: consoles hand
programs to a kernel, which schedules them on a CPU process; a memory process keeps
their segments and a file system process their files. The five talk over TCP sockets;
inside the kernel some ten threads share queues and POSIX semaphores. This directory
models the parts whose correctness depends on what those threads and processes do in
which order, model-checks them with TLC and proves the central invariants with TLAPS.

Paths below are relative to `src/`.

## The system

| Component | State it keeps | Operations | Talks to |
|---|---|---|---|
| console (`consola/src/consola.c`) | the parsed program | connect, send the program, wait for the notice that ends it | kernel |
| kernel, scheduler (`kernel/src/kernel.c`) | `cola_new`, `cola_ready_*`, five semaphores, one `t_recurso` (units, queue, semaphore) per resource | `atender_consolas`, `de_new_a_ready`, `de_ready_a_ejecutar`, `atender_cpu`, `iniciar_recurso`, `ejecutar_IO`, `atender_fileSystem`: one thread each (per console, resource, I/O) | all |
| kernel, open files | global list of open files, a queue, a semaphore and a thread each, `archivos_abiertos` in the PCB | F_OPEN, F_CLOSE, F_SEEK, transfers; `iniciar_archivo`, `atender_fileSystem` | file system, CPU |
| kernel, segment tables | the PCB's table, `tabla_general` of the last compaction | update after each answer of the memory and at each dispatch | memory, CPU |
| CPU (`cpu/src/cpu.c`) | the PCB it runs, registers | the instruction cycle, the MMU | kernel, memory |
| memory (`memoria/src/memoria.c`) | `tabla_huecos_libres`, `tabla_general`, `memoria_usuario` | the seven requests of `atender_modulos`, under one mutex | kernel, CPU, file system |
| file system (`fileSystem/src/fileSystem.c`) | FCB files, list of FCBs, bitmap, blocks (all but the list survive a restart) | open, create, truncate, read, write | kernel, memory |
| serialization, sockets (`compartido/src`) | none | encode and decode PCBs and instructions | all |

What makes them correct: a process is always in exactly one place, and CPU and kernel
agree on whose turn it is; units of resources, slots of the degree of
multiprogramming and `mutex_compresion` are neither lost nor doubled on any path; the
kernel stops only when the programs themselves are in a deadlock; the memory gives
every address to one owner, loses none, and a compaction is invisible; files own
disjoint blocks that the bitmap knows of, also after a restart, and an access goes to its own bytes;
an open file has one user and passes to those who wait for it in order; the copies of a segment
table agree with the memory.

The hard behaviours are the interleavings of the kernel's threads around counting
semaphores that are posted in one thread and awaited in another, the request that is
repeated after a compaction, instructions that fail half way, exact fits and empty
holes, two conversations on one connection, copies of tables that grow old, and state that survives a restart only in part. `PROJECT.json` lists each one
with its line under `hazards`.

## The modules

### Planificador, CicloDeVida, MCPlanificador and the proofs

`Planificador` is the kernel's scheduler with the CPU's instruction loop. Each thread of
`main` is a group of actions, and the wait of the thread and its critical part are separate
actions wherever another thread can act in between: `HiloNew` (`de_new_a_ready`),
`HiloExec` (`de_ready_a_ejecutar`), `IniciarRecurso(r)`, `AtenderCpu` with one action per
`op_code`, `TerminarIO(p)` (`ejecutar_IO`), `Desbloqueado` (`atender_fileSystem`), `Cpu`.
Semaphores are counters, queues are sequences, sockets are sequences of messages read
in order. A program is a constant, and its instructions are reduced to those that reach
the kernel; the PCB is its pid and its program counter. An `MOV` outside its segment
is the instruction `SEG_FAULT`, and `F_READ` stands for the three transfers, which
`atender_cpu` treats alike. The memory and the file system are external to this module: they
answer in order, and the memory chooses freely among the answers its code can give.

Two fusions lose nothing: a push or a send with the `sem_post` after it, and a `sem_wait` with what it protects.
A third is an abstraction: an operation on a queue is atomic. The code takes `mutex_cola_ready` around the pushes and the pops of the ready queue only; the
queues of resources and files, and the walks that print the ready queue, have no mutex. The one operation on the ready queue that is known to go wrong, the
`list_sort` of HRRN (`kernel.c:762`), which runs outside that mutex, is therefore a step apart: `TomarCpu` begins it, `Despachar` pops after it, and a push in between
(`ConUnoMas`) may lose any one process of the list. Other outcomes of that race (a count that is not that of the list, a pop that gives NULL, a process that is
there twice) are not followed, nor is what happens after a list lost its last process: the dispatcher of the model waits there.
The list library (so-commons) is not in the repository.

Where each thread waits (`EsperaNew`, `EsperaAtender` and the others) is stated without ENABLED, so that `QuietoSoloPorRecursos`, what a stop of
all of them means, can be proved. The file system of this module always answers; `Archivos` has the transfer that it does not survive.

`CicloDeVida` is the promise: the states the kernel's log prints, at most one process in
EXEC, at most `Grado` between NEW and EXIT, and units of a resource that go first to those
who wait. `Planificador` implements it under the mapping at its end (`CicloCumplido`).

`MCPlanificador` holds the programs of the runs, taken from `consola/DEADLOCK_*`, `ERROR_*`
and `BASE_*` and cut down to what reaches the kernel.

### Memoria, Segmentacion, MCMemoria, MemoriaProofs

`Memoria` is the allocator: the list of holes in its order, the tables of segments, the cells.
`atender_modulos` serves a request under `mutex_modulos`, so each is one action. The
order that `list_sort` gives to holes of equal base is not specified, and the model lets
it be any (`Ordenamientos`): a hole of size zero, left by an exact fit, can be sorted before or
after its neighbour. The kernel's part is `pedido`: after REALIZAR_COMPACTACION it asks for
the compaction and then for the same segment again. Of the contents, the model follows
one segment that a process filled (`escrito`), any one of them. `sana` turns false when
BEST or WORST use the index their search never set; the model stops there, because
`list_replace` then works on an arbitrary position.

`Segmentacion` is the promise: sizes and totals, no addresses. A request is refused only
when all that is free is too little, and compactions do not show.

### Tablas, MCTablas, TablasProofs

`Tablas` EXTENDS `Memoria` and composes its requests with the copies of the tables: `pcb` (the one that
travels with the process and with which the CPU computes addresses), `general` (what the last compaction left
in the kernel, written over the PCB at each dispatch) and the memory's own `tabla`. Each action is a request of
the memory together with what kernel and CPU do with the answer: `Crear` takes the table of
the answer, `Eliminar` does not (the CPU gives it to a parameter of its own), `Compactar` keeps the tables of all processes,
`Despachar` brings them back. One process runs at a time, so between its instructions nothing else reaches the memory
but a console (`CrearPcb`) and the FINALIZAR of the process before. `cambio` is a history variable: what happened to
each table since it was last right for the kernel.

### Archivos, Turnos, MCArchivos, ArchivosProofs

`Archivos` is the table of open files. `cola` and `semArchivo` are the fields of `t_archivo`, `archivosAbiertos` those of the PCBs,
`aFs`, `deFs` the two directions of the connection with the file system, which openings (`AbrirOtro`, the
CPU waits) share with transfers (`Transferir`, under `mutex_compresion`, the CPU goes on with others). `Cerrar` is
`cerrar_archivo`; the thread of each file is `IniciarArchivo(f)`; `ArchivoAbierto`, `CrearArchivo` and `Desbloqueado` are
`atender_fileSystem`. READY is a set and the CPU's messages are fused with the part of `atender_cpu` that serves them, since
`Planificador` has both in detail. Closing a file leaves its entry in the PCB, as in the code, and the first entry is the one that counts.
A process may be careless (`descuidados`, chosen once): it closes what it does not have, opens twice, ends with files open, or reads what the file does not have.
Sizes are not modelled here, so the F_READ of a careless process may be one that finds no block (an empty file, or past its end): `leer_datos` then
uses the first piece of an empty list and the file system dies (`LeeSinBloques`), and the kernel, whose connection closes, exits (`Desconectado`). An F_WRITE
in the same place writes nothing and is answered. The memory always answers the file system.
`usa` and `esperado` are history variables: who was given each file, and where a program thinks it is.

`Turnos` is the promise: one user per file and a row of those who wait, no semaphores, threads, messages or file system.
A close hands the file to the first of the row at once, while in `Archivos` the hand-over is on its way (`Pasada`) from the
`sem_post` until the thread runs.

### Serializacion, PcbProofs

`Serializacion` takes each PCB that `Archivos` has under way and sends it through `serializar_pcb`, the buffer, and
`deserializar_pcb`. A buffer is the sequence of its fields with their widths (`Campo`), and no field is put together byte by byte:
what is read at a place where another width was written, or nothing was sent, is `Perdido`. `Tamanio` is the size that is computed
beforehand. The programs are any lists of instructions with any parameters (`TInstruccion`). What was sent arrives whole: a `recv` that gives
less than it was asked for (`serializacion.c:381`) is not modelled. `Tamanio` counts the last entry of `archivos_abiertos` only, and 36 bytes (`Holgura`) more than the other fields need, so
lists whose other entries fit in those (`CabenSusArchivos`) arrive whole, which `PcbEntero` states of every message.

### FileSystem, MCFileSystem, FileSystemProofs

`FileSystem` is the file system, a single thread that serves one request after the other, so each request is
one action. The state is what it keeps on disk (FCBs, bitmap, file of blocks) and `abiertos`, the
list of FCBs in memory. Blocks hold words, and a word is the number of a block or what a program
wrote, so a pointer written in the wrong place destroys data and data written over pointers are read as
numbers, as in the code. The list of blocks that `agrandar_archivo` and `achicar_archivo`
build, its detour through the indirect block and the two different counts they make from the
difference of sizes are kept as they are. `Cambios` are the truncations the programs of a run ask for:
`archivos_bloques` has those that the code gets right, and `crecer` one that it does not.
`Reiniciar` is a start of the process on the disk of an earlier one. Of the contents, one written block is
followed, any one (`escrito`). `BloquesDelAcceso`, `Trozos` and `Tocados` are
`obtener_lista_de_bloques`, `armar_lista_offsets` and `escribir_datos`: the list of pieces of an access of any position and length, and
the bytes that it touches, checked in every state against the plain definition of where byte k of a file is (`Lugar`). The bitmap has whole
bytes (`Bits`), so the blocks after the last multiple of eight are never given. The model stops (`sana`) when a file grows and too few blocks are free, and when a pointer or
a word of an indirect block lies outside the file of blocks (`PunteroDentro`, `Legible`, `Anotadas`), since what is read or written there is undefined.

## The runs

| Run | Bounds | What it shows |
|---|---|---|
| `deadlock` | 3 processes, 2 slots, 2 resources of one unit, FIFO | Two processes wait for each other's unit as those of `consola/DEADLOCK_1..3` do, a third may be left in NEW, and requests wait for `mutex_compresion` on both sides. Queues, units and wake-ups match in every interleaving (`EsperasJustas`, `ExclusionDeRecursos`), no PCB is lost or doubled (`UnSoloLugar`), the kernel implements `CicloDeVida`, and under fairness every process ends unless what is left is stuck in such a circle (`TodosTerminan`). When all threads wait, each process that has not ended waits for a unit that nobody gives back, or in NEW for the slot of one that does (`QuietoSoloPorRecursos`): the kernel adds no deadlock of its own. |
| `mixto` | 3 processes, 2 slots, 1 resource, HRRN | Transfers, segments, compaction, out of memory and a segmentation fault mixed, with pushes that fall in the sort and lose a process. Whatever is lost there, `DialogoCpu`, `GradoRespetado`, `CompactacionExclusiva` and `MemoriaLiberada` hold; `UnSoloLugar` and `TodosTerminan` do not, which is why they are checked and proved under FIFO. |
| `recurso_inexistente` | 3 processes | Violation: an instruction on a resource that does not exist (see findings). |
| `dos_instancias` | 2 units, 1 waiter | Violation: the thread of the resource pops an empty queue. |
| `memoria_first` | 5 cells of which 1 is the shared segment, 2 processes, 2 ids, sizes 1 and 2, FIRST | `Particion`, `ReintentoEntra`, `ContenidoIntacto`, `SinRestos`, and the implementation of `Segmentacion`. |
| `tablas` | 4 cells, 1 of them shared, 2 processes, 2 ids, WORST | The CPU's copy of the table gives the addresses of the memory (`TraduccionFiel`), also after a compaction that another process asked for; `Particion` under WORST. |
| `contexto` | the same, FIRST | Violation: a dispatch brings back a table older than the last creation (see findings). |
| `best_sin_hueco` | the same, BEST | Violation: a segment is put over others (see findings). |
| `archivos_bloques` | 3 files, 8 blocks of 3 bytes with 2 pointers each, 9 truncations | No block is in two places (`SinBloquesCompartidos`), the bitmap is exactly the blocks of the files (`BitmapFiel`), what was written stays (`BloqueIntacto`), an access goes to exactly its bytes (`AccesoExacto`), and only growth that needs more blocks than are free goes wrong (`SoloPorFaltaDeBloques`). |
| `archivos_abiertos` | 3 processes, 2 files, 7 instructions, one process possibly careless; programs of instructions with 0 to 3 parameters | `Conversacion`, `UnDuenio`, `KernelVivo`, `TransferenciaEnSuLugar`, PCBs that arrive as they left (`PcbEntero`), the implementation of `Turnos`, and under fairness whoever waits for a file gets it if the processes are careful (`TodosAbren`). |
| `crecer`, `reinicio` | 2 files, 8 blocks | Violations: blocks in two places (see findings). |

The bounds: two processes are the fewest that make a circular wait of the kind of
`DEADLOCK_1..3`, and a third is left in NEW while they hold both slots; two slots are the
fewest in which one process runs while another is blocked. Four free cells with sizes
1 and 2 reach every kind of hole (exact fit, remainder, hole between segments, union of two
and of three, hole of size zero) and requests that need a compaction; two processes
make the shared segments come first in the compaction. `MaxHuecos` bounds the holes
of size zero that pile up under an unlucky sort. With two processes in `tablas` one compacts while the other waits with its copy,
and two ids let a table change again after that. In `archivos_abiertos` two processes wait for the file of a third in
either order, one process names both files, so that openings and transfers of different files meet in the connection, and
four instructions let it open a file twice with a seek and a transfer in between; `MaxPedidos` counts instructions other than the F_CLOSE of
a careful process. The names are as long as `Consoles` and `Videogames` of the test programs, so that three or more entries in a PCB fill the
36 spare bytes exactly, almost, or overflow them. Blocks of three bytes have a first, a middle and a last one, so that accesses may begin and end inside a
block; the model's pointers are words beside the bytes, so their size plays no part. Blocks of two pointers let a file have its direct
block, its indirect one and two more, the largest file, and eight blocks (one byte of the bitmap) are enough for two such files and
not for three, so that growth also finds the disk full and freed blocks are used again out of order.

All runs disable the deadlock check: the system really stops when its consoles have no
more to send, when programs deadlock, or when all the bounded processes were created.
`QuietoSoloPorRecursos` says what a stop may look like.

Fairness (`Justicia`, in `deadlock` and `archivos_abiertos`): weak fairness of each thread of the kernel, of the CPU, the
file system and the memory. Each is a loop in a thread or process of its own that the
operating system keeps scheduling, and no semaphore has two competing waiters in a way
that would need strong fairness: `mutex_compresion` alone has several, all in one thread.
In `Archivos` the CPU, the dispatcher and `atender_cpu` are one action, `Cpu`, and its weak fairness lasts until the programs,
which are finite, end. Nothing forces a console to connect. `TodosTerminan` says that each process ends unless all that is left waits for units that nobody
gives back, or in NEW behind such (`Atascado`); `TodosAbren` asks of the programs that they close what they opened and read only what the file has.

## Findings

1. `recurso_inexistente`: a WAIT on an unknown resource logs that the process ends and tells its
   console so, yet answers the CPU CONTINUAR and posts `sem_habilitar_exec`: the process goes on. (A SIGNAL on one does
   end the process, but without `enviar_eliminar_proceso`: its segments stay in the memory forever. The same property rules it out.)
2. `dos_instancias`: with two units, two SIGNALs post twice for one waiter before the thread of
   the resource runs, and its second `queue_pop` returns NULL, which it dereferences.
3. `best_sin_hueco`: BEST and WORST leave `indice` unset when no hole is large enough; the segment
   may be placed over others instead of asking for a compaction.
4. `contexto`: after the first compaction each dispatch overwrites the table of the process with the one of that compaction, so a process
   that created a segment since then and was blocked or yielded does not find it any more.
5. `crecer`: a file of one block that grows by one block is given none, as the loop goes from the blocks it has to
   those the difference needs; its second block is then block 0, whoever owns it.
6. `reinicio`: a start cleans the bitmap and keeps the files, so the next growth takes their blocks.

Further observations, met while modelling and kept in the definitions, with no run of their own:

- A process that ends (EXIT, SEG_FAULT, out of memory) while it holds units of a resource
  never gives them back, so others may wait forever; this is why `QuietoSoloPorRecursos` and not
  the absence of deadlocks is the property of `deadlock`.
- BEST stops at the first hole that improves on the first one that fits, not at the smallest
  (`BuscarPorBest`); DELETE_SEGMENT 0 would free the segment that all processes share, and the runs leave that id out.
- A file that shrinks from several blocks to one loses its direct block from the bitmap and leaks its indirect one,
  because `ListaTotal` names the direct block twice (`fileSystem.c:1316`); `Cambios` leaves such truncations out.
- A size over the maximum is logged and granted (`fileSystem.c:1033`), and the pointers that do not fit are
  written to the next block, over the contents of another file, or past the end of the file of blocks (where `sana` turns false); `Cambios` leaves them out too.
- After DELETE_SEGMENT the CPU goes on with the old table (`Eliminar`), and hands it to the kernel when it yields or blocks: the process still reaches what it gave
  back. A dispatch does not help by itself, since it sends that same table, or the one of the last compaction, which has the segment too if it is older than the deletion. It ends with the
  next creation, or with the first dispatch after a compaction made since. `TraduccionFiel` and `ContextoActualizado` leave that time out (`"borrada"`).
- An F_READ of an empty file, or past the end of one, kills the file system (`fileSystem.c:427` uses the first piece of an empty list) and with it the kernel
  (`LeeSinBloques`, `Desconectado`). `KernelVivo`, `UnDuenio` and `TodosAbren` are about programs that do not do that.
- `list_sort` of HRRN runs outside `mutex_cola_ready` (`kernel.c:762`), so a process that becomes ready meanwhile may be lost, or make another one be lost; its slot is then never given back.
- F_OPEN writes `arch_proc->punt = 0` in a new entry (`kernel.c:465`, `490`, `1257`), but F_CLOSE removes none and `buscar_puntero` takes the first:
  a file that is opened for the second time starts where the last F_SEEK left it. `TransferenciaEnSuLugar` admits exactly that.
- A process that ends without F_CLOSE keeps its files: those who wait for them, and all that open them later, wait forever.
- Accesses to a file go to other bytes than their own (`Admitido` names the rest): those shorter than a block that cross into the next one,
  which are given the bytes after the first block and then a second piece of the same length; those of a block or more that start inside a block other than the direct
  one; and those beyond the first block of a file whose size is between one block and two.
- With three entries or more in `archivos_abiertos`, `serializar_pcb` may write past its buffer (`serializacion.c:71` assigns, where it would
  add), and what is past it is not sent: `CabenSusArchivos` leaves such PCBs out.
- A read of several pieces copies the second and later ones from the buffer of the first, already freed (`fileSystem.c:445`).

## The proofs

About `Planificador`, for every set of processes and resources, every program and, where nothing else is said, both algorithms, three modules
prove, each on top of the one before (`PlanificadorProofs`, `RepartoProofs`, `RecursosProofs`):

- `TipoCorrecto`: `Spec => []TypeOK`, one lemma per group of actions.
- `DialogoCorrecto`: if every WAIT and SIGNAL names a resource (`RecursosConocidos`), then
  `Spec => []DialogoCpu`. `DialogoCpu` alone is not inductive: it counts permissions to use the CPU but does
  not say that the answer in the socket is for the instruction the CPU waits on. The
  inductive invariant is `TypeOK /\ Dialogo /\ ConversacionMemoria`: `Dialogo` lists the eight
  phases of the conversation between the CPU and `atender_cpu` with the contents of both
  directions of the socket and the semaphore in each; `ConversacionMemoria` does the same for
  the memory, whose answer decides the answer to the CPU. Each action moves from one phase to
  the next or leaves the phase alone (`DialogoAjeno`, `ConversacionAjena`). The assumption
  is needed: finding 1 is what happens without it.
- `CompactacionCorrecta`: under the same assumption, `Spec => []CompactacionExclusiva`. The mutex is taken in
  `atender_cpu` and given back there or in `atender_fileSystem`, so no code section brackets it. The equation
  (mutex, transfers and compaction under way sum to one) is inductive together with `TypeOK` and
  `ConversacionMemoria`: the latter says that while an answer of the memory is read nothing else but notices is
  in that connection, so a compaction starts with none under way (`UnaConversacion`) and its end is read once.

- `UnSoloLugarCorrecto` (`RepartoProofs`): under the same assumption and with `Algoritmo = "FIFO"`, `Spec => []UnSoloLugar` (with HRRN the sort may lose a process). The nine places a process can be in are
  grouped in seven `Cajas` (the turn of the CPU, with the conversation around it, is one). `Reparto` says that the live processes are split
  among them, none twice in a queue, and every action is a movement of one process from one to another, an entry, an end, or none
  (`Movimiento`, one lemma per action). That the process which a handler moves is the one that has the turn comes from `Dialogo`.
- `GradoCorrecto`, `LiberadaCorrecta`: from the movements, `Spec => []GradoRespetado` (a movement out of NEW takes a slot, an end gives one back)
  and `Spec => []MemoriaLiberada` (each of the three ends writes FINALIZAR, and with `PedidoPropio` no request that comes after it gives the
  process a segment again: the one under way is for the process that `atender_cpu` serves).
- `EsperasCorrectas`, `KernelVivoCorrecto`, `ExclusionCorrecta` (`RecursosProofs`): `Spec => []EsperasJustas`, `[]KernelVivo` and `[]ExclusionDeRecursos`.
  `EsperasJustas` counts wake-ups and waiters and is not inductive: two units given back one after the other for one waiter leave a wake-up too many.
  `RecursosInv` adds where the unit of each group is: one process has it, or one resource has it free or on its way to a waiter, never both
  (`FichaUnica`), and a process in a queue asked for a unit and does not have it yet (`Deudores`).
  The hypothesis is `UnaUnidad(grupo)`: the resources can be put in groups of one unit at most, of which every program takes one before it gives
  one back. It is on the constants alone, and the configurations satisfy it: no `kernel*.config` gives a resource more than one unit, `DEADLOCK_*` takes
  and gives back each resource in turns (each is a group of its own, `CadaUno`, which is what `ExclusionCorrecta` supposes), and `FS_1`, `FS_2`, `MEMORIA_1`,
  `MEMORIA_2`, which take one resource and give back another, fit with all resources in one group. `MEMORIA_3` does not, since it gives back twice.
  The run `dos_instancias` shows that with two units the three are false.
- `QuietudCorrecta` (`RecursosProofs`): under FIFO, if every WAIT and SIGNAL names a resource, `Spec => []QuietoSoloPorRecursos`, with any number of units. Besides the
  invariants above it needs that no wake-up is lost (`Avisos`: while a queue is not empty its thread is awake or its semaphore is up,
  and a resource has at most as many waiters as wake-ups under way and units owed, which, unlike `EsperasJustas`, needs no hypothesis on the units) and that a program
  which came to its last instruction asked to end (`Ultima`). When all wait, the eight phases of the conversation leave only the one in which the CPU is free (`NadieCorre`:
  a transfer or a compaction held back by `mutex_compresion` would need a message in a connection that is empty), so READY is empty, and whoever has a slot is in the
  queue of a resource that owes units (`SoloPorUnidad`).
- `CicloCorrecto` (`RecursosProofs`): under FIFO and the hypotheses of `EsperasCorrectas`, `Spec => CicloCumplido`, that `Planificador` implements `CicloDeVida`. The
  mapping reads the state of a process from the place it is in (`EstadoEs`), so each kind of movement is one action of `CicloDeVida`
  (`CicloAdmitir`, `CicloDespachar`, ...) and what moves nobody stutters. `GradoInv` gives the guard of `Admitir`, the turn that of `Ejecutar`,
  and `EsperasJustas` those of `Tomar`, `Esperar` and `Conceder`: a unit goes first to who waits.

`ArchivosProofs` proves about `Archivos`, for every set of processes and files and every bound on the instructions:

- `TipoArchivosCorrecto`, `ConversacionCorrecta`: `Spec => []TypeOK` and `Spec => []Conversacion`, careless processes included. The two are inductive together: the
  mutex stays in {0, 1} because an answer to a transfer comes only while one is under way. An opening is
  sent only by the process on the CPU, which then waits, and each step of the file system or of `atender_fileSystem` moves the one message of its kind
  (`MoverFileSystem`, `ConversacionAtender`).
- `UnDuenioCorrecto`, `KernelEnPieCorrecto`: `Spec => []UnDuenio`, `Spec => []KernelVivo`. `UnDuenio` counts users and wake-ups but not which is which. The
  inductive invariant, with the two above, is `DueniosJustos`: among careful processes the kernel is alive and each file is in one of three
  states, `Libre`, `EnUso` by one process with no wake-up, or `EnEntrega` with one wake-up and a queue that is not empty.
  `Conversacion` is what makes the answer of the file system find the file `Libre`.
- `TurnosCorrectos`: `Spec => TurnosCumplidos`, that `Archivos` implements `Turnos`. `Cerrar` maps to `Soltar`, `AbrirContenido` to
  `Esperar`, `ArchivoAbierto` to `Tomar`; the thread's `IniciarArchivo` and everything else stutter, since the file changed hands already with the post.
- `TransferenciaCorrecta`: `Spec => []TransferenciaEnSuLugar`, careless processes included. The position in a message must stay right
  until the file system reads it, so the proof needs that whoever waits for a transfer is nowhere else (`Lugares`: READY, the CPU, the queues of the files and
  the transfers have no process in common, no queue has one twice, and the CPU waits for the opening of its own process) and that the first entry of a PCB follows the
  program unless the file was opened again (`Punteros`, which also gives an entry to everybody who has a file or waits for it).

`TablasProofs` proves about `Tablas`, with any number of processes, any memory and any of the three algorithms:

- `TraduccionCorrecta`: `SpecTablas => []TraduccionFiel`, with no hypothesis. `TraduccionFiel` speaks of the process that runs only, and is not inductive:
  the next dispatch may bring back any table. `CopiasInv` says which copy of each process that waits is the good one: its PCB after a
  creation, `general` after a compaction that it was part of (`CopiaGuardada`), which the dispatch puts where the CPU reads it. `Listas` says that the four lists name
  the same processes, and `Papeles` that only the process on the CPU has a request under way, so that whose answer a table came with is never confused.
  What the allocator does inside the memory is left open: the proof needs only which tables a request touches (`TrasCrear` and the like), so it holds also
  for a memory that gives overlapping segments, as in finding 3.

`FileSystemProofs` proves about `FileSystem`, for every number and size of blocks and every set of files:

- `TipoCorrecto`: `Spec => []TypeOK` and `SpecConReinicio => []TypeOK`, whatever the truncations, those of `crecer` included. What has to be shown is that the
  numbers taken from `PrimerosLibres` are free blocks. `Nuevos` gives it from
  the rank of each free block (`Rango` is a bijection, `HayRango`, by the theorems about finite sets).
- `BloquesSinCompartir`, `BitmapCorrecto`, `DatosConservados`: if every truncation is one that the code gets right (`CambiosEnteros`), then
  `Spec => []SinBloquesCompartidos`, `[]BitmapFiel` and `[]BloqueIntacto`. The three need one another (a block of data is not overwritten because it is in no
  other file, a new block is in no file because the bitmap is faithful) and also that the words of an indirect block are read as
  they were written: `BloquesInv` adds `Anotados` (each block after the first has its entry, inside the indirect block, and it is not 0) and that the written block lies whole
  inside its file (`DatosEnSuLugar`). Entries are not 0 because growth takes the free blocks in order and the first is the direct one; an entry 0 among those
  that leave would make `achicar_archivo` forget an indirect block that the file keeps, for which `puntero` is 0. Each action adds parts in free blocks (`PartesAgregadas`), takes
  parts away with their blocks (`PartesQuitadas`) or leaves all in place (`MismosBloques`).
  The hypothesis `BloquesEnteros` is on the sizes alone: growth from nothing up to what the indirect block has entries for, growth within the last block, and
  shrinking by as many blocks as the difference has, that keeps the indirect block or has none. The truncations of `archivos_bloques` satisfy it, and the
  only test program that truncates, `FS_1`, grows its files from nothing. `crecer` shows what growth from one block does, `reinicio` what a second start does.

- `FaltaDeBloquesCorrecta`: for the same truncations `Spec => SoloPorFaltaDeBloques`, an action property: the only step after which `sana` is false is growth that
  needs more blocks than are free. That every pointer that is read, and every word of an indirect block that is written, lies inside the file of blocks comes from
  `Anotados`, from the blocks being numbers of the bitmap, and from the sizes: no file needs more pointers than its indirect block has.
- `AccesoCorrecto`: `Spec => []AccesoExacto` and `SpecConReinicio => []AccesoExacto`, from the types alone. The list of an access is the row of blocks from
  that of its first byte to that of its last (`BloquesSeguidos`), although the code rounds down the size of the file when it decides whether anything follows the direct block.
  Each piece begins in its block where the one before ended (`Bordes`, `UnTrozo`), and such pieces put one after the other make the access (`Pedazos`).
  The last lemma is an induction over the pieces. The induction theorems of the library take an operator and cannot be
  used, so it is made with the least element of a set of naturals (`Primero`, from `WFMin`): the least piece at which the concatenation
  would differ from the sequence does not exist (`Concatenadas`).

`MemoriaProofs` proves about `Memoria`, for every number of processes, size of the memory, set of ids and sizes and, where nothing else is said, the three algorithms:

- The hypothesis of all is `Config`: the shared segment is not empty and does not fill the memory, and no program names the id 0. The three configurations of
  `memoria/` and every test program satisfy it. Without it the first hole lies over the segment 0, or DELETE_SEGMENT 0 gives every process' shared segment to the holes.
- `TiposDeLaMemoria`, `MemoriaRepartida`, `ReintentoSinFallo`, `ContenidosIntactos`, `NadaQueda`: `Spec => []TypeOK`, `[]Particion`, `[]ReintentoEntra`,
  `[]ContenidoIntacto` and `[]SinRestos`. `Particion` counts owners address by address and is not inductive. `MemoriaInv` says it with sets: the segments
  are apart from each other, the holes are apart, what they cover (`Cubre`) is what the segments leave (`Reparto`, while `sana`), and every table begins with the segment 0 and
  repeats no id (`TablasBien`). It adds what a request under way rests on (`Pendiente`: all the holes together are enough before the compaction, one is after it, and the id is
  still free), that who ended has one segment (`Muertos`), and that the segment that is followed belongs to somebody (`EscritoVive`).
- Under the invariant is one lemma per operation. A union of holes covers what both did (`Unido`, `Combinado`, with the holes of size zero that a sort put in
  any order); the release of all segments of a process is a release of one at a time, from the last (`LiberadosTodos`). The compaction rests on the order of `list_sort`:
  a place is the number of segments before it (`Lugar`), the places are a bijection (`HayLugares`), the first ones are the segments 0, and a segment that moves goes downwards
  over addresses that were already copied (`Copiadas`), which is why contents survive although source and destination overlap.
- The folds of the model (over holes, segments and cells) are opened by a lemma that says that a fold over n elements is a row of n + 1 values, each from the one before (`HayPliegue`, `PasosPliegue`).
  The induction is made, as for the file system, with the least number at which it would fail.
- `FirstCumple`: with FIRST `Spec => PromesaCumplida`, that `Memoria` implements `Segmentacion`. The mapping forgets addresses, so the proof is an equation: the sizes of the holes
  add up to what the sizes of the segments leave, because both count addresses of sets that are apart (`SumaHuecos`, `SumaDeTabla`). `HayHueco` and the end of a compaction give `Crear`, `PideCompactar` stutters,
  and `SinMemoria` is refused only when the sum is too small. `SanaCumple` says the same of BEST and WORST in the behaviours in which no search uses the index it did not set,
  and `FirstSinSolapes` that with FIRST no segment overlaps another, the property that `best_sin_hueco` refutes.
- `SpecTablas => Spec` (a lemma of `TablasProofs`, by the shape of `Tablas`), so that all of the above holds of the composition with kernel and CPU too; `TablasReparten` and `TiposDeLasTablas` are those that the run
  `tablas` checks.

`PcbProofs` proves about `Serializacion`, for every set of processes and files, every program and all lengths of names and parameters:

- `PcbEnteroCorrecto`: `Spec => []PcbEntero`, from `TypeOK` (`TipoArchivosCorrecto`) alone. The assumptions are that a parameter has at least the byte that ends it
  (`LargoAssumption`), that a program is a finite list of instructions with finite lists of parameters (`ProgramaAssumption`), and that `Perdido`, which stands for bytes that nobody sent, is no number
  and no list of instructions (`PerdidoAssumption`). A buffer is opened field by field (`EsBuffer`): two of them in a row keep
  the places of their fields and add their bytes (`Pegados`), and `FlattenSeq` puts any number of them one after the other, each at its place
  (`Bloques`, `Aplanada`), by the least-number induction of the other modules. So every field of a PCB with n open files has a place, 1 to 8 or counted from 3n + 8 (`CamposPcb`), and
  `deserializar_pcb` reads it there (`CamposLeidos`, `ArchivosLeidos`). The buffer is
  sent whole because what is written takes 200 bytes, the name of the request, the program and all the files, and what is counted 236, the same name and program, and
  the last file (`Alcanza`): the 36 bytes of `CabenSusArchivos` are exactly what the rest may take.
- `ProgramasEnteros`: a program, which is a buffer in the last field of its PCB, is read back as it was written, whatever the parameters of each instruction, and it takes what
  `serializar_lista_de_instrucciones` counted, so the mismatch that it would report (serializacion.c:290) never happens. Instructions are read one after the other, and the proof follows the place
  at which each ends: where the sum of the fields of those before puts it (`UnaLeida`, `ProgramaLeido`).

The assumptions on the constants (`ProgramaAssumption` and the like) are evaluated by TLC on every run. Model-checked only is liveness (`TodosTerminan`, `TodosAbren`).

## Not modelled, and the plan

In this order:

1. `ConexionMemoria`: threads of several consoles on one socket, the counter of pids.
2. `ColaReady` and `Hrrn`: the queues as linked lists, walked, sorted, pushed and popped without a mutex, and the choice by response ratio.
3. The messages with segments and tables (`serializar_segmento` and those of the memory), beside `Serializacion`.

Not modelled: the registers of the CPU and the copies of bytes between memory and file system, which no
property here tells apart; the copies of `leer_datos`, whose outcome depends on what the allocator does with a freed buffer.
Left out for good: logging, configuration files, start-up and the connection of the
modules, memory leaks, and test programs under `kernel/kernelinforme`.
