---------------------------- MODULE ArchivosProofs ----------------------------
(* Theorems about Archivos, for every set of processes and files, whatever    *)
(* files the programs name and however long and careless they are.            *)
EXTENDS Archivos, SequenceTheorems, FiniteSetTheorems, WellFoundedInduction, TLAPS

\* A set of numbers that is not empty has a least one.
LEMMA Minimo ==
    ASSUME NEW S, S \subseteq Nat, S # {}
    PROVE  \E x \in S : \A y \in S : x <= y
<1>1. PICK x \in S : \A y \in S : ~(<<y, x>> \in OpToRel(<, Nat))
  BY WFMin, NatLessThanWellFounded
<1>2. ASSUME NEW y \in S PROVE x <= y
  <2>1. ~(<<y, x>> \in {ss \in Nat \X Nat : ss[1] < ss[2]})
    BY <1>1 DEF OpToRel
  <2> QED BY <2>1
<1> QED BY <1>2

\* A process that has entries for a file has a first one.
LEMMA PrimeraEntrada ==
    ASSUME TypeOK, NEW p \in Procesos, NEW f \in Archivos, Entradas(p, f) # {}
    PROVE  /\ Primera(p, f) \in 1 .. Len(archivosAbiertos[p])
           /\ archivosAbiertos[p][Primera(p, f)] \in [dir : Archivos, punt : Posibles]
<1>1. archivosAbiertos[p] \in Seq([dir : Archivos, punt : Posibles])
  BY DEF TypeOK
<1>2. Entradas(p, f) \subseteq 1 .. Len(archivosAbiertos[p]) /\ Len(archivosAbiertos[p]) \in Nat
  BY <1>1, LenProperties DEF Entradas
<1>3. Primera(p, f) \in Entradas(p, f)
  <2>1. \E i \in Entradas(p, f) : \A j \in Entradas(p, f) : i <= j
    BY <1>2, Minimo
  <2> QED BY <2>1 DEF Primera
<1> QED BY <1>1, <1>2, <1>3, ElementOfSeq

\* The position that buscar_puntero gives is one of the possible ones.
LEMMA PosicionPosible ==
    ASSUME TypeOK, NEW p \in Procesos, NEW f \in Archivos
    PROVE  BuscarPuntero(p, f) \subseteq Posibles
<1>1. CASE Entradas(p, f) = {}
  BY <1>1 DEF BuscarPuntero, Posibles
<1>2. CASE Entradas(p, f) # {}
  BY <1>2, PrimeraEntrada DEF BuscarPuntero
<1> QED BY <1>1, <1>2

\* A new entry leaves the list of entries of each process one of entries.
LEMMA EntradaNueva ==
    ASSUME TypeOK, NEW p \in Procesos, NEW f \in Archivos, AgregarEntrada(p, f)
    PROVE  /\ archivosAbiertos' \in [Procesos -> Seq([dir : Archivos, punt : Posibles])]
           /\ esperado' \in [Procesos -> [Archivos -> Posibles]]
<1>1. [dir |-> f, punt |-> 0] \in [dir : Archivos, punt : Posibles]
  BY DEF Posibles
<1>2. Append(archivosAbiertos[p], [dir |-> f, punt |-> 0])
          \in Seq([dir : Archivos, punt : Posibles])
  BY <1>1, AppendProperties DEF TypeOK
<1>3. archivosAbiertos' \in [Procesos -> Seq([dir : Archivos, punt : Posibles])]
  BY <1>2 DEF AgregarEntrada, TypeOK
<1>4. esperado' \in [Procesos -> [Archivos -> Posibles]]
  BY DEF AgregarEntrada, TypeOK, Posibles
<1> QED BY <1>3, <1>4

\* A message that goes into a connection.
LEMMA Mandado ==
    ASSUME TypeOK, NEW p \in Procesos, NEW f \in Archivos, NEW pos \in Posibles,
           NEW op \in Ops, aFs' = Append(aFs, Mensaje(op, p, f, pos))
    PROVE  aFs' \in Seq(MensajesFs(Ops))
<1>1. Mensaje(op, p, f, pos) \in MensajesFs(Ops)
  BY DEF Mensaje, MensajesFs
<1> QED BY <1>1, AppendProperties DEF TypeOK

\* An answer that the kernel reads.
LEMMA Recibido ==
    ASSUME TypeOK, deFs # <<>>
    PROVE  Head(deFs) \in MensajesFs(OpsRespuesta) /\ Tail(deFs) \in Seq(MensajesFs(OpsRespuesta))
BY HeadTailProperties DEF TypeOK

\* The bound on the instructions of each process is kept.
LEMMA TipoPedidos ==
    ASSUME TypeOK, NEW p \in Procesos, pedidos[p] < MaxPedidos[p],
           pedidos' = [pedidos EXCEPT ![p] = @ + 1]
    PROVE  /\ pedidos' \in [Procesos -> Nat]
           /\ \A q \in Procesos : pedidos'[q] <= MaxPedidos[q]
<1>1. pedidos \in [Procesos -> Nat] /\ \A q \in Procesos : pedidos[q] <= MaxPedidos[q]
  BY DEF TypeOK
<1>2. pedidos' \in [Procesos -> Nat]
  BY <1>1
<1>3. ASSUME NEW q \in Procesos PROVE pedidos'[q] <= MaxPedidos[q]
  <2>1. pedidos[q] \in Nat /\ MaxPedidos[q] \in Nat /\ pedidos[q] <= MaxPedidos[q]
    BY <1>1, MaxPedidosAssumption
  <2>2. pedidos'[q] = IF q = p THEN pedidos[p] + 1 ELSE pedidos[q]
    BY <1>1
  <2> QED BY <2>1, <2>2
<1> QED BY <1>2, <1>3

LEMMA TipoInstruccion ==
    ASSUME TypeOK, NEW p \in Procesos, Instruccion(p)
    PROVE  /\ pedidos' \in [Procesos -> Nat]
           /\ \A q \in Procesos : pedidos'[q] <= MaxPedidos[q]
           /\ descuidados' \subseteq Sueltos /\ enDisco' \subseteq Archivos
           /\ fs' \in {"vivo", "caido"}
<1>1. /\ descuidados' \subseteq Sueltos /\ enDisco' \subseteq Archivos
      /\ fs' \in {"vivo", "caido"}
  BY DEF TypeOK, Instruccion
<1> QED BY <1>1, TipoPedidos DEF Instruccion

\* What the CPU and atender_cpu do keeps the types.
LEMMA TipoCpu == TypeOK /\ Cpu => TypeOK'
<1> SUFFICES ASSUME TypeOK, Cpu PROVE TypeOK'
  OBVIOUS
<1>0. /\ CpuOciosa \in {CpuOciosa} \union [estado : {"ejecutando", "esperando"}, pid : Procesos]
      /\ \A q \in Procesos :
            {Corre(q), Espera(q)} \subseteq [estado : {"ejecutando", "esperando"}, pid : Procesos]
  BY DEF Corre, Espera
<1> USE <1>0 DEF Vivo, tablas, canalFs, historia
<1>1. ASSUME NEW p \in Procesos, Despachar(p) PROVE TypeOK'
  BY <1>1 DEF TypeOK, Despachar
<1>2. ASSUME NEW p \in Procesos, Ceder(p) PROVE TypeOK'
  BY <1>2, TipoInstruccion DEF TypeOK, Ceder
<1>3. ASSUME NEW p \in Procesos, Terminar(p) PROVE TypeOK'
  BY <1>3 DEF TypeOK, Terminar
<1>4. ASSUME NEW p \in Procesos, NEW f \in Archivos, AbrirContenido(p, f) PROVE TypeOK'
  <2>1. cola' \in [Archivos -> Seq(Procesos)]
    <3>1. Append(cola[f], p) \in Seq(Procesos)
      BY AppendProperties DEF TypeOK
    <3> QED BY <1>4, <3>1 DEF AbrirContenido, Encolar, TypeOK
  <2> QED BY <1>4, <2>1, EntradaNueva, TipoInstruccion DEF TypeOK, AbrirContenido
<1>5. ASSUME NEW p \in Procesos, NEW f \in Archivos, AbrirOtro(p, f) PROVE TypeOK'
  <2>1. aFs' \in Seq(MensajesFs(Ops))
    BY <1>5, Mandado DEF AbrirOtro, Pedido, Ops, Posibles
  <2> QED BY <1>5, <2>1, TipoInstruccion DEF TypeOK, AbrirOtro
<1>6. ASSUME NEW p \in Procesos, NEW f \in Archivos, Cerrar(p, f) PROVE TypeOK'
  <2>1. pedidos' \in [Procesos -> Nat] /\ \A q \in Procesos : pedidos'[q] <= MaxPedidos[q]
    <3>1. CASE p \notin descuidados /\ UNCHANGED pedidos
      BY <3>1 DEF TypeOK
    <3>2. CASE pedidos[p] < MaxPedidos[p] /\ pedidos' = [pedidos EXCEPT ![p] = @ + 1]
      BY <3>2, TipoPedidos
    <3> QED BY <1>6, <3>1, <3>2 DEF Cerrar
  <2>2. semArchivo' \in [Archivos -> Nat] /\ lista' \subseteq Archivos
            /\ kernel' \in {"vivo", "caido"}
    <3>1. semArchivo \in [Archivos -> Nat] /\ lista \subseteq Archivos /\ kernel = "vivo"
      BY <1>6 DEF TypeOK, Cerrar
    <3>2. CASE UNCHANGED semArchivo /\ lista' \subseteq lista
                 /\ kernel' \in {kernel, "caido"}
      BY <3>1, <3>2
    <3>3. CASE PostArchivo(f) /\ UNCHANGED <<lista, kernel>>
      BY <3>1, <3>3 DEF PostArchivo
    <3> QED BY <1>6, <3>2, <3>3 DEF Cerrar
  <2>3. usa' \in [Archivos -> SUBSET Procesos]
    BY <1>6 DEF TypeOK, Cerrar
  <2> QED BY <1>6, <2>1, <2>2, <2>3 DEF TypeOK, Cerrar
<1>7. ASSUME NEW p \in Procesos, NEW f \in Archivos, NEW pos \in Posiciones, Buscar(p, f, pos)
      PROVE  TypeOK'
  <2>1. archivosAbiertos' \in [Procesos -> Seq([dir : Archivos, punt : Posibles])]
    <3>1. CASE Entradas(p, f) = {}
      BY <1>7, <3>1 DEF Buscar, TypeOK
    <3>2. CASE Entradas(p, f) # {}
      <4> DEFINE i == Primera(p, f)
                 s == archivosAbiertos[p]
                 t == [s EXCEPT ![i].punt = pos]
      <4>1. s \in Seq([dir : Archivos, punt : Posibles]) /\ i \in 1 .. Len(s)
        BY <3>2, PrimeraEntrada DEF TypeOK
      <4>2. s[i] \in [dir : Archivos, punt : Posibles]
        BY <3>2, PrimeraEntrada
      <4>3. [s[i] EXCEPT !.punt = pos] \in [dir : Archivos, punt : Posibles]
        BY <4>2 DEF Posibles
      <4>4. t = [s EXCEPT ![i] = [s[i] EXCEPT !.punt = pos]]
        OBVIOUS
      <4>5. t \in Seq([dir : Archivos, punt : Posibles])
        BY <4>1, <4>3, <4>4, ExceptSeq
      <4>6. archivosAbiertos' = [archivosAbiertos EXCEPT ![p] = t]
        BY <1>7, <3>2 DEF Buscar, Actualiza
      <4> QED BY <4>5, <4>6 DEF TypeOK
    <3> QED BY <3>1, <3>2
  <2>2. esperado' \in [Procesos -> [Archivos -> Posibles]]
    BY <1>7 DEF Buscar, TypeOK, Posibles
  <2> QED BY <1>7, <2>1, <2>2, TipoInstruccion DEF TypeOK, Buscar
<1>8. ASSUME NEW p \in Procesos, NEW f \in Archivos, Transferir(p, f) PROVE TypeOK'
  <2>1. PICK pos \in BuscarPuntero(p, f) :
            aFs' = Append(aFs, Mensaje("LEER_ARCHIVO", p, f, pos))
    BY <1>8 DEF Transferir
  <2>2. aFs' \in Seq(MensajesFs(Ops))
    BY <2>1, PosicionPosible, Mandado DEF Ops
  <2>3. mutexCompresion' \in {0, 1}
    BY <1>8 DEF Transferir, WaitCompresion, TypeOK
  <2> QED BY <1>8, <2>2, <2>3, TipoInstruccion DEF TypeOK, Transferir
<1>9. \A p \in Procesos : Nombra[p] \subseteq Archivos
  BY NombraAssumption
<1> QED BY <1>1, <1>2, <1>3, <1>4, <1>5, <1>6, <1>7, <1>8, <1>9 DEF Cpu, Abrir

\* What the file system, the thread atender_fileSystem and those of the files do
\* keeps the types: the mutex is given back only by the transfer that took it.
LEMMA TipoFileSystem == TypeOK /\ FileSystem => TypeOK'
<1> SUFFICES ASSUME TypeOK, FileSystem PROVE TypeOK'
  OBVIOUS
<1>1. Head(aFs) \in MensajesFs(Ops) /\ Tail(aFs) \in Seq(MensajesFs(Ops))
  BY HeadTailProperties DEF TypeOK, FileSystem
<1>2. \A op \in OpsRespuesta : [Head(aFs) EXCEPT !.op = op] \in MensajesFs(OpsRespuesta)
  BY <1>1 DEF MensajesFs
<1>3. LeeSinBloques(Head(aFs).pid) \/ \E op \in OpsRespuesta : Contesta(op)
  BY DEF FileSystem, OpsRespuesta
<1>4. /\ aFs' \in Seq(MensajesFs(Ops)) /\ deFs' \in Seq(MensajesFs(OpsRespuesta))
      /\ fs' \in {"vivo", "caido"}
  <2>1. CASE LeeSinBloques(Head(aFs).pid)
    BY <1>1, <2>1 DEF LeeSinBloques, TypeOK
  <2>2. ASSUME NEW op \in OpsRespuesta, Contesta(op)
        PROVE  /\ aFs' \in Seq(MensajesFs(Ops)) /\ deFs' \in Seq(MensajesFs(OpsRespuesta))
               /\ fs' \in {"vivo", "caido"}
    BY <1>1, <1>2, <2>2, AppendProperties DEF Contesta, TypeOK
  <2> QED BY <1>3, <2>1, <2>2
<1>5. enDisco' \subseteq Archivos
  BY <1>1 DEF FileSystem, TypeOK, MensajesFs
<1> QED BY <1>4, <1>5 DEF FileSystem, TypeOK, Vivo, tablas, historia

LEMMA TipoAtender == TypeOK /\ UnaTransferencia /\ AtenderFileSystem => TypeOK'
<1> SUFFICES ASSUME TypeOK, UnaTransferencia, AtenderFileSystem PROVE TypeOK'
  OBVIOUS
<1> USE DEF Vivo, tablas, canalFs, historia
<1>1. CASE ArchivoAbierto
  <2> DEFINE p == Head(deFs).pid
             f == Head(deFs).arch
  <2>1. p \in Procesos /\ f \in Archivos /\ deFs' \in Seq(MensajesFs(OpsRespuesta))
    BY <1>1, Recibido DEF ArchivoAbierto, MensajesFs
  <2>2. AgregarEntrada(p, f)
    BY <1>1 DEF ArchivoAbierto
  <2>3. /\ archivosAbiertos' \in [Procesos -> Seq([dir : Archivos, punt : Posibles])]
        /\ esperado' \in [Procesos -> [Archivos -> Posibles]]
    BY <2>1, <2>2, EntradaNueva
  <2>4. /\ lista' \subseteq Archivos /\ cola' \in [Archivos -> Seq(Procesos)]
        /\ semArchivo' \in [Archivos -> Nat] /\ usa' \in [Archivos -> SUBSET Procesos]
    BY <1>1, <2>1, EmptySeq DEF ArchivoAbierto, TypeOK
  <2>5. cpu' \in [estado : {"ejecutando", "esperando"}, pid : Procesos]
    BY <1>1, <2>1 DEF ArchivoAbierto, Corre
  <2> QED BY <1>1, <2>1, <2>3, <2>4, <2>5 DEF ArchivoAbierto, TypeOK
<1>2. CASE CrearArchivo
  <2>1. Head(deFs) \in MensajesFs(Ops) /\ deFs' \in Seq(MensajesFs(OpsRespuesta))
    BY <1>2, Recibido DEF CrearArchivo, MensajesFs, Ops
  <2>2. aFs' \in Seq(MensajesFs(Ops))
    BY <1>2, <2>1, AppendProperties DEF CrearArchivo, TypeOK
  <2> QED BY <1>2, <2>1, <2>2 DEF CrearArchivo, TypeOK
<1>3. CASE Desbloqueado
  <2>1. Head(deFs).pid \in Procesos /\ deFs' \in Seq(MensajesFs(OpsRespuesta))
    BY <1>3, Recibido DEF Desbloqueado, MensajesFs
  <2>2. mutexCompresion = 0
    <3>1. 1 \in DOMAIN deFs /\ EsTransferencia(deFs[1])
      BY <1>3, LenProperties, EmptySeq DEF Desbloqueado, TypeOK, EsTransferencia
    <3> QED BY <3>1 DEF UnaTransferencia, TypeOK
  <2>3. mutexCompresion' \in {0, 1} /\ listos' \subseteq Procesos
    BY <1>3, <2>1, <2>2 DEF Desbloqueado, TypeOK
  <2> QED BY <1>3, <2>1, <2>3 DEF Desbloqueado, TypeOK
<1>4. CASE Desconectado
  BY <1>4 DEF Desconectado, TypeOK
<1> QED BY <1>1, <1>2, <1>3, <1>4 DEF AtenderFileSystem

LEMMA TipoIniciar == \A f \in Archivos : TypeOK /\ IniciarArchivo(f) => TypeOK'
<1> SUFFICES ASSUME NEW f \in Archivos, TypeOK, IniciarArchivo(f) PROVE TypeOK'
  OBVIOUS
<1>1. semArchivo' \in [Archivos -> Nat]
  BY DEF IniciarArchivo, TypeOK
<1>2. CASE cola[f] # <<>>
  <2>1. Head(cola[f]) \in Procesos /\ Tail(cola[f]) \in Seq(Procesos)
    BY <1>2, HeadTailProperties DEF TypeOK
  <2>2. cola' \in [Archivos -> Seq(Procesos)]
    BY <1>2, <2>1 DEF IniciarArchivo, TypeOK
  <2>3. usa' \in [Archivos -> SUBSET Procesos] /\ listos' \subseteq Procesos
    <3>1. /\ usa' = [usa EXCEPT ![f] = @ \union {Head(cola[f])}]
          /\ listos' = listos \union {Head(cola[f])}
      BY <1>2 DEF IniciarArchivo
    <3> QED BY <2>1, <3>1 DEF TypeOK
  <2> QED BY <1>1, <1>2, <2>2, <2>3 DEF IniciarArchivo, TypeOK, canalFs
<1>3. CASE cola[f] = <<>>
  BY <1>1, <1>3 DEF IniciarArchivo, TypeOK, canalFs
<1> QED BY <1>2, <1>3

-----------------------------------------------------------------------------
(* The conversation with the file system.                                  *)

\* The elements of a sequence after something is put at the end or taken from
\* the front.
LEMMA AlFinal ==
    ASSUME NEW S, NEW s \in Seq(S), NEW m
    PROVE  /\ DOMAIN Append(s, m) = 1 .. Len(s) + 1 /\ DOMAIN s = 1 .. Len(s)
           /\ \A i \in DOMAIN s : Append(s, m)[i] = s[i]
           /\ Append(s, m)[Len(s) + 1] = m
           /\ Len(s) \in Nat
<1> DEFINE T == S \union {m}
<1>1. s \in Seq(T) /\ m \in T
  BY SeqMonotonic
<1> QED BY <1>1, AppendProperties, LenProperties

LEMMA DelFrente ==
    ASSUME NEW S, NEW s \in Seq(S), s # <<>>
    PROVE  /\ DOMAIN Tail(s) = 1 .. Len(s) - 1 /\ DOMAIN s = 1 .. Len(s)
           /\ \A i \in DOMAIN Tail(s) : Tail(s)[i] = s[i + 1]
           /\ Len(s) \in Nat \ {0} /\ Head(s) = s[1]
BY HeadTailProperties, LenProperties, EmptySeq

\* A message goes into the connection: what is under way stays at most one if
\* the mutex, or the CPU, was free for it.
LEMMA EnviarTransferencia ==
    ASSUME TypeOK, UnaTransferencia, NEW m, aFs' = Append(aFs, m), deFs' = deFs,
           \/ ~EsTransferencia(m) /\ mutexCompresion' = mutexCompresion
           \/ mutexCompresion = 1 /\ mutexCompresion' = 0
    PROVE  UnaTransferencia'
<1>1. /\ DOMAIN aFs' = 1 .. Len(aFs) + 1 /\ DOMAIN aFs = 1 .. Len(aFs) /\ Len(aFs) \in Nat
      /\ \A i \in DOMAIN aFs : aFs'[i] = aFs[i]
      /\ aFs'[Len(aFs) + 1] = m
  BY AlFinal DEF TypeOK
<1> QED BY <1>1 DEF UnaTransferencia, EsTransferencia

LEMMA EnviarApertura ==
    ASSUME TypeOK, UnaApertura, NEW m, aFs' = Append(aFs, m), deFs' = deFs, lista' = lista,
           \/ ~EsApertura(m) /\ (cpu.estado = "esperando" => cpu' = cpu)
           \/ cpu.estado # "esperando" /\ cpu'.estado = "esperando" /\ m.arch \notin lista
    PROVE  UnaApertura'
<1>1. /\ DOMAIN aFs' = 1 .. Len(aFs) + 1 /\ DOMAIN aFs = 1 .. Len(aFs) /\ Len(aFs) \in Nat
      /\ \A i \in DOMAIN aFs : aFs'[i] = aFs[i]
      /\ aFs'[Len(aFs) + 1] = m
  BY AlFinal DEF TypeOK
<1> QED BY <1>1 DEF UnaApertura, EsApertura

\* The file system answers a request with an answer of the same kind, or dies.
RespondeComo(op) ==
    /\ Contesta(op)
    /\ op = "DESBLOQUEADO" <=> EsTransferencia(Head(aFs))
    /\ op # "DESBLOQUEADO" <=> EsApertura(Head(aFs))

LEMMA RespondeOMuere ==
    ASSUME FileSystem
    PROVE  \/ LeeSinBloques(Head(aFs).pid) /\ EsTransferencia(Head(aFs))
           \/ \E op \in OpsRespuesta : RespondeComo(op)
BY DEF FileSystem, OpsRespuesta, RespondeComo, EsTransferencia, EsApertura

LEMMA Morir ==
    ASSUME TypeOK, Conversacion, FileSystem, LeeSinBloques(Head(aFs).pid)
    PROVE  Conversacion'
<1>1. /\ DOMAIN aFs' = 1 .. Len(aFs) - 1 /\ DOMAIN aFs = 1 .. Len(aFs)
      /\ \A i \in DOMAIN aFs' : aFs'[i] = aFs[i + 1]
      /\ Len(aFs) \in Nat \ {0}
  BY DelFrente DEF TypeOK, FileSystem, LeeSinBloques
<1>2. UNCHANGED <<deFs, mutexCompresion, cpu, lista>>
  BY DEF FileSystem, tablas, LeeSinBloques
<1>3. UnaTransferencia'
  BY <1>1, <1>2 DEF Conversacion, UnaTransferencia, EsTransferencia
<1>4. UnaApertura'
  BY <1>1, <1>2 DEF Conversacion, UnaApertura, EsApertura
<1> QED BY <1>3, <1>4 DEF Conversacion

LEMMA Contestar ==
    ASSUME TypeOK, Conversacion, FileSystem, NEW op \in OpsRespuesta, RespondeComo(op)
    PROVE  Conversacion'
<1>1. /\ Contesta(op)
      /\ op = "DESBLOQUEADO" <=> EsTransferencia(Head(aFs))
      /\ op # "DESBLOQUEADO" <=> EsApertura(Head(aFs))
  BY DEF RespondeComo
<1> DEFINE n == [Head(aFs) EXCEPT !.op = op]
<1>2. Head(aFs) \in MensajesFs(Ops)
  BY HeadTailProperties DEF TypeOK, FileSystem
<1>3. /\ n.arch = Head(aFs).arch
      /\ EsTransferencia(n) <=> EsTransferencia(Head(aFs))
      /\ EsApertura(n) <=> EsApertura(Head(aFs))
  BY <1>1, <1>2 DEF MensajesFs, EsTransferencia, EsApertura, OpsRespuesta
<1>4. /\ DOMAIN aFs' = 1 .. Len(aFs) - 1 /\ DOMAIN aFs = 1 .. Len(aFs)
      /\ \A i \in DOMAIN aFs' : aFs'[i] = aFs[i + 1]
      /\ Len(aFs) \in Nat \ {0} /\ Head(aFs) = aFs[1]
  BY <1>1, DelFrente DEF TypeOK, FileSystem, Contesta
<1>5. /\ DOMAIN deFs' = 1 .. Len(deFs) + 1 /\ DOMAIN deFs = 1 .. Len(deFs) /\ Len(deFs) \in Nat
      /\ \A i \in DOMAIN deFs : deFs'[i] = deFs[i]
      /\ deFs'[Len(deFs) + 1] = n
  BY <1>1, AlFinal DEF TypeOK, Contesta
<1>6. UNCHANGED <<mutexCompresion, cpu, lista>>
  BY DEF FileSystem, tablas
<1> HIDE DEF n
<1>7. UnaTransferencia'
  BY SMTT(60), <1>3, <1>4, <1>5, <1>6 DEF Conversacion, UnaTransferencia, EsTransferencia
<1>8. UnaApertura'
  BY SMTT(60), <1>3, <1>4, <1>5, <1>6 DEF Conversacion, UnaApertura, EsApertura
<1> QED BY <1>7, <1>8 DEF Conversacion

LEMMA MoverFileSystem ==
    ASSUME TypeOK, Conversacion, FileSystem
    PROVE  Conversacion'
BY RespondeOMuere, Morir, Contestar

\* The kernel reads an answer: nothing else of its kind is under way.
LEMMA RecibirTransferencia ==
    ASSUME TypeOK, UnaTransferencia, deFs # <<>>, deFs' = Tail(deFs), aFs' = aFs,
           EsTransferencia(Head(deFs)) \/ mutexCompresion' = mutexCompresion
    PROVE  UnaTransferencia'
<1>1. /\ DOMAIN deFs' = 1 .. Len(deFs) - 1 /\ DOMAIN deFs = 1 .. Len(deFs)
      /\ \A i \in DOMAIN deFs' : deFs'[i] = deFs[i + 1]
      /\ Len(deFs) \in Nat \ {0} /\ Head(deFs) = deFs[1]
  BY DelFrente DEF TypeOK
<1> QED BY <1>1 DEF UnaTransferencia, EsTransferencia

LEMMA RecibirApertura ==
    ASSUME TypeOK, UnaApertura, deFs # <<>>, deFs' = Tail(deFs), aFs' = aFs,
           EsApertura(Head(deFs)) \/ UNCHANGED <<cpu, lista>>
    PROVE  UnaApertura'
<1>1. /\ DOMAIN deFs' = 1 .. Len(deFs) - 1 /\ DOMAIN deFs = 1 .. Len(deFs)
      /\ \A i \in DOMAIN deFs' : deFs'[i] = deFs[i + 1]
      /\ Len(deFs) \in Nat \ {0} /\ Head(deFs) = deFs[1]
  BY DelFrente DEF TypeOK
<1> QED BY <1>1 DEF UnaApertura, EsApertura

\* What neither sends nor receives, adds no file to the table, and leaves the CPU
\* alone while it waits.
LEMMA Callar ==
    ASSUME Conversacion, UNCHANGED <<aFs, deFs, mutexCompresion>>, lista' \subseteq lista,
           cpu.estado = "esperando" => cpu' = cpu
    PROVE  Conversacion'
BY DEF Conversacion, UnaTransferencia, UnaApertura, EsTransferencia, EsApertura

LEMMA ConversacionAtender ==
    TypeOK /\ Conversacion /\ AtenderFileSystem => Conversacion'
<1> SUFFICES ASSUME TypeOK, Conversacion, AtenderFileSystem PROVE Conversacion'
  OBVIOUS
<1>0. UnaTransferencia /\ UnaApertura
  BY DEF Conversacion
<1>1. CASE ArchivoAbierto
  <2>1. EsApertura(Head(deFs)) /\ UNCHANGED <<aFs, mutexCompresion>> /\ deFs' = Tail(deFs)
            /\ deFs # <<>>
    BY <1>1 DEF ArchivoAbierto, EsApertura
  <2> QED BY <1>0, <2>1, RecibirTransferencia, RecibirApertura DEF Conversacion
<1>2. CASE CrearArchivo
  <2> DEFINE m == Head(deFs)
  <2>1. /\ deFs # <<>> /\ deFs' = Tail(deFs) /\ aFs' = Append(aFs, m)
        /\ UNCHANGED <<mutexCompresion, cpu, lista>>
        /\ ~EsTransferencia(m) /\ EsApertura(m)
    BY <1>2 DEF CrearArchivo, tablas, EsTransferencia, EsApertura
  <2>2. /\ DOMAIN deFs' = 1 .. Len(deFs) - 1 /\ DOMAIN deFs = 1 .. Len(deFs)
        /\ \A i \in DOMAIN deFs' : deFs'[i] = deFs[i + 1]
        /\ Len(deFs) \in Nat \ {0} /\ m = deFs[1]
    BY <2>1, DelFrente DEF TypeOK
  <2>3. /\ DOMAIN aFs' = 1 .. Len(aFs) + 1 /\ DOMAIN aFs = 1 .. Len(aFs) /\ Len(aFs) \in Nat
        /\ \A i \in DOMAIN aFs : aFs'[i] = aFs[i]
        /\ aFs'[Len(aFs) + 1] = m
    BY <2>1, AlFinal DEF TypeOK
  <2> HIDE DEF m
  <2>4. UnaTransferencia'
    BY SMTT(60), <1>0, <2>1, <2>2, <2>3 DEF UnaTransferencia, EsTransferencia
  <2>5. UnaApertura'
    BY SMTT(60), <1>0, <2>1, <2>2, <2>3 DEF UnaApertura, EsApertura
  <2> QED BY <2>4, <2>5 DEF Conversacion
<1>3. CASE Desbloqueado
  <2>1. EsTransferencia(Head(deFs)) /\ UNCHANGED <<aFs, cpu, lista>> /\ deFs' = Tail(deFs)
            /\ deFs # <<>>
    BY <1>3 DEF Desbloqueado, EsTransferencia, tablas
  <2> QED BY <1>0, <2>1, RecibirTransferencia, RecibirApertura DEF Conversacion
<1>4. CASE Desconectado
  BY <1>4, Callar DEF Desconectado, tablas, canalFs
<1> QED BY <1>1, <1>2, <1>3, <1>4 DEF AtenderFileSystem

LEMMA ConversacionCpu == TypeOK /\ Conversacion /\ Cpu => Conversacion'
<1> SUFFICES ASSUME TypeOK, Conversacion, Cpu PROVE Conversacion'
  OBVIOUS
<1> USE DEF tablas, canalFs
<1>0. UnaTransferencia /\ UnaApertura /\ \A q \in Procesos : Corre(q).estado # "esperando"
  BY DEF Conversacion, Corre
<1>1. ASSUME NEW p \in Procesos, Despachar(p) PROVE Conversacion'
  BY <1>1, Callar DEF Despachar, CpuOciosa
<1>2. ASSUME NEW p \in Procesos, Ceder(p) PROVE Conversacion'
  BY <1>0, <1>2, Callar DEF Ceder, Instruccion
<1>3. ASSUME NEW p \in Procesos, Terminar(p) PROVE Conversacion'
  BY <1>0, <1>3, Callar DEF Terminar
<1>4. ASSUME NEW p \in Procesos, NEW f \in Archivos, AbrirContenido(p, f) PROVE Conversacion'
  BY <1>0, <1>4, Callar DEF AbrirContenido, Instruccion
<1>5. ASSUME NEW p \in Procesos, NEW f \in Archivos, AbrirOtro(p, f) PROVE Conversacion'
  <2> DEFINE m == Pedido("ABRIR_ARCHIVO", p, f)
  <2>1. /\ aFs' = Append(aFs, m) /\ UNCHANGED <<deFs, lista, mutexCompresion>>
        /\ cpu.estado # "esperando" /\ cpu'.estado = "esperando" /\ f \notin lista
    BY <1>0, <1>5 DEF AbrirOtro, Instruccion, Espera
  <2>2. ~EsTransferencia(m) /\ m.arch = f
    BY DEF EsTransferencia, Pedido, Mensaje
  <2> HIDE DEF m
  <2> QED BY <1>0, <2>1, <2>2, EnviarTransferencia, EnviarApertura DEF Conversacion
<1>6. ASSUME NEW p \in Procesos, NEW f \in Archivos, Cerrar(p, f) PROVE Conversacion'
  BY <1>6, Callar DEF Cerrar
<1>7. ASSUME NEW p \in Procesos, NEW f \in Archivos, NEW pos \in Posiciones, Buscar(p, f, pos)
      PROVE  Conversacion'
  BY <1>7, Callar DEF Buscar
<1>8. ASSUME NEW p \in Procesos, NEW f \in Archivos, Transferir(p, f) PROVE Conversacion'
  <2>1. PICK pos \in BuscarPuntero(p, f) :
            aFs' = Append(aFs, Mensaje("LEER_ARCHIVO", p, f, pos))
    BY <1>8 DEF Transferir
  <2> DEFINE m == Mensaje("LEER_ARCHIVO", p, f, pos)
  <2>2. /\ UNCHANGED <<deFs, lista>> /\ cpu.estado # "esperando"
        /\ mutexCompresion = 1 /\ mutexCompresion' = 0
    BY <1>0, <1>8 DEF Transferir, Instruccion, WaitCompresion, TypeOK
  <2>3. ~EsApertura(m) /\ aFs' = Append(aFs, m)
    BY <2>1 DEF EsApertura, Mensaje
  <2> HIDE DEF m
  <2> QED BY <1>0, <2>2, <2>3, EnviarTransferencia, EnviarApertura DEF Conversacion
<1>9. \A p \in Procesos : Nombra[p] \subseteq Archivos
  BY NombraAssumption
<1> QED BY <1>1, <1>2, <1>3, <1>4, <1>5, <1>6, <1>7, <1>8, <1>9 DEF Cpu, Abrir

LEMMA ConversacionIniciar ==
    \A f \in Archivos : Conversacion /\ IniciarArchivo(f) => Conversacion'
BY Callar DEF IniciarArchivo, canalFs

\* Types and conversation are inductive together: the mutex of the transfers is
\* given back only while one is under way.
LEMMA ConversacionSiempre == Spec => [](TypeOK /\ Conversacion)
<1>1. Init => TypeOK /\ Conversacion
  <2> SUFFICES ASSUME Init PROVE TypeOK /\ Conversacion
    OBVIOUS
  <2>1. \A S : <<>> \in Seq(S)
    BY EmptySeq
  <2>2. \A p \in Procesos : MaxPedidos[p] \in Nat
    BY MaxPedidosAssumption
  <2>3. TypeOK
    BY <2>1, <2>2, SueltosAssumption DEF Init, TypeOK, Posibles
  <2>4. Conversacion
    BY DEF Init, Conversacion, UnaTransferencia, UnaApertura
  <2> QED BY <2>3, <2>4
<1>2. TypeOK /\ Conversacion /\ [Next]_vars => (TypeOK /\ Conversacion)'
  <2> SUFFICES ASSUME TypeOK, Conversacion, [Next]_vars PROVE TypeOK' /\ Conversacion'
    OBVIOUS
  <2>0. UnaTransferencia
    BY DEF Conversacion
  <2>1. CASE Cpu
    BY <2>1, TipoCpu, ConversacionCpu
  <2>2. CASE FileSystem
    BY <2>2, TipoFileSystem, MoverFileSystem
  <2>3. CASE AtenderFileSystem
    BY <2>0, <2>3, TipoAtender, ConversacionAtender
  <2>4. ASSUME NEW f \in Archivos, IniciarArchivo(f) PROVE TypeOK' /\ Conversacion'
    BY <2>4, TipoIniciar, ConversacionIniciar
  <2>5. CASE UNCHANGED vars
    <3>1. TypeOK'
      BY <2>5 DEF TypeOK, vars, tablas, canalFs, historia
    <3>2. Conversacion'
      BY <2>5, Callar DEF vars, tablas, canalFs
    <3> QED BY <3>1, <3>2
  <2> QED BY <2>1, <2>2, <2>3, <2>4, <2>5 DEF Next
<1> QED BY <1>1, <1>2, PTL DEF Spec

\* The state of the open files keeps its type: the mutex, two ends of one
\* connection and a queue for each file.
THEOREM TipoArchivosCorrecto == Spec => []TypeOK
BY ConversacionSiempre, PTL

\* At every moment at most one transfer and one opening are under way between the
\* kernel and the file system, and mutex and CPU know of them.
THEOREM ConversacionCorrecta == Spec => []Conversacion
BY ConversacionSiempre, PTL

-----------------------------------------------------------------------------
(* The users of the files.                                                 *)

\* The three states of a file among careful processes.
Libre(f) == f \notin lista /\ usa[f] = {} /\ semArchivo[f] = 0 /\ cola[f] = <<>>
EnUso(f, p) == f \in lista /\ usa[f] = {p} /\ semArchivo[f] = 0
EnEntrega(f) == f \in lista /\ usa[f] = {} /\ semArchivo[f] = 1 /\ cola[f] # <<>>

Ordenado(f) == Libre(f) \/ EnEntrega(f) \/ \E p \in Procesos : EnUso(f, p)
DueniosJustos ==
    Cuidadosos => kernel = "vivo" /\ fs = "vivo" /\ \A f \in Archivos : Ordenado(f)

\* A step leaves the other files as they are.
LEMMA Ajenos ==
    ASSUME TypeOK, NEW f \in Archivos, \A g \in Archivos : Ordenado(g),
           \A g \in Archivos \ {f} :
               /\ g \in lista <=> g \in lista'
               /\ usa'[g] = usa[g] /\ semArchivo'[g] = semArchivo[g] /\ cola'[g] = cola[g],
           Ordenado(f)'
    PROVE  \A g \in Archivos : Ordenado(g)'
BY DEF Ordenado, Libre, EnUso, EnEntrega

LEMMA DuenioCerrar ==
    ASSUME TypeOK, DueniosJustos, Cuidadosos, NEW p \in Procesos, NEW f \in Archivos,
           Cerrar(p, f)
    PROVE  kernel' = "vivo" /\ \A g \in Archivos : Ordenado(g)'
<1>1. Ordenado(f) /\ p \in usa[f]
  BY DEF DueniosJustos, Cerrar, Cuidadosos
<1>2. EnUso(f, p)
  BY <1>1 DEF Ordenado, Libre, EnEntrega, EnUso
<1>3. usa'[f] = {} /\ \A g \in Archivos \ {f} : usa'[g] = usa[g]
  BY <1>2 DEF Cerrar, TypeOK, EnUso
<1>4. CASE ~HayCola(f)
  <2>1. /\ lista' = lista \ {f} /\ UNCHANGED <<semArchivo, cola>> /\ kernel' = kernel
    BY <1>2, <1>4 DEF Cerrar, EnUso
  <2>2. Libre(f)'
    BY <1>2, <1>3, <1>4, <2>1 DEF Libre, EnUso, HayCola
  <2> QED BY <1>3, <2>1, <2>2, Ajenos DEF DueniosJustos, Ordenado
<1>5. CASE HayCola(f)
  <2>1. /\ UNCHANGED <<lista, cola, kernel>>
        /\ semArchivo' = [semArchivo EXCEPT ![f] = @ + 1]
    BY <1>2, <1>5 DEF Cerrar, EnUso, PostArchivo
  <2>2. semArchivo'[f] = 1 /\ \A g \in Archivos \ {f} : semArchivo'[g] = semArchivo[g]
    BY <1>2, <2>1 DEF EnUso, TypeOK
  <2>3. EnEntrega(f)'
    BY <1>2, <1>3, <1>5, <2>1, <2>2 DEF EnEntrega, EnUso, HayCola
  <2> QED BY <1>3, <2>1, <2>2, <2>3, Ajenos DEF DueniosJustos, Ordenado
<1> QED BY <1>4, <1>5

LEMMA DuenioIniciar ==
    ASSUME TypeOK, DueniosJustos, Cuidadosos, NEW f \in Archivos, IniciarArchivo(f)
    PROVE  kernel' = "vivo" /\ \A g \in Archivos : Ordenado(g)'
<1>1. EnEntrega(f)
  BY DEF DueniosJustos, Ordenado, Libre, EnUso, IniciarArchivo
<1>2. PICK p \in Procesos : p = Head(cola[f])
  BY <1>1, HeadTailProperties DEF EnEntrega, TypeOK
<1>3. /\ semArchivo' = [semArchivo EXCEPT ![f] = @ - 1]
      /\ cola' = [cola EXCEPT ![f] = Tail(@)]
      /\ usa' = [usa EXCEPT ![f] = @ \union {p}]
      /\ UNCHANGED <<lista, kernel>>
  BY <1>1, <1>2 DEF IniciarArchivo, EnEntrega
<1>4. usa'[f] = {p} /\ semArchivo'[f] = 0
  BY <1>1, <1>3 DEF EnEntrega, TypeOK
<1>5. EnUso(f, p)'
  BY <1>1, <1>3, <1>4 DEF EnUso, EnEntrega
<1>6. \A g \in Archivos \ {f} :
          usa'[g] = usa[g] /\ semArchivo'[g] = semArchivo[g] /\ cola'[g] = cola[g]
  BY <1>3 DEF TypeOK
<1>7. Ordenado(f)'
  BY <1>2, <1>5 DEF Ordenado
<1> QED BY <1>3, <1>6, <1>7, Ajenos DEF DueniosJustos

LEMMA DuenioAbierto ==
    ASSUME TypeOK, Conversacion, DueniosJustos, Cuidadosos, ArchivoAbierto
    PROVE  kernel' = "vivo" /\ \A g \in Archivos : Ordenado(g)'
<1>1. PICK p \in Procesos, f \in Archivos : p = Head(deFs).pid /\ f = Head(deFs).arch
  BY Recibido DEF ArchivoAbierto, MensajesFs
<1>2. f \notin lista
  <2>1. 1 \in DOMAIN deFs /\ Head(deFs) = deFs[1]
    BY DelFrente DEF ArchivoAbierto, TypeOK
  <2>2. EsApertura(deFs[1])
    BY <2>1 DEF ArchivoAbierto, EsApertura
  <2> QED BY <1>1, <2>1, <2>2 DEF Conversacion, UnaApertura
<1>3. Libre(f)
  BY <1>1, <1>2 DEF DueniosJustos, Ordenado, EnEntrega, EnUso
<1>4. /\ lista' = lista \union {f} /\ cola' = [cola EXCEPT ![f] = <<>>]
      /\ semArchivo' = [semArchivo EXCEPT ![f] = 0]
      /\ usa' = [usa EXCEPT ![f] = @ \union {p}] /\ kernel' = kernel
  BY <1>1 DEF ArchivoAbierto, Vivo
<1>5. EnUso(f, p)'
  BY <1>1, <1>3, <1>4 DEF EnUso, Libre, TypeOK
<1>6. \A g \in Archivos \ {f} :
          usa'[g] = usa[g] /\ semArchivo'[g] = semArchivo[g] /\ cola'[g] = cola[g]
  BY <1>4 DEF TypeOK
<1>7. Ordenado(f)'
  BY <1>1, <1>5 DEF Ordenado
<1> QED BY <1>1, <1>4, <1>6, <1>7, Ajenos DEF DueniosJustos

LEMMA DuenioEspera ==
    ASSUME TypeOK, DueniosJustos, Cuidadosos, NEW p \in Procesos, NEW f \in Archivos,
           AbrirContenido(p, f)
    PROVE  kernel' = "vivo" /\ \A g \in Archivos : Ordenado(g)'
<1>1. /\ UNCHANGED <<lista, semArchivo, usa, kernel>> /\ f \in lista
      /\ cola' = [cola EXCEPT ![f] = Append(@, p)]
  BY DEF AbrirContenido, Vivo, Encolar
<1>2. cola'[f] # <<>>
  <2>1. Append(cola[f], p) # <<>>
    <3>1. cola[f] \in Seq(Procesos)
      BY DEF TypeOK
    <3> QED BY <3>1, AppendProperties
  <2> QED BY <1>1, <2>1 DEF TypeOK
<1>3. \A g \in Archivos \ {f} : cola'[g] = cola[g]
  BY <1>1 DEF TypeOK
<1>4. Ordenado(f)'
  BY <1>1, <1>2 DEF DueniosJustos, Ordenado, Libre, EnEntrega, EnUso
<1> QED BY <1>1, <1>3, <1>4, Ajenos DEF DueniosJustos

\* The steps that touch neither the tables nor their users.
Ajena ==
    \/ FileSystem \/ CrearArchivo \/ Desbloqueado
    \/ \E p \in Procesos : Despachar(p) \/ Ceder(p) \/ Terminar(p)
    \/ \E p \in Procesos, f \in Archivos :
          \/ AbrirOtro(p, f) \/ Transferir(p, f)
          \/ \E pos \in Posiciones : Buscar(p, f, pos)
LEMMA AjenaNoToca == Ajena => UNCHANGED <<tablas, usa, kernel, descuidados>>
BY DEF Ajena, FileSystem, CrearArchivo, Desbloqueado, Despachar, Ceder, Terminar, AbrirOtro,
       Transferir, Buscar, Vivo, historia, Instruccion, tablas

LEMMA Casos ==
    ASSUME Next
    PROVE  \/ Ajena \/ ArchivoAbierto \/ Desconectado
           \/ \E p \in Procesos, f \in Archivos : AbrirContenido(p, f) \/ Cerrar(p, f)
           \/ \E f \in Archivos : IniciarArchivo(f)
<1>1. \A p \in Procesos : Nombra[p] \subseteq Archivos
  BY NombraAssumption
<1> QED BY <1>1 DEF Next, Cpu, AtenderFileSystem, Abrir, Ajena

LEMMA DescuidadosFijos == Next => UNCHANGED descuidados
<1> SUFFICES ASSUME Next PROVE UNCHANGED descuidados
  OBVIOUS
<1>1. CASE Ajena
  BY <1>1, AjenaNoToca
<1>2. CASE ArchivoAbierto
  BY <1>2 DEF ArchivoAbierto
<1>3. ASSUME NEW p \in Procesos, NEW f \in Archivos, AbrirContenido(p, f) \/ Cerrar(p, f)
      PROVE  UNCHANGED descuidados
  BY <1>3 DEF AbrirContenido, Instruccion, Cerrar
<1>4. ASSUME NEW f \in Archivos, IniciarArchivo(f) PROVE UNCHANGED descuidados
  BY <1>4 DEF IniciarArchivo
<1>5. CASE Desconectado
  BY <1>5 DEF Desconectado
<1> QED BY <1>1, <1>2, <1>3, <1>4, <1>5, Casos

\* The file system dies only of what a careless process reads.
LEMMA FsVivo == Cuidadosos /\ Next => UNCHANGED fs
<1> SUFFICES ASSUME Cuidadosos, Next PROVE UNCHANGED fs
  OBVIOUS
<1>1. CASE FileSystem
  BY <1>1, RespondeOMuere DEF RespondeComo, Contesta, LeeSinBloques, Cuidadosos
<1>2. CASE Cpu
  BY <1>2 DEF Cpu, Abrir, Despachar, Ceder, Terminar, AbrirContenido, AbrirOtro, Cerrar,
              Transferir, Buscar, Instruccion, canalFs
<1>3. CASE AtenderFileSystem
  BY <1>3 DEF AtenderFileSystem, ArchivoAbierto, CrearArchivo, Desbloqueado, Desconectado,
              canalFs
<1>4. ASSUME NEW f \in Archivos, IniciarArchivo(f) PROVE UNCHANGED fs
  BY <1>4 DEF IniciarArchivo, canalFs
<1> QED BY <1>1, <1>2, <1>3, <1>4 DEF Next

LEMMA DueniosPaso ==
    ASSUME TypeOK, Conversacion, DueniosJustos, [Next]_vars
    PROVE  DueniosJustos'
<1>1. CASE UNCHANGED vars
  BY <1>1 DEF vars, tablas, canalFs, historia, DueniosJustos, Cuidadosos, Ordenado, Libre,
              EnUso, EnEntrega
<1>2. CASE Next
  <2>0. UNCHANGED descuidados
    BY <1>2, DescuidadosFijos
  <2> SUFFICES ASSUME Cuidadosos
               PROVE  kernel' = "vivo" /\ \A g \in Archivos : Ordenado(g)'
    BY <1>2, <2>0, FsVivo DEF DueniosJustos, Cuidadosos
  <2>1. CASE Ajena
    BY <2>1, AjenaNoToca DEF tablas, DueniosJustos, Ordenado, Libre, EnUso, EnEntrega
  <2>2. CASE ArchivoAbierto
    BY <2>2, DuenioAbierto
  <2>3. ASSUME NEW p \in Procesos, NEW f \in Archivos, AbrirContenido(p, f) \/ Cerrar(p, f)
        PROVE  kernel' = "vivo" /\ \A g \in Archivos : Ordenado(g)'
    BY <2>3, DuenioEspera, DuenioCerrar
  <2>4. ASSUME NEW f \in Archivos, IniciarArchivo(f)
        PROVE  kernel' = "vivo" /\ \A g \in Archivos : Ordenado(g)'
    BY <2>4, DuenioIniciar
  <2>5. CASE Desconectado
    BY <2>5 DEF Desconectado, DueniosJustos
  <2> QED BY <1>2, <2>1, <2>2, <2>3, <2>4, <2>5, Casos
<1> QED BY <1>1, <1>2

LEMMA UnoSolo == TypeOK /\ DueniosJustos => UnDuenio /\ KernelVivo
<1> SUFFICES ASSUME TypeOK, DueniosJustos PROVE UnDuenio /\ KernelVivo
  OBVIOUS
<1>1. KernelVivo
  BY DEF KernelVivo, DueniosJustos
<1>2. ASSUME Cuidadosos, NEW f \in Archivos
      PROVE  /\ Cardinality(usa[f]) + semArchivo[f] = IF f \in lista THEN 1 ELSE 0
             /\ f \notin lista => cola[f] = <<>>
  <2>0. Cardinality({}) = 0
    BY FS_EmptySet
  <2>1. CASE Libre(f)
    BY <2>0, <2>1 DEF Libre
  <2>3. CASE EnEntrega(f)
    BY <2>0, <2>3 DEF EnEntrega
  <2>2. ASSUME NEW p \in Procesos, EnUso(f, p)
        PROVE  Cardinality(usa[f]) + semArchivo[f] = 1 /\ f \in lista
    BY <2>2, FS_Singleton DEF EnUso
  <2> QED BY <1>2, <2>1, <2>2, <2>3 DEF DueniosJustos, Ordenado
<1> QED BY <1>1, <1>2 DEF UnDuenio

\* The invariant behind the next two theorems.
LEMMA Invariante == Spec => [](TypeOK /\ Conversacion /\ DueniosJustos)
<1>1. Init => DueniosJustos
  BY DEF Init, DueniosJustos, Ordenado, Libre
<1>2. TypeOK /\ Conversacion /\ DueniosJustos /\ [Next]_vars => DueniosJustos'
  BY DueniosPaso
<1> QED BY <1>1, <1>2, ConversacionSiempre, PTL DEF Spec

\* If the programs are careful, a file is in the table exactly while one
\* process has it or was woken for it, and nobody waits for a file that is not.
THEOREM UnDuenioCorrecto == Spec => []UnDuenio
<1>1. TypeOK /\ DueniosJustos => UnDuenio
  BY UnoSolo
<1> QED BY <1>1, Invariante, PTL

\* Nor does the kernel ever pop an empty queue, use a file that it freed or exit
\* because the file system is gone.
THEOREM KernelEnPieCorrecto == Spec => []KernelVivo
<1>1. TypeOK /\ DueniosJustos => KernelVivo
  BY UnoSolo
<1> QED BY <1>1, Invariante, PTL

-----------------------------------------------------------------------------
(* Archivos implements Turnos.                                             *)

LEMMA MapaLibre ==
    ASSUME NEW f \in Archivos, Libre(f)
    PROVE  DuenioDe(f) = Nadie /\ FilaDe(f) = <<>>
BY DEF Libre, DuenioDe, FilaDe, Pasada

LEMMA MapaEnUso ==
    ASSUME NEW f \in Archivos, NEW p \in Procesos, EnUso(f, p)
    PROVE  DuenioDe(f) = p /\ FilaDe(f) = cola[f]
BY DEF EnUso, DuenioDe, FilaDe, Pasada

LEMMA MapaEnEntrega ==
    ASSUME NEW f \in Archivos, EnEntrega(f)
    PROVE  DuenioDe(f) = Head(cola[f]) /\ FilaDe(f) = Tail(cola[f])
BY DEF EnEntrega, DuenioDe, FilaDe, Pasada

\* A file whose tables a step leaves alone stays as it is for Turnos too.
LEMMA MapaAjeno ==
    ASSUME NEW f \in Archivos, usa'[f] = usa[f], semArchivo'[f] = semArchivo[f],
           cola'[f] = cola[f]
    PROVE  DuenioDe(f)' = DuenioDe(f) /\ FilaDe(f)' = FilaDe(f)
BY DEF DuenioDe, FilaDe, Pasada

LEMMA SoltarPaso ==
    ASSUME TypeOK, DueniosJustos, Cuidadosos, NEW p \in Procesos, NEW f \in Archivos,
           Cerrar(p, f)
    PROVE  Fila!Soltar(f)
<1>1. Ordenado(f) /\ p \in usa[f]
  BY DEF DueniosJustos, Cerrar, Cuidadosos
<1>2. EnUso(f, p)
  BY <1>1 DEF Ordenado, Libre, EnEntrega, EnUso
<1>3. DuenioDe(f) = p /\ FilaDe(f) = cola[f] /\ p # Nadie
  BY <1>2, MapaEnUso, NadieAssumption
<1>4. usa'[f] = {} /\ \A g \in Archivos \ {f} : usa'[g] = usa[g]
  BY <1>2 DEF Cerrar, TypeOK, EnUso
<1>5. CASE ~HayCola(f)
  <2>1. lista' = lista \ {f} /\ UNCHANGED <<semArchivo, cola>>
    BY <1>2, <1>5 DEF Cerrar, EnUso
  <2>2. Libre(f)'
    BY <1>2, <1>4, <1>5, <2>1 DEF Libre, EnUso, HayCola
  <2>3. DuenioDe(f)' = Nadie /\ FilaDe(f)' = FilaDe(f) /\ FilaDe(f) = <<>>
    BY <1>3, <1>5, <2>2, MapaLibre DEF Libre, DuenioDe, FilaDe, Pasada, HayCola
  <2>4. \A g \in Archivos \ {f} : DuenioDe(g)' = DuenioDe(g) /\ FilaDe(g)' = FilaDe(g)
    BY <1>4, <2>1, MapaAjeno
  <2> QED BY <1>3, <2>3, <2>4 DEF Fila!Soltar
<1>6. CASE HayCola(f)
  <2>1. UNCHANGED <<lista, cola>> /\ semArchivo' = [semArchivo EXCEPT ![f] = @ + 1]
    BY <1>2, <1>6 DEF Cerrar, EnUso, PostArchivo
  <2>2. semArchivo'[f] = 1 /\ \A g \in Archivos \ {f} : semArchivo'[g] = semArchivo[g]
    BY <1>2, <2>1 DEF EnUso, TypeOK
  <2>3. DuenioDe(f)' = Head(FilaDe(f)) /\ FilaDe(f)' = Tail(FilaDe(f)) /\ FilaDe(f) # <<>>
    <3>1. semArchivo'[f] > 0 /\ cola'[f] = cola[f] /\ cola[f] # <<>>
      BY <1>6, <2>1, <2>2 DEF HayCola
    <3>2. Pasada(f)'
      BY <3>1 DEF Pasada
    <3>3. DuenioDe(f)' = Head(cola[f]) /\ FilaDe(f)' = Tail(cola[f])
      BY <3>1, <3>2 DEF DuenioDe, FilaDe
    <3> QED BY <1>3, <3>1, <3>3
  <2>4. \A g \in Archivos \ {f} : DuenioDe(g)' = DuenioDe(g) /\ FilaDe(g)' = FilaDe(g)
    BY <1>4, <2>1, <2>2, MapaAjeno
  <2> QED BY <1>3, <2>3, <2>4 DEF Fila!Soltar
<1> QED BY <1>5, <1>6

LEMMA EsperarPaso ==
    ASSUME TypeOK, DueniosJustos, Cuidadosos, NEW p \in Procesos, NEW f \in Archivos,
           AbrirContenido(p, f)
    PROVE  Fila!Esperar(p, f)
<1>1. /\ UNCHANGED <<lista, semArchivo, usa>> /\ f \in lista
      /\ cola' = [cola EXCEPT ![f] = Append(@, p)] /\ Ordenado(f)
  BY DEF AbrirContenido, Encolar, DueniosJustos
<1>2. cola[f] \in Seq(Procesos) /\ cola'[f] = Append(cola[f], p)
  BY <1>1 DEF TypeOK
<1>3. DuenioDe(f) # Nadie /\ DuenioDe(f)' = DuenioDe(f) /\ FilaDe(f)' = Append(FilaDe(f), p)
  <2>1. ASSUME NEW q \in Procesos, EnUso(f, q)
        PROVE  /\ DuenioDe(f) # Nadie /\ DuenioDe(f)' = DuenioDe(f)
               /\ FilaDe(f)' = Append(FilaDe(f), p)
    <3>1. DuenioDe(f) = q /\ FilaDe(f) = cola[f]
      BY <2>1, MapaEnUso
    <3>2. DuenioDe(f)' = q /\ FilaDe(f)' = cola'[f]
      BY <1>1, <2>1 DEF EnUso, DuenioDe, FilaDe, Pasada
    <3> QED BY <1>2, <3>1, <3>2, NadieAssumption
  <2>2. CASE EnEntrega(f)
    <3>1. DuenioDe(f) = Head(cola[f]) /\ FilaDe(f) = Tail(cola[f])
      BY <2>2, MapaEnEntrega
    <3>2. Head(cola[f]) \in Procesos
      BY <1>2, <2>2, HeadTailProperties DEF EnEntrega
    <3>3. cola'[f] # <<>> /\ semArchivo'[f] > 0
      BY <1>1, <1>2, <2>2, AppendProperties DEF EnEntrega
    <3>4. DuenioDe(f)' = Head(cola'[f]) /\ FilaDe(f)' = Tail(cola'[f])
      BY <3>3 DEF DuenioDe, FilaDe, Pasada
    <3>5. /\ Head(Append(cola[f], p)) = Head(cola[f])
          /\ Tail(Append(cola[f], p)) = Append(Tail(cola[f]), p)
      BY <1>2, <2>2, HeadTailAppend DEF EnEntrega
    <3> QED BY <1>2, <3>1, <3>2, <3>4, <3>5, NadieAssumption
  <2> QED BY <1>1, <2>1, <2>2 DEF Ordenado, Libre
<1>4. \A g \in Archivos \ {f} : DuenioDe(g)' = DuenioDe(g) /\ FilaDe(g)' = FilaDe(g)
  BY <1>1, MapaAjeno DEF TypeOK
<1> QED BY <1>3, <1>4 DEF Fila!Esperar

LEMMA TomarPaso ==
    ASSUME TypeOK, Conversacion, DueniosJustos, Cuidadosos, ArchivoAbierto
    PROVE  \E p \in Procesos, f \in Archivos : Fila!Tomar(p, f)
<1>1. PICK p \in Procesos, f \in Archivos : p = Head(deFs).pid /\ f = Head(deFs).arch
  BY Recibido DEF ArchivoAbierto, MensajesFs
<1>2. f \notin lista
  <2>1. 1 \in DOMAIN deFs /\ Head(deFs) = deFs[1]
    BY DelFrente DEF ArchivoAbierto, TypeOK
  <2>2. EsApertura(deFs[1])
    BY <2>1 DEF ArchivoAbierto, EsApertura
  <2> QED BY <1>1, <2>1, <2>2 DEF Conversacion, UnaApertura
<1>3. Libre(f)
  BY <1>2 DEF DueniosJustos, Ordenado, EnEntrega, EnUso
<1>4. /\ cola' = [cola EXCEPT ![f] = <<>>] /\ semArchivo' = [semArchivo EXCEPT ![f] = 0]
      /\ usa' = [usa EXCEPT ![f] = @ \union {p}]
  BY <1>1 DEF ArchivoAbierto
<1>5. DuenioDe(f) = Nadie /\ FilaDe(f) = <<>>
  BY <1>3, MapaLibre
<1>6. DuenioDe(f)' = p /\ FilaDe(f)' = <<>>
  <2>1. usa'[f] = {p} /\ semArchivo'[f] = 0 /\ cola'[f] = <<>>
    BY <1>3, <1>4 DEF Libre, TypeOK
  <2> QED BY <2>1 DEF DuenioDe, FilaDe, Pasada
<1>7. \A g \in Archivos \ {f} : DuenioDe(g)' = DuenioDe(g) /\ FilaDe(g)' = FilaDe(g)
  BY <1>4, MapaAjeno DEF TypeOK
<1>8. Fila!Tomar(p, f)
  BY <1>5, <1>6, <1>7 DEF Fila!Tomar
<1> QED BY <1>8

LEMMA IniciarPaso ==
    ASSUME TypeOK, DueniosJustos, Cuidadosos, NEW f \in Archivos, IniciarArchivo(f)
    PROVE  UNCHANGED Fila!vars
<1>1. EnEntrega(f)
  BY DEF DueniosJustos, Ordenado, Libre, EnUso, IniciarArchivo
<1>2. PICK p \in Procesos : p = Head(cola[f])
  BY <1>1, HeadTailProperties DEF EnEntrega, TypeOK
<1>3. /\ semArchivo' = [semArchivo EXCEPT ![f] = @ - 1]
      /\ cola' = [cola EXCEPT ![f] = Tail(@)]
      /\ usa' = [usa EXCEPT ![f] = @ \union {p}]
  BY <1>1, <1>2 DEF IniciarArchivo, EnEntrega
<1>4. usa'[f] = {p} /\ semArchivo'[f] = 0 /\ cola'[f] = Tail(cola[f])
  BY <1>1, <1>3 DEF EnEntrega, TypeOK
<1>5. DuenioDe(f)' = p /\ FilaDe(f)' = Tail(cola[f])
  BY <1>4 DEF DuenioDe, FilaDe, Pasada
<1>6. DuenioDe(f) = p /\ FilaDe(f) = Tail(cola[f])
  BY <1>1, <1>2, MapaEnEntrega
<1>7. \A g \in Archivos \ {f} : DuenioDe(g)' = DuenioDe(g) /\ FilaDe(g)' = FilaDe(g)
  BY <1>3, MapaAjeno DEF TypeOK
<1> QED BY <1>5, <1>6, <1>7 DEF Fila!vars

\* Among careful processes the kernel implements Turnos: whoever closes a file hands
\* it to the first that asked for it, whatever the threads, the CPU and the file
\* system do meanwhile.
THEOREM TurnosCorrectos == Spec => TurnosCumplidos
<1>1. Init => Fila!Init
  BY DEF Init, Fila!Init, DuenioDe, FilaDe, Pasada
<1>2. TypeOK /\ Conversacion /\ DueniosJustos /\ [Next]_vars
        => [Cuidadosos => Fila!Next]_(Fila!vars)
  <2> SUFFICES ASSUME TypeOK, Conversacion, DueniosJustos, [Next]_vars, Cuidadosos
               PROVE  Fila!Next \/ UNCHANGED Fila!vars
    OBVIOUS
  <2>1. CASE UNCHANGED vars \/ Ajena
    <3>1. UNCHANGED <<tablas, usa>>
      BY <2>1, AjenaNoToca DEF vars, historia
    <3> QED BY <3>1 DEF tablas, Fila!vars, DuenioDe, FilaDe, Pasada
  <2>2. CASE ArchivoAbierto
    BY <2>2, TomarPaso DEF Fila!Next
  <2>3. ASSUME NEW p \in Procesos, NEW f \in Archivos, AbrirContenido(p, f) \/ Cerrar(p, f)
        PROVE  Fila!Next
    BY <2>3, EsperarPaso, SoltarPaso DEF Fila!Next
  <2>4. ASSUME NEW f \in Archivos, IniciarArchivo(f) PROVE UNCHANGED Fila!vars
    BY <2>4, IniciarPaso
  <2>5. ~Desconectado
    BY DEF Desconectado, DueniosJustos
  <2> QED BY <2>1, <2>2, <2>3, <2>4, <2>5, Casos
<1> QED BY <1>1, <1>2, Invariante, PTL DEF Spec, TurnosCumplidos

-----------------------------------------------------------------------------
(* Where each process is.                                                      *)

Elementos(s) == {s[i] : i \in DOMAIN s}

LEMMA ElementosMas ==
    ASSUME NEW S, NEW s \in Seq(S), NEW m
    PROVE  Elementos(Append(s, m)) = Elementos(s) \union {m}
<1>1. /\ DOMAIN Append(s, m) = 1 .. Len(s) + 1 /\ DOMAIN s = 1 .. Len(s)
      /\ \A i \in DOMAIN s : Append(s, m)[i] = s[i]
      /\ Append(s, m)[Len(s) + 1] = m
      /\ Len(s) \in Nat
  BY AlFinal
<1> QED BY <1>1 DEF Elementos

LEMMA ElementosMenos ==
    ASSUME NEW S, NEW s \in Seq(S), s # <<>>
    PROVE  Elementos(s) = {Head(s)} \union Elementos(Tail(s))
<1>1. /\ DOMAIN Tail(s) = 1 .. Len(s) - 1 /\ DOMAIN s = 1 .. Len(s)
      /\ \A i \in DOMAIN Tail(s) : Tail(s)[i] = s[i + 1]
      /\ Len(s) \in Nat \ {0} /\ Head(s) = s[1]
  BY DelFrente
<1>2. ASSUME NEW i \in DOMAIN s PROVE s[i] \in {Head(s)} \union Elementos(Tail(s))
  <2>1. CASE i = 1
    BY <1>1, <2>1
  <2>2. CASE i # 1
    <3>1. i - 1 \in DOMAIN Tail(s) /\ Tail(s)[i - 1] = s[i]
      BY <1>1, <2>2
    <3> QED BY <3>1 DEF Elementos
  <2> QED BY <2>1, <2>2
<1>3. ASSUME NEW i \in DOMAIN Tail(s) PROVE Tail(s)[i] \in Elementos(s)
  BY <1>1 DEF Elementos
<1>4. Head(s) \in Elementos(s)
  BY <1>1 DEF Elementos
<1> QED BY <1>2, <1>3, <1>4 DEF Elementos

\* Besides READY: on the CPU, in the queue of a file, in a transfer.
Viajan == Elementos(aFs) \union Elementos(deFs)
EnCpu == {p \in Procesos : cpu.pid = p}
EnFila == {p \in Procesos : \E f \in Archivos : p \in Elementos(cola[f])}
EnViaje == {p \in Procesos : \E m \in Viajan : EsTransferencia(m) /\ m.pid = p}

Aparte ==
    /\ listos \intersect (EnCpu \union EnFila \union EnViaje) = {}
    /\ EnCpu \intersect (EnFila \union EnViaje) = {}
    /\ EnFila \intersect EnViaje = {}
SinRepetidos ==
    \A f, g \in Archivos : \A i \in DOMAIN cola[f], j \in DOMAIN cola[g] :
        cola[f][i] = cola[g][j] => f = g /\ i = j
\* The CPU waits for the opening of its own process.
AbreElQueEspera == \A m \in Viajan : EsApertura(m) => m.pid = cpu.pid

\* A process is in one place at a time, the careless ones too.
Lugares == Aparte /\ SinRepetidos /\ AbreElQueEspera

LEMMA CpuDe ==
    ASSUME NEW p \in Procesos
    PROVE  /\ cpu = Corre(p) => EnCpu = {p}
           /\ cpu = CpuOciosa => EnCpu = {}
           /\ cpu' = Corre(p) \/ cpu' = Espera(p) => EnCpu' = {p}
           /\ cpu' = CpuOciosa => EnCpu' = {}
BY NadieAssumption DEF EnCpu, Corre, Espera, CpuOciosa

\* What the contents of queues and connections say of the places.
LEMMA Quietas ==
    /\ UNCHANGED cola => EnFila' = EnFila /\ (SinRepetidos => SinRepetidos')
    /\ UNCHANGED <<aFs, deFs>> => Viajan' = Viajan /\ EnViaje' = EnViaje
    /\ UNCHANGED cpu => EnCpu' = EnCpu
BY DEF EnFila, SinRepetidos, Viajan, EnViaje, EnCpu, Elementos

\* A step that takes one process from one place to another.
LEMMA MueveUno ==
    ASSUME Aparte, NEW p \in Procesos,
           listos' \subseteq listos \union {p}, EnCpu' \subseteq EnCpu \union {p},
           EnFila' \subseteq EnFila \union {p}, EnViaje' \subseteq EnViaje \union {p},
           p \in listos' => p \notin EnCpu' \union EnFila' \union EnViaje',
           p \in EnCpu' => p \notin EnFila' \union EnViaje',
           p \in EnFila' => p \notin EnViaje'
    PROVE  Aparte'
BY DEF Aparte

LEMMA MueveNadie ==
    ASSUME Aparte, listos' \subseteq listos, EnCpu' \subseteq EnCpu, EnFila' \subseteq EnFila,
           EnViaje' \subseteq EnViaje
    PROVE  Aparte'
BY DEF Aparte

\* The processes that the CPU runs and whose instructions touch no connection.
LEMMA LugaresCpu ==
    ASSUME TypeOK, Lugares, UnaApertura, NEW p \in Procesos,
           \/ Despachar(p) \/ Ceder(p) \/ Terminar(p)
           \/ \E f \in Archivos : Cerrar(p, f) \/ \E pos \in Posiciones : Buscar(p, f, pos)
    PROVE  Lugares'
<1>1. UNCHANGED <<aFs, deFs, cola>>
  BY DEF Despachar, Ceder, Terminar, Cerrar, Buscar, tablas, canalFs, Instruccion
<1>2. cpu.estado # "esperando"
  BY DEF Despachar, Ceder, Terminar, Cerrar, Buscar, Instruccion, Corre, CpuOciosa
<1>3. EnFila' = EnFila /\ Viajan' = Viajan /\ EnViaje' = EnViaje /\ SinRepetidos'
  BY <1>1, Quietas DEF Lugares
<1>4. \A m \in Viajan : ~EsApertura(m)
  BY <1>2 DEF UnaApertura, Viajan, Elementos
<1>5. AbreElQueEspera'
  <2>1. \A m \in Viajan' : ~EsApertura(m)
    BY <1>3, <1>4
  <2> QED BY <2>1 DEF AbreElQueEspera, EsApertura
<1>6. Aparte'
  <2>1. CASE Despachar(p)
    <3>1. p \in listos /\ listos' = listos \ {p} /\ EnCpu' = {p} /\ EnCpu = {}
      BY <2>1, CpuDe DEF Despachar
    <3> QED BY <1>3, <3>1, MueveUno DEF Lugares, Aparte
  <2>2. CASE Ceder(p)
    <3>1. listos' = listos \union {p} /\ EnCpu' = {} /\ EnCpu = {p}
      BY <2>2, CpuDe DEF Ceder, Instruccion
    <3> QED BY <1>3, <3>1, MueveUno DEF Lugares, Aparte
  <2>3. CASE Terminar(p)
    <3>1. listos' = listos /\ EnCpu' = {}
      BY <2>3, CpuDe DEF Terminar
    <3> QED BY <1>3, <3>1, MueveNadie DEF Lugares
  <2>4. CASE UNCHANGED <<listos, cpu>>
    BY <1>3, <2>4, Quietas, MueveNadie DEF Lugares
  <2> QED BY <2>1, <2>2, <2>3, <2>4 DEF Cerrar, Buscar
<1> QED BY <1>3, <1>5, <1>6 DEF Lugares

\* F_OPEN of a file of the table: from the CPU to its queue.
LEMMA LugaresEspera ==
    ASSUME TypeOK, Lugares, UnaApertura, NEW p \in Procesos, NEW f \in Archivos,
           AbrirContenido(p, f)
    PROVE  Lugares'
<1>1. /\ cola' = [cola EXCEPT ![f] = Append(@, p)] /\ UNCHANGED <<aFs, deFs, listos>>
      /\ EnCpu = {p} /\ EnCpu' = {} /\ cpu.estado # "esperando"
  BY CpuDe DEF AbrirContenido, Encolar, Instruccion, Corre
<1>2. Viajan' = Viajan /\ EnViaje' = EnViaje
  BY <1>1, Quietas
<1>3. /\ \A g \in Archivos \ {f} : cola'[g] = cola[g]
      /\ cola'[f] = Append(cola[f], p) /\ cola[f] \in Seq(Procesos)
  BY <1>1 DEF TypeOK
<1>4. EnFila' = EnFila \union {p}
  <2>1. Elementos(cola'[f]) = Elementos(cola[f]) \union {p}
    BY <1>3, ElementosMas
  <2> QED BY <1>3, <2>1 DEF EnFila
<1>5. p \notin EnFila /\ p \notin EnViaje /\ p \notin listos
  BY <1>1 DEF Lugares, Aparte
<1>6. Aparte'
  BY <1>1, <1>2, <1>4, <1>5, MueveUno DEF Lugares
<1>7. SinRepetidos'
  <2>1. /\ DOMAIN cola'[f] = 1 .. Len(cola[f]) + 1 /\ DOMAIN cola[f] = 1 .. Len(cola[f])
        /\ \A i \in DOMAIN cola[f] : cola'[f][i] = cola[f][i]
        /\ cola'[f][Len(cola[f]) + 1] = p /\ Len(cola[f]) \in Nat
    BY <1>3, AlFinal
  <2>2. \A g \in Archivos : \A i \in DOMAIN cola[g] : cola[g][i] # p
    BY <1>5 DEF EnFila, Elementos
  <2>3. ASSUME NEW g \in Archivos, NEW i \in DOMAIN cola'[g]
        PROVE  \/ i \in DOMAIN cola[g] /\ cola'[g][i] = cola[g][i] /\ cola[g][i] # p
               \/ g = f /\ i = Len(cola[f]) + 1 /\ cola'[g][i] = p
    BY <1>3, <2>1, <2>2
  <2>4. SinRepetidos
    BY DEF Lugares
  <2> QED BY <2>3, <2>4 DEF SinRepetidos
<1>8. AbreElQueEspera'
  <2>1. \A m \in Viajan' : ~EsApertura(m)
    BY <1>1, <1>2 DEF UnaApertura, Viajan, Elementos
  <2> QED BY <2>1 DEF AbreElQueEspera, EsApertura
<1> QED BY <1>6, <1>7, <1>8 DEF Lugares

\* A request of the process on the CPU: it stays there, or leaves with it.
LEMMA LugaresPide ==
    ASSUME TypeOK, Lugares, UnaApertura, NEW p \in Procesos, NEW f \in Archivos,
           AbrirOtro(p, f) \/ Transferir(p, f)
    PROVE  Lugares'
<1>1. /\ UNCHANGED <<deFs, listos, cola>> /\ EnCpu = {p} /\ cpu.estado # "esperando"
  BY CpuDe DEF AbrirOtro, Transferir, Instruccion, Corre, tablas
<1>2. EnFila' = EnFila /\ SinRepetidos'
  BY <1>1, Quietas DEF Lugares
<1>3. \A m \in Viajan : ~EsApertura(m)
  BY <1>1 DEF UnaApertura, Viajan, Elementos
<1>4. PICK m : /\ aFs' = Append(aFs, m) /\ m.pid = p
               /\ \/ EsApertura(m) /\ ~EsTransferencia(m) /\ cpu' = Espera(p)
                  \/ ~EsApertura(m) /\ EsTransferencia(m) /\ cpu' = CpuOciosa
  <2>1. CASE AbrirOtro(p, f)
    BY <2>1 DEF AbrirOtro, Pedido, Mensaje, EsApertura, EsTransferencia
  <2>2. ASSUME NEW pos, aFs' = Append(aFs, Mensaje("LEER_ARCHIVO", p, f, pos)),
               cpu' = CpuOciosa
        PROVE  \E m : /\ aFs' = Append(aFs, m) /\ m.pid = p
                      /\ ~EsApertura(m) /\ EsTransferencia(m)
    <3> DEFINE m == Mensaje("LEER_ARCHIVO", p, f, pos)
    <3>1. m.pid = p /\ ~EsApertura(m) /\ EsTransferencia(m)
      BY DEF Mensaje, EsApertura, EsTransferencia
    <3> HIDE DEF m
    <3>2. aFs' = Append(aFs, m)
      BY <2>2 DEF m
    <3> QED BY <3>1, <3>2
  <2> QED BY <2>1, <2>2 DEF Transferir
<1>5. Viajan' = Viajan \union {m}
  <2>1. Elementos(aFs') = Elementos(aFs) \union {m}
    BY <1>4, ElementosMas DEF TypeOK
  <2> QED BY <1>1, <2>1 DEF Viajan
<1>6. p \notin listos \union EnFila \union EnViaje
  BY <1>1 DEF Lugares, Aparte
<1>7. CASE EsApertura(m)
  <2>1. EnViaje' = EnViaje /\ EnCpu' = {p} /\ cpu'.pid = p
    BY <1>4, <1>5, <1>7, CpuDe DEF EnViaje, EsTransferencia, EsApertura, Espera
  <2>2. AbreElQueEspera'
    BY <1>3, <1>4, <1>5, <2>1 DEF AbreElQueEspera, EsApertura
  <2> QED BY <1>1, <1>2, <2>1, <2>2, MueveNadie DEF Lugares
<1>8. CASE EsTransferencia(m)
  <2>1. EnViaje' \subseteq EnViaje \union {p} /\ EnCpu' = {}
    BY <1>4, <1>5, <1>8, CpuDe DEF EnViaje, EsTransferencia, EsApertura
  <2>2. AbreElQueEspera'
    BY <1>3, <1>4, <1>5, <1>8 DEF AbreElQueEspera, EsApertura, EsTransferencia
  <2>3. Aparte'
    BY <1>1, <1>2, <1>6, <2>1, MueveUno DEF Lugares
  <2> QED BY <1>2, <2>2, <2>3 DEF Lugares
<1> QED BY <1>4, <1>7, <1>8

\* The thread of a file: the first of the queue goes to READY.
LEMMA LugaresIniciar ==
    ASSUME TypeOK, Lugares, NEW f \in Archivos, IniciarArchivo(f)
    PROVE  Lugares'
<1>1. UNCHANGED <<aFs, deFs, cpu>>
  BY DEF IniciarArchivo, canalFs
<1>2. EnCpu' = EnCpu /\ Viajan' = Viajan /\ EnViaje' = EnViaje
  BY <1>1, Quietas
<1>3. AbreElQueEspera'
  BY <1>1, <1>2 DEF Lugares, AbreElQueEspera, EsApertura
<1>4. CASE cola[f] = <<>>
  <2>1. UNCHANGED <<cola, listos>>
    BY <1>4 DEF IniciarArchivo
  <2> QED BY <1>2, <1>3, <2>1, Quietas, MueveNadie DEF Lugares
<1>5. CASE cola[f] # <<>>
  <2> DEFINE p == Head(cola[f])
  <2>1. /\ cola' = [cola EXCEPT ![f] = Tail(@)] /\ listos' = listos \union {p}
    BY <1>5 DEF IniciarArchivo
  <2>2. /\ \A g \in Archivos \ {f} : cola'[g] = cola[g]
        /\ cola'[f] = Tail(cola[f]) /\ cola[f] \in Seq(Procesos)
    BY <2>1 DEF TypeOK
  <2>3. /\ DOMAIN cola'[f] = 1 .. Len(cola[f]) - 1 /\ DOMAIN cola[f] = 1 .. Len(cola[f])
        /\ \A i \in DOMAIN cola'[f] : cola'[f][i] = cola[f][i + 1]
        /\ Len(cola[f]) \in Nat \ {0} /\ p = cola[f][1]
    BY <1>5, <2>2, DelFrente
  <2>4. p \in Procesos
    BY <1>5, <2>2, HeadTailProperties
  <2> HIDE DEF p
  <2>5. Elementos(cola'[f]) \subseteq Elementos(cola[f])
    BY <1>5, <2>2, ElementosMenos
  <2>6. EnFila' \subseteq EnFila /\ p \in EnFila
    <3>1. \A g \in Archivos : Elementos(cola'[g]) \subseteq Elementos(cola[g])
      BY <2>2, <2>5
    <3>2. p \in Elementos(cola[f])
      BY <2>3 DEF Elementos
    <3> QED BY <2>4, <3>1, <3>2 DEF EnFila
  <2>7. p \notin EnFila'
    <3>1. SinRepetidos
      BY DEF Lugares
    <3>2. \A i \in DOMAIN cola'[f] : cola'[f][i] # p
      BY <2>3, <3>1 DEF SinRepetidos
    <3>3. \A g \in Archivos \ {f} : \A i \in DOMAIN cola'[g] : cola'[g][i] # p
      BY <2>2, <2>3, <3>1 DEF SinRepetidos
    <3> QED BY <3>2, <3>3 DEF EnFila, Elementos
  <2>8. p \notin EnCpu \union EnViaje
    BY <2>6 DEF Lugares, Aparte
  <2>9. Aparte'
    BY <1>2, <2>1, <2>4, <2>6, <2>7, <2>8, MueveUno DEF Lugares
  <2>10. SinRepetidos'
    <3>1. SinRepetidos
      BY DEF Lugares
    <3>2. ASSUME NEW g \in Archivos, NEW i \in DOMAIN cola'[g]
          PROVE  \/ g # f /\ i \in DOMAIN cola[g] /\ cola'[g][i] = cola[g][i]
                 \/ g = f /\ i \in Nat /\ i + 1 \in DOMAIN cola[g]
                          /\ cola'[g][i] = cola[g][i + 1]
      <4>1. CASE g = f
        <5>1. i \in 1 .. Len(cola[f]) - 1
          BY <2>3, <3>2, <4>1
        <5> QED BY <2>3, <4>1, <5>1
      <4>2. CASE g # f
        BY <2>2, <3>2, <4>2
      <4> QED BY <4>1, <4>2
    <3> QED BY <3>1, <3>2 DEF SinRepetidos
  <2> QED BY <1>3, <2>9, <2>10 DEF Lugares
<1> QED BY <1>4, <1>5

\* The file system answers for the process that asked.
LEMMA LugaresFileSystem == TypeOK /\ Lugares /\ FileSystem => Lugares'
<1> SUFFICES ASSUME TypeOK, Lugares, FileSystem PROVE Lugares'
  OBVIOUS
<1>1. UNCHANGED <<cola, listos, cpu>>
  BY DEF FileSystem, tablas
<1> DEFINE m == Head(aFs)
<1>2. m \in MensajesFs(Ops) /\ aFs # <<>>
  BY HeadTailProperties DEF TypeOK, FileSystem
<1>3. CASE LeeSinBloques(m.pid)
  <2>1. Elementos(aFs') \subseteq Elementos(aFs) /\ deFs' = deFs
    BY <1>2, <1>3, ElementosMenos DEF TypeOK, LeeSinBloques
  <2>2. EnViaje' \subseteq EnViaje
    BY <2>1 DEF EnViaje, Viajan, EsTransferencia
  <2>3. AbreElQueEspera'
    BY <1>1, <2>1 DEF Lugares, AbreElQueEspera, Viajan, EsApertura
  <2> QED BY <1>1, <2>2, <2>3, Quietas, MueveNadie DEF Lugares
<1>4. ASSUME NEW op \in OpsRespuesta, RespondeComo(op) PROVE Lugares'
  <2> DEFINE n == [m EXCEPT !.op = op]
  <2>1. /\ n.pid = m.pid
        /\ EsTransferencia(n) <=> EsTransferencia(m)
        /\ EsApertura(n) <=> EsApertura(m)
    BY <1>2, <1>4 DEF RespondeComo, MensajesFs, EsTransferencia, EsApertura, OpsRespuesta
  <2>2. /\ Elementos(aFs) = {m} \union Elementos(aFs')
        /\ Elementos(deFs') = Elementos(deFs) \union {n}
    BY <1>2, <1>4, ElementosMas, ElementosMenos DEF TypeOK, RespondeComo, Contesta
  <2> HIDE DEF m, n
  <2>3. EnViaje' \subseteq EnViaje
    BY <2>1, <2>2 DEF EnViaje, Viajan, EsTransferencia
  <2>4. AbreElQueEspera'
    BY <1>1, <2>1, <2>2 DEF Lugares, AbreElQueEspera, Viajan, EsApertura
  <2> QED BY <1>1, <2>3, <2>4, Quietas, MueveNadie DEF Lugares
<1> QED BY <1>3, <1>4, RespondeOMuere

\* atender_fileSystem: the CPU goes on with the process that asked, or the one
\* whose transfer ends goes to READY.
LEMMA LugaresAtender == TypeOK /\ Conversacion /\ Lugares /\ AtenderFileSystem => Lugares'
<1> SUFFICES ASSUME TypeOK, Conversacion, Lugares, AtenderFileSystem PROVE Lugares'
  OBVIOUS
<1>8. CASE Desconectado
  <2>1. UNCHANGED <<cola, listos, cpu, aFs, deFs>>
    BY <1>8 DEF Desconectado, tablas, canalFs
  <2>2. AbreElQueEspera'
    BY <2>1, Quietas DEF Lugares, AbreElQueEspera, EsApertura
  <2> QED BY <2>1, <2>2, Quietas, MueveNadie DEF Lugares
<1>9. SUFFICES ASSUME ~Desconectado PROVE Lugares'
  BY <1>8
<1> DEFINE m == Head(deFs)
<1>1. /\ deFs # <<>> /\ deFs' = Tail(deFs) /\ m \in MensajesFs(OpsRespuesta)
      /\ m.pid \in Procesos
  BY <1>9, Recibido
     DEF AtenderFileSystem, ArchivoAbierto, CrearArchivo, Desbloqueado, MensajesFs
<1>2. /\ DOMAIN deFs' = 1 .. Len(deFs) - 1 /\ DOMAIN deFs = 1 .. Len(deFs)
      /\ \A i \in DOMAIN deFs' : deFs'[i] = deFs[i + 1]
      /\ Len(deFs) \in Nat \ {0} /\ m = deFs[1]
  BY <1>1, DelFrente DEF TypeOK
<1>3. Elementos(deFs) = {m} \union Elementos(deFs')
  BY <1>1, ElementosMenos DEF TypeOK
<1>4. m \in Viajan
  BY <1>3 DEF Viajan
<1> HIDE DEF m
<1>5. CASE ArchivoAbierto
  <2>1. /\ EsApertura(m) /\ UNCHANGED <<listos, aFs>> /\ cpu' = Corre(m.pid)
        /\ cola' = [cola EXCEPT ![m.arch] = <<>>]
    BY <1>5 DEF ArchivoAbierto, EsApertura, m
  <2>2. cpu.pid = m.pid
    BY <1>4, <2>1 DEF Lugares, AbreElQueEspera
  <2>3. EnCpu' = EnCpu
    BY <1>1, <2>1, <2>2, CpuDe DEF EnCpu, Corre
  <2>4. EnViaje' \subseteq EnViaje
    BY <1>3, <2>1 DEF EnViaje, Viajan, EsTransferencia
  <2>5. \A g \in Archivos : cola'[g] = cola[g] \/ DOMAIN cola'[g] = {}
    <3>1. DOMAIN <<>> = {}
      OBVIOUS
    <3> QED BY <2>1, <3>1 DEF TypeOK
  <2>6. EnFila' \subseteq EnFila
    BY <2>5 DEF EnFila, Elementos
  <2>7. SinRepetidos'
    BY <2>5 DEF Lugares, SinRepetidos
  <2>8. AbreElQueEspera'
    BY <1>3, <2>1, <2>2 DEF Lugares, AbreElQueEspera, Viajan, EsApertura, Corre
  <2> QED BY <2>1, <2>3, <2>4, <2>6, <2>7, <2>8, MueveNadie DEF Lugares
<1>6. CASE CrearArchivo
  <2>1. aFs' = Append(aFs, m) /\ UNCHANGED <<cola, listos, cpu>>
    BY <1>6 DEF CrearArchivo, tablas, m
  <2>2. Viajan' = Viajan
    <3>1. Elementos(aFs') = Elementos(aFs) \union {m}
      BY <2>1, ElementosMas DEF TypeOK
    <3> QED BY <1>3, <3>1 DEF Viajan
  <2>3. EnViaje' = EnViaje /\ AbreElQueEspera'
    BY <2>1, <2>2 DEF EnViaje, Lugares, AbreElQueEspera, EsApertura, EsTransferencia
  <2> QED BY <2>1, <2>3, Quietas, MueveNadie DEF Lugares
<1>7. CASE Desbloqueado
  <2>1. /\ EsTransferencia(m) /\ UNCHANGED <<cola, aFs, cpu>>
        /\ listos' = listos \union {m.pid}
    BY <1>7 DEF Desbloqueado, EsTransferencia, tablas, m
  <2>2. EnFila' = EnFila /\ EnCpu' = EnCpu /\ SinRepetidos'
    BY <2>1, Quietas DEF Lugares
  <2>3. m.pid \in EnViaje
    BY <1>1, <1>4, <2>1 DEF EnViaje
  <2>4. EnViaje' = {}
    <3>1. \A i \in DOMAIN aFs : ~EsTransferencia(aFs[i])
      BY <1>2, <2>1 DEF Conversacion, UnaTransferencia
    <3>2. \A i \in DOMAIN deFs' : ~EsTransferencia(deFs'[i])
      BY <1>2, <2>1 DEF Conversacion, UnaTransferencia
    <3>3. \A x \in Viajan' : ~EsTransferencia(x)
      BY <2>1, <3>1, <3>2 DEF Viajan, Elementos
    <3> QED BY <3>3 DEF EnViaje, EsTransferencia
  <2>5. m.pid \notin EnFila \union EnCpu
    BY <2>3 DEF Lugares, Aparte
  <2>6. Aparte'
    BY <1>1, <2>1, <2>2, <2>4, <2>5, MueveUno DEF Lugares
  <2>7. AbreElQueEspera'
    BY <1>3, <2>1 DEF Lugares, AbreElQueEspera, Viajan, EsApertura
  <2> QED BY <2>2, <2>6, <2>7 DEF Lugares
<1> QED BY <1>5, <1>6, <1>7, <1>9 DEF AtenderFileSystem

LEMMA LugaresPaso == TypeOK /\ Conversacion /\ Lugares /\ [Next]_vars => Lugares'
<1> SUFFICES ASSUME TypeOK, Conversacion, Lugares, [Next]_vars PROVE Lugares'
  OBVIOUS
<1>0. UnaApertura /\ \A p \in Procesos : Nombra[p] \subseteq Archivos
  BY NombraAssumption DEF Conversacion
<1>1. CASE Cpu
  BY <1>0, <1>1, LugaresCpu, LugaresEspera, LugaresPide DEF Cpu, Abrir
<1>2. CASE FileSystem \/ AtenderFileSystem
  BY <1>2, LugaresFileSystem, LugaresAtender
<1>3. ASSUME NEW f \in Archivos, IniciarArchivo(f) PROVE Lugares'
  BY <1>3, LugaresIniciar
<1>4. CASE UNCHANGED vars
  <2>1. UNCHANGED <<cola, listos, cpu, aFs, deFs>>
    BY <1>4 DEF vars, tablas, canalFs
  <2>2. AbreElQueEspera'
    BY <2>1, Quietas DEF Lugares, AbreElQueEspera, EsApertura
  <2> QED BY <2>1, <2>2, Quietas, MueveNadie DEF Lugares
<1> QED BY <1>1, <1>2, <1>3, <1>4 DEF Next

-----------------------------------------------------------------------------
(* The pointers that the PCBs keep.                                            *)

\* The first entry for a file, where F_SEEK writes and transfers read.
Primeras ==
    \A p \in Procesos, f \in Archivos :
        /\ Entradas(p, f) \subseteq 1 .. Len(archivosAbiertos[p])
        /\ Entradas(p, f) # {} =>
              /\ Primera(p, f) \in Entradas(p, f)
              /\ \A j \in Entradas(p, f) : Primera(p, f) <= j

LEMMA PrimerasSon == TypeOK => Primeras
<1> SUFFICES ASSUME TypeOK, NEW p \in Procesos, NEW f \in Archivos
             PROVE  /\ Entradas(p, f) \subseteq 1 .. Len(archivosAbiertos[p])
                    /\ Entradas(p, f) # {} =>
                          /\ Primera(p, f) \in Entradas(p, f)
                          /\ \A j \in Entradas(p, f) : Primera(p, f) <= j
  BY DEF Primeras
<1>1. archivosAbiertos[p] \in Seq([dir : Archivos, punt : Posibles])
  BY DEF TypeOK
<1>2. Entradas(p, f) \subseteq 1 .. Len(archivosAbiertos[p]) /\ Len(archivosAbiertos[p]) \in Nat
  BY <1>1, LenProperties DEF Entradas
<1>3. ASSUME Entradas(p, f) # {}
      PROVE  \E i \in Entradas(p, f) : \A j \in Entradas(p, f) : i <= j
  BY <1>2, <1>3, Minimo
<1> QED BY <1>2, <1>3 DEF Primera

\* The first entry is where the program is, unless it opened the file again.
PunteroJusto(p, f) ==
    Entradas(p, f) # {} =>
        \/ archivosAbiertos[p][Primera(p, f)].punt = esperado[p][f]
        \/ esperado[p][f] = 0 /\ Cardinality(Entradas(p, f)) > 1

\* Whoever has a file, or waits for it, has an entry for it.
ConEntrada(p, f) == p \in usa[f] \union Elementos(cola[f]) => Entradas(p, f) # {}

Punteros == \A p \in Procesos, f \in Archivos : PunteroJusto(p, f) /\ ConEntrada(p, f)

\* What a step that changes neither the entries of p for f nor its position
\* there leaves as it was.
LEMMA PunteroAjeno ==
    ASSUME Primeras, Primeras', NEW p \in Procesos, NEW f \in Archivos, PunteroJusto(p, f),
           Entradas(p, f)' = Entradas(p, f), esperado'[p][f] = esperado[p][f],
           \A i \in Entradas(p, f) : archivosAbiertos'[p][i] = archivosAbiertos[p][i]
    PROVE  PunteroJusto(p, f)'
<1> SUFFICES ASSUME Entradas(p, f)' # {}
             PROVE  \/ archivosAbiertos'[p][Primera(p, f)'].punt = esperado'[p][f]
                    \/ esperado'[p][f] = 0 /\ Cardinality(Entradas(p, f)') > 1
  BY DEF PunteroJusto
<1>1. Primera(p, f)' = Primera(p, f) /\ Primera(p, f) \in Entradas(p, f)
  <2>1. /\ Primera(p, f)' \in Entradas(p, f) /\ Primera(p, f) \in Entradas(p, f)
        /\ \A j \in Entradas(p, f) : Primera(p, f)' <= j /\ Primera(p, f) <= j
        /\ Entradas(p, f) \subseteq Int
    BY DEF Primeras
  <2> QED BY <2>1
<1> QED BY <1>1 DEF PunteroJusto

LEMMA Dos ==
    ASSUME NEW a, NEW b, a # b
    PROVE  Cardinality({a, b}) = 2
<1> DEFINE S == {a}
<1>1. IsFiniteSet(S) /\ Cardinality(S) = 1 /\ b \notin S
  BY FS_Singleton
<1>2. {a, b} = S \union {b}
  OBVIOUS
<1> HIDE DEF S
<1>3. Cardinality(S \union {b}) = Cardinality(S) + 1
  BY <1>1, FS_AddElement
<1> QED BY <1>1, <1>2, <1>3

\* F_OPEN: a first entry starts at zero, and another one is not looked at.
LEMMA PunteroNuevo ==
    ASSUME TypeOK, Primeras, Primeras', NEW p \in Procesos, NEW f \in Archivos,
           AgregarEntrada(p, f), \A q \in Procesos, g \in Archivos : PunteroJusto(q, g)
    PROVE  /\ Entradas(p, f)' # {}
           /\ \A q \in Procesos, g \in Archivos :
                 /\ PunteroJusto(q, g)'
                 /\ Entradas(q, g) \subseteq Entradas(q, g)'
<1> DEFINE s == archivosAbiertos[p]
           e == [dir |-> f, punt |-> 0]
<1>1. /\ \A q \in Procesos \ {p} : archivosAbiertos'[q] = archivosAbiertos[q]
      /\ archivosAbiertos'[p] = Append(s, e)
  BY DEF AgregarEntrada, TypeOK
<1>2. /\ DOMAIN archivosAbiertos'[p] = 1 .. Len(s) + 1 /\ DOMAIN s = 1 .. Len(s)
      /\ \A i \in DOMAIN s : archivosAbiertos'[p][i] = s[i]
      /\ archivosAbiertos'[p][Len(s) + 1] = e
      /\ Len(s) \in Nat
  <2>1. s \in Seq([dir : Archivos, punt : Posibles])
    BY DEF TypeOK
  <2> QED BY <1>1, <2>1, AlFinal
<1>3. /\ esperado'[p][f] = 0
      /\ \A q \in Procesos, g \in Archivos :
            q # p \/ g # f => esperado'[q][g] = esperado[q][g]
  BY DEF AgregarEntrada, TypeOK
<1>4. ASSUME NEW g \in Archivos
      PROVE  Entradas(p, g)' = Entradas(p, g) \union (IF g = f THEN {Len(s) + 1} ELSE {})
  BY <1>2 DEF Entradas
<1>5. ASSUME NEW q \in Procesos, NEW g \in Archivos, q # p \/ g # f
      PROVE  PunteroJusto(q, g)' /\ Entradas(q, g) \subseteq Entradas(q, g)'
  <2>1. Entradas(q, g)' = Entradas(q, g)
    BY <1>1, <1>4, <1>5 DEF Entradas
  <2>2. \A i \in Entradas(q, g) : archivosAbiertos'[q][i] = archivosAbiertos[q][i]
    BY <1>1, <1>2 DEF Entradas
  <2> QED BY <1>3, <1>5, <2>1, <2>2, PunteroAjeno
<1>6. Entradas(p, f)' = Entradas(p, f) \union {Len(s) + 1}
  BY <1>4
<1>7. PunteroJusto(p, f)'
  <2>1. CASE Entradas(p, f) = {}
    <3>1. Primera(p, f)' = Len(s) + 1
      BY <1>6, <2>1 DEF Primeras
    <3> QED BY <1>2, <1>3, <3>1 DEF PunteroJusto
  <2>2. CASE Entradas(p, f) # {}
    <3>1. PICK i : i \in Entradas(p, f)
      BY <2>2
    <3>2. i # Len(s) + 1 /\ {i, Len(s) + 1} \subseteq Entradas(p, f)'
      BY <1>2, <1>6, <3>1 DEF Entradas
    <3>3. IsFiniteSet(Entradas(p, f)')
      <4>1. Entradas(p, f)' \subseteq 1 .. Len(s) + 1
        BY <1>2 DEF Entradas
      <4>2. IsFiniteSet(1 .. Len(s) + 1)
        BY <1>2, FS_Interval
      <4> QED BY <4>1, <4>2, FS_Subset
    <3>4. Cardinality({i, Len(s) + 1}) = 2
      BY <3>2, Dos
    <3>5. Cardinality(Entradas(p, f)') > 1
      BY <3>2, <3>3, <3>4, FS_Subset, FS_CardinalityType
    <3> QED BY <1>3, <3>5 DEF PunteroJusto
  <2> QED BY <2>1, <2>2
<1> QED BY <1>5, <1>6, <1>7

\* F_SEEK: the first entry follows the program.
LEMMA PunteroBuscar ==
    ASSUME TypeOK, Primeras, Primeras', NEW p \in Procesos, NEW f \in Archivos,
           NEW pos \in Posiciones, Buscar(p, f, pos), NEW q \in Procesos, NEW g \in Archivos,
           PunteroJusto(q, g)
    PROVE  PunteroJusto(q, g)' /\ Entradas(q, g)' = Entradas(q, g)
<1>1. /\ q # p \/ g # f => esperado'[q][g] = esperado[q][g]
      /\ esperado'[p][f] = pos
  BY DEF Buscar, TypeOK
<1>2. CASE Entradas(p, f) = {}
  <2>1. UNCHANGED archivosAbiertos
    BY <1>2 DEF Buscar
  <2>2. \A h \in Archivos : Entradas(q, h)' = Entradas(q, h)
    BY <2>1 DEF Entradas
  <2>3. CASE q = p /\ g = f
    BY <1>2, <2>2, <2>3 DEF PunteroJusto
  <2>4. CASE q # p \/ g # f
    BY <1>1, <2>1, <2>2, <2>4, PunteroAjeno
  <2> QED BY <2>2, <2>3, <2>4
<1>3. CASE Entradas(p, f) # {}
  <2> DEFINE k == Primera(p, f)
             s == archivosAbiertos[p]
  <2>0. k \in Entradas(p, f)
    BY <1>3 DEF Primeras
  <2>1. k \in 1 .. Len(s) /\ s \in Seq([dir : Archivos, punt : Posibles])
        /\ DOMAIN s = 1 .. Len(s) /\ s[k] \in [dir : Archivos, punt : Posibles]
    BY <1>3, PrimeraEntrada, LenProperties DEF TypeOK
  <2>2. archivosAbiertos' = [archivosAbiertos EXCEPT ![p][k].punt = pos]
    BY <1>3 DEF Buscar, Actualiza
  <2> HIDE DEF k
  <2>3. /\ \A r \in Procesos \ {p} : archivosAbiertos'[r] = archivosAbiertos[r]
        /\ DOMAIN archivosAbiertos'[p] = DOMAIN s
        /\ \A i \in DOMAIN s \ {k} : archivosAbiertos'[p][i] = s[i]
        /\ archivosAbiertos'[p][k] = [s[k] EXCEPT !.punt = pos]
    BY <2>1, <2>2 DEF TypeOK
  <2>4. archivosAbiertos'[p][k].dir = s[k].dir /\ archivosAbiertos'[p][k].punt = pos
    BY <2>1, <2>3
  <2>5. \A h \in Archivos : Entradas(q, h)' = Entradas(q, h)
    BY <2>1, <2>3, <2>4 DEF Entradas
  <2>6. CASE q = p /\ g = f
    <3>1. Primera(p, f)' = k
      <4>1. /\ Primera(p, f)' \in Entradas(p, f) /\ k \in Entradas(p, f)
            /\ \A j \in Entradas(p, f) : Primera(p, f)' <= j /\ k <= j
            /\ Entradas(p, f) \subseteq Int
        BY <1>3, <2>0, <2>5, <2>6 DEF Primeras, k
      <4> QED BY <4>1
    <3> QED BY <1>1, <2>4, <2>5, <2>6, <3>1 DEF PunteroJusto
  <2>7. CASE q # p \/ g # f
    <3>1. \A i \in Entradas(q, g) : archivosAbiertos'[q][i] = archivosAbiertos[q][i]
      <4>1. CASE q # p
        BY <2>3, <4>1
      <4>2. CASE q = p /\ g # f
        <5>1. k \notin Entradas(p, g)
          BY <2>0, <4>2 DEF Entradas
        <5> QED BY <2>3, <4>2, <5>1 DEF Entradas
      <4> QED BY <2>7, <4>1, <4>2
    <3> QED BY <1>1, <2>5, <2>7, <3>1, PunteroAjeno
  <2> QED BY <2>5, <2>6, <2>7
<1> QED BY <1>2, <1>3

\* Who gets a file was in its queue, or opens it now.
LEMMA PunterosPaso ==
    TypeOK /\ TypeOK' /\ Punteros /\ [Next]_vars => Punteros'
<1> SUFFICES ASSUME TypeOK, TypeOK', Punteros, [Next]_vars PROVE Punteros'
  OBVIOUS
<1>0. Primeras /\ Primeras'
  <2>1. Primeras'
    BY PrimerasSon, PTL
  <2> QED BY <2>1, PrimerasSon
<1>1. ASSUME UNCHANGED <<archivosAbiertos, esperado>>,
             \A p \in Procesos, f \in Archivos :
                 p \in usa'[f] \union Elementos(cola'[f])
                     => p \in usa[f] \union Elementos(cola[f])
      PROVE  Punteros'
  <2>1. \A p \in Procesos, f \in Archivos : Entradas(p, f)' = Entradas(p, f)
    BY <1>1 DEF Entradas
  <2>2. \A p \in Procesos, f \in Archivos : PunteroJusto(p, f)'
    BY <1>0, <1>1, <2>1, PunteroAjeno DEF Punteros
  <2>3. \A p \in Procesos, f \in Archivos : ConEntrada(p, f)'
    BY <1>1, <2>1 DEF Punteros, ConEntrada
  <2> QED BY <2>2, <2>3 DEF Punteros
<1>2. ASSUME NEW p \in Procesos, NEW f \in Archivos, AgregarEntrada(p, f),
             \A q \in Procesos, g \in Archivos :
                 q \in usa'[g] \union Elementos(cola'[g])
                     => <<q, g>> = <<p, f>> \/ q \in usa[g] \union Elementos(cola[g])
      PROVE  Punteros'
  <2>1. /\ Entradas(p, f)' # {}
        /\ \A q \in Procesos, g \in Archivos :
              PunteroJusto(q, g)' /\ Entradas(q, g) \subseteq Entradas(q, g)'
    BY <1>0, <1>2, PunteroNuevo DEF Punteros
  <2>2. \A q \in Procesos, g \in Archivos : ConEntrada(q, g)'
    BY <1>2, <2>1 DEF Punteros, ConEntrada
  <2> QED BY <2>1, <2>2 DEF Punteros
<1>3. CASE ArchivoAbierto
  <2>1. PICK p \in Procesos, f \in Archivos : p = Head(deFs).pid /\ f = Head(deFs).arch
    BY <1>3, Recibido DEF ArchivoAbierto, MensajesFs
  <2>2. /\ AgregarEntrada(p, f) /\ cola' = [cola EXCEPT ![f] = <<>>]
        /\ usa' = [usa EXCEPT ![f] = @ \union {p}]
    BY <1>3, <2>1 DEF ArchivoAbierto
  <2>3. Elementos(<<>>) = {}
    BY DEF Elementos
  <2>4. \A q \in Procesos, g \in Archivos :
            q \in usa'[g] \union Elementos(cola'[g])
                => <<q, g>> = <<p, f>> \/ q \in usa[g] \union Elementos(cola[g])
    BY <2>2, <2>3 DEF TypeOK
  <2> QED BY <1>2, <2>2, <2>4
<1>4. ASSUME NEW p \in Procesos, NEW f \in Archivos, AbrirContenido(p, f) PROVE Punteros'
  <2>1. /\ AgregarEntrada(p, f) /\ cola' = [cola EXCEPT ![f] = Append(@, p)] /\ usa' = usa
    BY <1>4 DEF AbrirContenido, Encolar
  <2>2. Elementos(Append(cola[f], p)) = Elementos(cola[f]) \union {p}
    BY ElementosMas DEF TypeOK
  <2>3. \A q \in Procesos, g \in Archivos :
            q \in usa'[g] \union Elementos(cola'[g])
                => <<q, g>> = <<p, f>> \/ q \in usa[g] \union Elementos(cola[g])
    BY <2>1, <2>2 DEF TypeOK
  <2> QED BY <1>2, <2>1, <2>3
<1>5. ASSUME NEW p \in Procesos, NEW f \in Archivos, NEW pos \in Posiciones, Buscar(p, f, pos)
      PROVE  Punteros'
  <2>1. UNCHANGED <<usa, cola>>
    BY <1>5 DEF Buscar, tablas
  <2>2. \A q \in Procesos, g \in Archivos :
            PunteroJusto(q, g)' /\ Entradas(q, g)' = Entradas(q, g)
    BY <1>0, <1>5, PunteroBuscar DEF Punteros
  <2> QED BY <2>1, <2>2 DEF Punteros, ConEntrada
<1>6. ASSUME NEW f \in Archivos, IniciarArchivo(f) PROVE Punteros'
  <2>1. CASE cola[f] = <<>>
    BY <1>1, <1>6, <2>1 DEF IniciarArchivo
  <2>2. CASE cola[f] # <<>>
    <3>1. /\ cola' = [cola EXCEPT ![f] = Tail(@)]
          /\ usa' = [usa EXCEPT ![f] = @ \union {Head(cola[f])}]
          /\ UNCHANGED <<archivosAbiertos, esperado>>
      BY <1>6, <2>2 DEF IniciarArchivo
    <3>2. Elementos(cola[f]) = {Head(cola[f])} \union Elementos(Tail(cola[f]))
      BY <2>2, ElementosMenos DEF TypeOK
    <3>3. \A q \in Procesos, g \in Archivos :
              q \in usa'[g] \union Elementos(cola'[g])
                  => q \in usa[g] \union Elementos(cola[g])
      BY <3>1, <3>2 DEF TypeOK
    <3> QED BY <1>1, <3>1, <3>3
  <2> QED BY <2>1, <2>2
<1>7. ASSUME NEW p \in Procesos, NEW f \in Archivos, Cerrar(p, f) PROVE Punteros'
  <2>1. UNCHANGED <<archivosAbiertos, esperado, cola>> /\ usa' = [usa EXCEPT ![f] = @ \ {p}]
    BY <1>7 DEF Cerrar
  <2>2. \A q \in Procesos, g \in Archivos :
            q \in usa'[g] \union Elementos(cola'[g]) => q \in usa[g] \union Elementos(cola[g])
    BY <2>1 DEF TypeOK
  <2> QED BY <1>1, <2>1, <2>2
<1>8. ASSUME Ajena, \A p \in Procesos, f \in Archivos : \A pos \in Posiciones :
                        ~Buscar(p, f, pos)
      PROVE  Punteros'
  <2>1. UNCHANGED <<archivosAbiertos, esperado, usa, cola>>
    BY <1>8, AjenaNoToca
       DEF Ajena, FileSystem, CrearArchivo, Desbloqueado, Despachar, Ceder, Terminar, AbrirOtro,
           Transferir, historia, tablas
  <2> QED BY <1>1, <2>1
<1>9. CASE UNCHANGED vars \/ Desconectado
  BY <1>1, <1>9 DEF vars, Desconectado, tablas, historia
<1> QED BY <1>3, <1>4, <1>5, <1>6, <1>7, <1>8, <1>9, Casos

\* A transfer that was asked for goes to the right position.
EnSuLugar(m) ==
    m.op = "LEER_ARCHIVO" /\ m.pid \in usa[m.arch] =>
        \/ m.pos = esperado[m.pid][m.arch]
        \/ esperado[m.pid][m.arch] = 0 /\ Cardinality(Entradas(m.pid, m.arch)) > 1

LEMMA Transferencias ==
    TransferenciaEnSuLugar <=> \A m \in Elementos(aFs) : EnSuLugar(m)
BY DEF TransferenciaEnSuLugar, EnSuLugar, Elementos

\* While a process waits for its transfer nobody touches its entries, and it is
\* given no file.
LEMMA ViajeQuieto ==
    ASSUME TypeOK, Lugares, [Next]_vars, NEW p \in EnViaje
    PROVE  /\ archivosAbiertos'[p] = archivosAbiertos[p] /\ esperado'[p] = esperado[p]
           /\ \A f \in Archivos : p \in usa'[f] => p \in usa[f]
<1>0. p \in Procesos /\ p \notin EnCpu /\ p \notin EnFila
  BY DEF Lugares, Aparte, EnViaje
<1>1. CASE ArchivoAbierto
  <2>1. PICK q \in Procesos, f \in Archivos : q = Head(deFs).pid /\ f = Head(deFs).arch
    BY <1>1, Recibido DEF ArchivoAbierto, MensajesFs
  <2>2. Head(deFs) \in Viajan /\ EsApertura(Head(deFs))
    BY <1>1, ElementosMenos DEF ArchivoAbierto, TypeOK, Viajan, EsApertura
  <2>3. q # p
    BY <1>0, <2>1, <2>2 DEF Lugares, AbreElQueEspera, EnCpu
  <2>4. AgregarEntrada(q, f) /\ usa' = [usa EXCEPT ![f] = @ \union {q}]
    BY <1>1, <2>1 DEF ArchivoAbierto
  <2> QED BY <1>0, <2>3, <2>4 DEF AgregarEntrada, TypeOK
<1>2. ASSUME NEW q \in Procesos, NEW f \in Archivos, AbrirContenido(q, f)
      PROVE  /\ archivosAbiertos'[p] = archivosAbiertos[p] /\ esperado'[p] = esperado[p]
             /\ usa' = usa
  <2>1. q # p
    BY <1>0, <1>2, CpuDe DEF AbrirContenido, Instruccion
  <2> QED BY <1>0, <1>2, <2>1 DEF AbrirContenido, AgregarEntrada, TypeOK
<1>3. ASSUME NEW q \in Procesos, NEW f \in Archivos, NEW pos \in Posiciones, Buscar(q, f, pos)
      PROVE  /\ archivosAbiertos'[p] = archivosAbiertos[p] /\ esperado'[p] = esperado[p]
             /\ usa' = usa
  <2>1. q # p
    BY <1>0, <1>3, CpuDe DEF Buscar, Instruccion
  <2> QED BY <1>0, <1>3, <2>1 DEF Buscar, TypeOK
<1>4. ASSUME NEW q \in Procesos, NEW f \in Archivos, Cerrar(q, f)
      PROVE  /\ UNCHANGED <<archivosAbiertos, esperado>>
             /\ \A g \in Archivos : p \in usa'[g] => p \in usa[g]
  BY <1>4 DEF Cerrar, TypeOK
<1>5. ASSUME NEW f \in Archivos, IniciarArchivo(f)
      PROVE  /\ UNCHANGED <<archivosAbiertos, esperado>>
             /\ \A g \in Archivos : p \in usa'[g] => p \in usa[g]
  <2>1. CASE cola[f] = <<>>
    BY <1>5, <2>1 DEF IniciarArchivo
  <2>2. CASE cola[f] # <<>>
    <3>1. /\ usa' = [usa EXCEPT ![f] = @ \union {Head(cola[f])}]
          /\ UNCHANGED <<archivosAbiertos, esperado>>
      BY <1>5, <2>2 DEF IniciarArchivo
    <3>2. Head(cola[f]) # p
      BY <1>0, <2>2, ElementosMenos DEF TypeOK, EnFila
    <3> QED BY <3>1, <3>2 DEF TypeOK
  <2> QED BY <2>1, <2>2
<1>6. ASSUME Ajena, \A q \in Procesos, f \in Archivos : \A pos \in Posiciones :
                        ~Buscar(q, f, pos)
      PROVE  UNCHANGED <<archivosAbiertos, esperado, usa>>
  BY <1>6 DEF Ajena, FileSystem, CrearArchivo, Desbloqueado, Despachar, Ceder, Terminar,
              AbrirOtro, Transferir, historia, tablas
<1>7. CASE UNCHANGED vars \/ Desconectado
  BY <1>7 DEF vars, Desconectado, historia
<1> QED BY <1>1, <1>2, <1>3, <1>4, <1>5, <1>6, <1>7, Casos

\* The transfers under way stay right, ...
LEMMA EnSuLugarSigue ==
    ASSUME TypeOK, Lugares, [Next]_vars, NEW m \in Elementos(aFs), EnSuLugar(m)
    PROVE  EnSuLugar(m)'
<1>1. m \in MensajesFs(Ops)
  <2>1. aFs \in Seq(MensajesFs(Ops))
    BY DEF TypeOK
  <2> QED BY <2>1, ElementOfSeq, LenProperties DEF Elementos
<1>2. m.pid \in Procesos /\ m.arch \in Archivos
  BY <1>1 DEF MensajesFs
<1>3. CASE m.op = "LEER_ARCHIVO"
  <2>1. m.pid \in EnViaje
    BY <1>2, <1>3 DEF EnViaje, Viajan, EsTransferencia
  <2>2. /\ archivosAbiertos'[m.pid] = archivosAbiertos[m.pid]
        /\ esperado'[m.pid] = esperado[m.pid]
        /\ m.pid \in usa'[m.arch] => m.pid \in usa[m.arch]
    BY <1>2, <2>1, ViajeQuieto
  <2>3. Entradas(m.pid, m.arch)' = Entradas(m.pid, m.arch)
    BY <2>2 DEF Entradas
  <2> QED BY <2>2, <2>3 DEF EnSuLugar
<1>4. CASE m.op # "LEER_ARCHIVO"
  BY <1>4 DEF EnSuLugar
<1> QED BY <1>3, <1>4

\* ... and so does the new one.
LEMMA TransferenciaNueva ==
    ASSUME TypeOK, Punteros, NEW p \in Procesos, NEW f \in Archivos,
           NEW pos \in BuscarPuntero(p, f), UNCHANGED <<archivosAbiertos, usa, esperado>>
    PROVE  EnSuLugar(Mensaje("LEER_ARCHIVO", p, f, pos))'
<1> DEFINE m == Mensaje("LEER_ARCHIVO", p, f, pos)
<1>1. m.pid = p /\ m.arch = f /\ m.pos = pos
  BY DEF Mensaje
<1>2. Entradas(p, f)' = Entradas(p, f)
  BY DEF Entradas
<1>3. ASSUME p \in usa[f]
      PROVE  \/ pos = esperado[p][f]
             \/ esperado[p][f] = 0 /\ Cardinality(Entradas(p, f)) > 1
  <2>1. Entradas(p, f) # {} /\ PunteroJusto(p, f)
    BY <1>3 DEF Punteros, ConEntrada
  <2>2. pos = archivosAbiertos[p][Primera(p, f)].punt
    BY <2>1 DEF BuscarPuntero
  <2> QED BY <2>1, <2>2 DEF PunteroJusto
<1> HIDE DEF m
<1>4. EnSuLugar(m)'
  BY <1>1, <1>2, <1>3 DEF EnSuLugar
<1> QED BY <1>4 DEF m

LEMMA TransferenciasPaso ==
    TypeOK /\ Lugares /\ Punteros /\ TransferenciaEnSuLugar /\ [Next]_vars
        => TransferenciaEnSuLugar'
<1> SUFFICES ASSUME TypeOK, Lugares, Punteros, TransferenciaEnSuLugar, [Next]_vars
             PROVE  TransferenciaEnSuLugar'
  OBVIOUS
<1>1. \A m \in Elementos(aFs) : EnSuLugar(m)'
  BY Transferencias, EnSuLugarSigue
<1>2. SUFFICES ASSUME NEW m \in Elementos(aFs') \ Elementos(aFs)
               PROVE  EnSuLugar(m)'
  <2>1. TransferenciaEnSuLugar' <=> \A m \in Elementos(aFs') : EnSuLugar(m)'
    BY DEF TransferenciaEnSuLugar, EnSuLugar, Elementos
  <2> QED BY <1>1, <2>1
<1>3. ASSUME NEW n, aFs' = Append(aFs, n) PROVE m = n
  BY <1>2, <1>3, ElementosMas DEF TypeOK
<1>4. ASSUME NEW p \in Procesos, NEW f \in Archivos, Transferir(p, f) PROVE EnSuLugar(m)'
  <2>1. PICK pos \in BuscarPuntero(p, f) :
            aFs' = Append(aFs, Mensaje("LEER_ARCHIVO", p, f, pos))
    BY <1>4 DEF Transferir
  <2>2. m = Mensaje("LEER_ARCHIVO", p, f, pos)
    BY <1>3, <2>1
  <2> QED BY <1>4, <2>2, TransferenciaNueva DEF Transferir, historia
<1>5. ASSUME NEW p \in Procesos, NEW f \in Archivos, AbrirOtro(p, f) PROVE EnSuLugar(m)'
  <2>1. m.op = "ABRIR_ARCHIVO"
    BY <1>3, <1>5 DEF AbrirOtro, Pedido, Mensaje
  <2> QED BY <2>1 DEF EnSuLugar
<1>6. CASE CrearArchivo
  <2>1. m.op = "CREAR_ARCHIVO"
    BY <1>3, <1>6 DEF CrearArchivo
  <2> QED BY <2>1 DEF EnSuLugar
<1>7. CASE FileSystem
  BY <1>2, <1>7, ElementosMenos DEF FileSystem, Contesta, LeeSinBloques, TypeOK
<1>8. CASE UNCHANGED aFs
  BY <1>2, <1>8
<1>9. \A p \in Procesos : Nombra[p] \subseteq Archivos
  BY NombraAssumption
<1> QED BY <1>4, <1>5, <1>6, <1>7, <1>8, <1>9
        DEF Next, Cpu, Abrir, AtenderFileSystem, ArchivoAbierto, Desbloqueado, Desconectado,
            Despachar, Ceder, Terminar, AbrirContenido, Cerrar, Buscar, IniciarArchivo, canalFs, vars

\* Every F_READ and F_WRITE is made where the program is, at its last F_SEEK
\* since it opened the file or at the beginning, although F_CLOSE leaves the
\* entry in the PCB and whoever waited for the file got its entry before the
\* file; only another F_OPEN after an F_CLOSE finds the old position.
THEOREM TransferenciaCorrecta == Spec => []TransferenciaEnSuLugar
<1>1. Init => Lugares /\ Punteros /\ TransferenciaEnSuLugar
  <2> SUFFICES ASSUME Init PROVE Lugares /\ Punteros /\ TransferenciaEnSuLugar
    OBVIOUS
  <2>1. Elementos(<<>>) = {} /\ DOMAIN <<>> = {}
    BY DEF Elementos
  <2>2. EnCpu = {} /\ EnFila = {} /\ EnViaje = {} /\ Viajan = {}
    BY <2>1, CpuDe DEF Init, EnCpu, EnFila, EnViaje, Viajan, CpuOciosa
  <2>3. Lugares
    BY <2>1, <2>2 DEF Init, Lugares, Aparte, SinRepetidos, AbreElQueEspera
  <2>4. \A p \in Procesos, f \in Archivos :
            Entradas(p, f) = {} /\ p \notin usa[f] \union Elementos(cola[f])
    BY <2>1 DEF Init, Entradas
  <2>5. Punteros /\ TransferenciaEnSuLugar
    BY <2>1, <2>4 DEF Init, Punteros, PunteroJusto, ConEntrada, TransferenciaEnSuLugar
  <2> QED BY <2>3, <2>5
<1>2. TypeOK /\ TypeOK' /\ Conversacion /\ Lugares /\ Punteros /\ TransferenciaEnSuLugar
          /\ [Next]_vars
        => (Lugares /\ Punteros /\ TransferenciaEnSuLugar)'
  BY LugaresPaso, PunterosPaso, TransferenciasPaso
<1> QED BY <1>1, <1>2, ConversacionSiempre, PTL DEF Spec

=============================================================================
