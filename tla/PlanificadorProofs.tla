-------------------------- MODULE PlanificadorProofs --------------------------
(* Theorems about Planificador, for every set of processes and resources,    *)
(* every program and either scheduling algorithm.                            *)
EXTENDS Planificador, SequenceTheorems, FiniteSetTheorems, TLAPS

\* Taking an element out of a list leaves a list of the others.
LEMMA QuitarTipo ==
    ASSUME NEW S, NEW s \in Seq(S), NEW i \in DOMAIN s
    PROVE  Quitar(s, i) \in Seq(S)
<1>1. /\ DOMAIN s = 1 .. Len(s) /\ Len(s) \in Nat
      /\ \A j \in 1 .. Len(s) : s[j] \in S
  BY LenProperties, ElementOfSeq
<1>2. SubSeq(s, 1, i - 1) \in Seq(S)
  BY <1>1, SubSeqProperties
<1>3. SubSeq(s, i + 1, Len(s)) \in Seq(S)
  BY <1>1, SubSeqProperties
<1> QED BY <1>2, <1>3, ConcatProperties DEF Quitar

\* What the CPU does keeps the types.
LEMMA TipoCpu == TypeOK /\ Cpu => TypeOK'
<1> SUFFICES ASSUME TypeOK, Cpu PROVE TypeOK'
  OBVIOUS
<1> USE DEF TypeOK, restoCpu, semaforos, planif, recursos, canalFs, memoria, Vivo
<1>1. CASE CpuRecibe
  <2>1. Head(aCpu) \in AlCpu /\ Tail(aCpu) \in Seq(AlCpu)
    BY <1>1, HeadTailProperties DEF CpuRecibe
  <2> QED BY <1>1, <2>1 DEF CpuRecibe, AlCpu, CpuOciosa
<1>2. ASSUME NEW p \in Procesos, CpuLocal(p) PROVE TypeOK'
  <2>1. pc' \in [Procesos -> Nat] /\ \A q \in Procesos : pc'[q] <= Len(Programa[q])
    BY <1>2 DEF CpuLocal, Corriendo
  <2> QED BY <1>2, <2>1 DEF CpuLocal
<1>3. ASSUME NEW p \in Procesos, CpuConsulta(p) PROVE TypeOK'
  <2>1. Mensaje(OperacionDe[Siguiente(p).nombre], p) \in AlKernel
    BY <1>3 DEF CpuConsulta, AlKernel, Mensaje
  <2>2. aKernel' \in Seq(AlKernel)
    BY <1>3, <2>1, AppendProperties DEF CpuConsulta
  <2> QED BY SMTT(60), <1>3, <2>2 DEF CpuConsulta, Corriendo
<1>4. ASSUME NEW p \in Procesos, CpuEntrega(p) PROVE TypeOK'
  <2>1. Mensaje(OperacionDe[Siguiente(p).nombre], p) \in AlKernel
    BY <1>4 DEF CpuEntrega, AlKernel, Mensaje
  <2>2. aKernel' \in Seq(AlKernel)
    BY <1>4, <2>1, AppendProperties DEF CpuEntrega
  <2> QED BY SMTT(60), <1>4, <2>2 DEF CpuEntrega, Corriendo
<1>5. ASSUME NEW p \in Procesos, CpuRespuesta(p) PROVE TypeOK'
  <2>1. aCpu' \in Seq(AlCpu)
    BY <1>5, HeadTailProperties DEF CpuRespuesta
  <2> QED BY <1>5, <2>1 DEF CpuRespuesta, CpuOciosa
<1> QED BY <1>1, <1>2, <1>3, <1>4, <1>5 DEF Cpu

\* Adding a process to cola_ready keeps the queue a sequence of processes.
LEMMA TipoReady ==
    ASSUME listos \in Seq(Procesos), semReady \in Nat, NEW p \in Procesos,
           AgregarAColaReady(p)
    PROVE  listos' \in Seq(Procesos) /\ semReady' \in Nat
<1> DEFINE s == Append(listos, p)
<1>1. s \in Seq(Procesos)
  BY AppendProperties
<1>2. \A i \in DOMAIN s : Quitar(s, i) \in Seq(Procesos)
  BY <1>1, QuitarTipo
<1>3. listos' = s \/ \E i \in DOMAIN s : listos' = Quitar(s, i)
  BY DEF AgregarAColaReady, ConUnoMas
<1> HIDE DEF s
<1>4. listos' \in Seq(Procesos)
  BY <1>1, <1>2, <1>3
<1> QED BY <1>4 DEF AgregarAColaReady

\* The consoles, de_new_a_ready and de_ready_a_ejecutar keep the types.
LEMMA TipoPlanif == TypeOK /\ (DeConsolas \/ HiloNew \/ HiloExec) => TypeOK'
<1> SUFFICES ASSUME TypeOK, DeConsolas \/ HiloNew \/ HiloExec PROVE TypeOK'
  OBVIOUS
<1> USE DEF TypeOK, recursos, laCpu, canalFs, memoria, semaforos, Vivo
<1>1. ASSUME NEW p \in Procesos, Conectar(p) PROVE TypeOK'
  <2>1. nuevos' \in Seq(Procesos) /\ semNuevo' \in Nat
    BY <1>1, AppendProperties DEF Conectar, AgregarAColaNew
  <2> QED BY <1>1, <2>1 DEF Conectar
<1>2. CASE NewDespierta
  BY <1>2 DEF NewDespierta
<1>3. CASE NewDuerme
  BY <1>3 DEF NewDuerme
<1>4. CASE Admitir
  <2>1. Head(nuevos) \in Procesos /\ nuevos' \in Seq(Procesos)
    BY <1>4, HeadTailProperties DEF Admitir
  <2>2. listos' \in Seq(Procesos) /\ semReady' \in Nat
    BY <1>4, <2>1, TipoReady DEF Admitir
  <2> QED BY SMTT(60), <1>4, <2>1, <2>2 DEF Admitir
<1>5. CASE ExecDespierta
  BY <1>5 DEF ExecDespierta
<1>6. CASE ExecDuerme
  BY <1>6 DEF ExecDuerme
<1>7. CASE Despachar
  <2>1. PICK i \in DOMAIN listos :
            /\ listos' = Quitar(listos, i)
            /\ aCpu' = Append(aCpu, Mensaje("EJECUTAR", listos[i]))
    BY <1>7 DEF Despachar
  <2>2. listos' \in Seq(Procesos)
    BY <2>1, QuitarTipo
  <2>3. Mensaje("EJECUTAR", listos[i]) \in AlCpu
    BY <2>1, LenProperties, ElementOfSeq DEF AlCpu, Mensaje
  <2>4. aCpu' \in Seq(AlCpu)
    BY <2>1, <2>3, AppendProperties
  <2> QED BY SMTT(60), <1>7, <2>2, <2>4 DEF Despachar
<1>8. CASE TomarCpu
  BY <1>8 DEF TomarCpu, WaitHabilitar
<1> QED BY <1>1, <1>2, <1>3, <1>4, <1>5, <1>6, <1>7, <1>8
        DEF DeConsolas, HiloNew, HiloExec

\* The answers of the kernel to the CPU.
LEMMA TipoRespuesta ==
    ASSUME aCpu \in Seq(AlCpu), NEW p \in Procesos, NEW op, Responder(op, p),
           op \in {"EJECUTAR", "CONTINUAR", "DETENER", "FINALIZAR", "RESULT_0",
                   "RESULT_1"}
    PROVE  aCpu' \in Seq(AlCpu)
<1>1. Mensaje(op, p) \in AlCpu
  BY DEF Mensaje, AlCpu
<1> QED BY <1>1, AppendProperties DEF Responder

\* Taking a request off the connection.
LEMMA TipoLlega ==
    ASSUME aKernel \in Seq(AlKernel), NEW op, NEW p, Llega(op, p)
    PROVE  aKernel' \in Seq(AlKernel)
BY HeadTailProperties DEF Llega

\* The handlers of atender_cpu keep the types.
LEMMA TipoAtender ==
    ASSUME TypeOK, NEW p \in Procesos,
           \/ Desalojado(p) \/ EjecutarWait(p) \/ EjecutarSignal(p)
           \/ EjecutarIO(p) \/ Transferir(p) \/ PedirSegmento(p) \/ Finalizar(p)
    PROVE  TypeOK'
<1> USE DEF TypeOK, recursos, laCpu, canalFs, memoria, semaforos, planif, Vivo,
            restoRecurso, PostHabilitar, PostMulti
<1>1. CASE Desalojado(p)
  <2>1. listos' \in Seq(Procesos) /\ semReady' \in Nat
    BY <1>1, TipoReady DEF Desalojado
  <2>2. aKernel' \in Seq(AlKernel)
    BY <1>1, TipoLlega DEF Desalojado
  <2> QED BY <1>1, <2>1, <2>2 DEF Desalojado, Llega
<1>2. CASE EjecutarWait(p)
  <2>1. aKernel' \in Seq(AlKernel)
    BY <1>2, TipoLlega DEF EjecutarWait
  <2>2. aCpu' \in Seq(AlCpu)
    BY <1>2, TipoRespuesta DEF EjecutarWait
  <2> DEFINE r == Actual(p).param
  <2>3. instancias' = instancias \/
          (r \in Recursos /\ instancias' = [instancias EXCEPT ![r] = @ - 1])
    BY <1>2 DEF EjecutarWait
  <2>4. colaRecurso' = colaRecurso \/
          (r \in Recursos /\ colaRecurso' = [colaRecurso EXCEPT ![r] = Append(@, p)])
    BY <1>2 DEF EjecutarWait
  <2> HIDE DEF r
  <2>8. instancias' \in [Recursos -> Int]
    BY <2>3
  <2>9. colaRecurso' \in [Recursos -> Seq(Procesos)]
    <3>1. CASE colaRecurso' = colaRecurso
      BY <3>1
    <3>2. CASE r \in Recursos /\ colaRecurso' = [colaRecurso EXCEPT ![r] = Append(@, p)]
      <4>1. Append(colaRecurso[r], p) \in Seq(Procesos)
        BY <3>2, AppendProperties
      <4> QED BY <3>2, <4>1
    <3> QED BY <2>4, <3>1, <3>2
  <2>10. semHabilitar' \in Nat
    BY <1>2 DEF EjecutarWait
  <2>5. semRecurso' \in [Recursos -> Nat]
    BY <1>2 DEF EjecutarWait
  <2>6. consola' \in [Procesos -> {"fuera", "activa", "terminada", "finalizada"}]
    BY <1>2 DEF EjecutarWait
  <2> QED BY <1>2, <2>1, <2>2, <2>5, <2>6, <2>8, <2>9, <2>10 DEF EjecutarWait, Llega
<1>3. CASE EjecutarSignal(p)
  <2>1. aKernel' \in Seq(AlKernel)
    BY <1>3, TipoLlega DEF EjecutarSignal
  <2>2. aCpu' \in Seq(AlCpu)
    BY <1>3, TipoRespuesta DEF EjecutarSignal
  <2> DEFINE r == Actual(p).param
  <2>3. instancias' = instancias \/
          (r \in Recursos /\ instancias' = [instancias EXCEPT ![r] = @ + 1])
    BY <1>3 DEF EjecutarSignal
  <2>4. semRecurso' = semRecurso \/
          (r \in Recursos /\ semRecurso' = [semRecurso EXCEPT ![r] = @ + 1])
    BY <1>3 DEF EjecutarSignal
  <2> HIDE DEF r
  <2>8. instancias \in [Recursos -> Int] /\ semRecurso \in [Recursos -> Nat]
    OBVIOUS
  <2>6. instancias' \in [Recursos -> Int] /\ semRecurso' \in [Recursos -> Nat]
    <3>1. instancias' \in [Recursos -> Int]
      BY ONLY <2>3, <2>8
    <3>2. semRecurso' \in [Recursos -> Nat]
      BY ONLY <2>4, <2>8
    <3> QED BY <3>1, <3>2
  <2>7. semHabilitar' \in Nat /\ UNCHANGED colaRecurso
    BY <1>3 DEF EjecutarSignal
  <2>5. consola' \in [Procesos -> {"fuera", "activa", "terminada", "finalizada"}]
    BY <1>3 DEF EjecutarSignal
  <2> QED BY <1>3, <2>1, <2>2, <2>5, <2>6, <2>7 DEF EjecutarSignal, Llega
<1>4. CASE EjecutarIO(p)
  <2>1. aKernel' \in Seq(AlKernel)
    BY <1>4, TipoLlega DEF EjecutarIO
  <2> QED BY <1>4, <2>1 DEF EjecutarIO, Llega
<1>5. CASE Transferir(p)
  <2>1. aKernel' \in Seq(AlKernel)
    BY <1>5, TipoLlega DEF Transferir
  <2>2. aCpu' \in Seq(AlCpu)
    BY <1>5, TipoRespuesta DEF Transferir
  <2>3. aFs' \in Seq(Procesos)
    BY <1>5, AppendProperties DEF Transferir
  <2> QED BY <1>5, <2>1, <2>2, <2>3 DEF Transferir, Llega, WaitCompresion
<1>6. CASE PedirSegmento(p)
  <2>1. PICK op \in {"CREAR_SEGMENTO", "ELIMINAR_SEGMENTO"} :
            Llega(op, p) /\ aMemoria' = Append(aMemoria, Mensaje(op, p))
    BY <1>6 DEF PedirSegmento
  <2>2. aKernel' \in Seq(AlKernel)
    BY <2>1, TipoLlega
  <2>3. Mensaje(op, p) \in AMemoria
    BY DEF AMemoria, Mensaje
  <2>4. aMemoria' \in Seq(AMemoria)
    BY <2>1, <2>3, AppendProperties
  <2> QED BY <1>6, <2>2, <2>4 DEF PedirSegmento, Llega
<1>7. CASE Finalizar(p)
  <2>1. aKernel' \in Seq(AlKernel)
    BY <1>7, TipoLlega DEF Finalizar
  <2> QED BY SMTT(60), <1>7, <2>1 DEF Finalizar, Llega
<1> QED BY <1>1, <1>2, <1>3, <1>4, <1>5, <1>6, <1>7

\* The request that frees a process in the memory.
LEMMA TipoEliminar ==
    ASSUME aMemoria \in Seq(AMemoria), NEW p \in Procesos, EliminarProceso(p)
    PROVE  aMemoria' \in Seq(AMemoria)
<1>1. Mensaje("FINALIZAR", p) \in AMemoria
  BY DEF Mensaje, AMemoria
<1> QED BY <1>1, AppendProperties DEF EliminarProceso

\* The rest of atender_cpu keeps the types.
LEMMA TipoResultado ==
    TypeOK /\ (\/ Notificar \/ CreacionExitosa \/ RealizarCompactacion
               \/ Compactar \/ SinMemoria) => TypeOK'
<1> SUFFICES ASSUME TypeOK, \/ Notificar \/ CreacionExitosa \/ RealizarCompactacion
                            \/ Compactar \/ SinMemoria
             PROVE  TypeOK'
  OBVIOUS
<1> USE DEF TypeOK, recursos, laCpu, canalFs, memoria, semaforos, planif, Vivo,
            PostHabilitar, PostMulti
<1>0. ASSUME NEW op, Resultado(op)
      PROVE  deMemoria' \in Seq({"CREACION_EXITOSA", "REALIZAR_COMPACTACION",
                                 "COMPACTAR", "SIN_MEMORIA"})
             /\ atiende.pid \in Procesos
  BY <1>0, HeadTailProperties DEF Resultado, AtiendeLibre
<1>1. CASE Notificar
  <2>1. atiende.pid \in Procesos
    BY <1>1 DEF Notificar, AtiendeLibre
  <2>2. aMemoria' \in Seq(AMemoria)
    BY <1>1, <2>1, TipoEliminar DEF Notificar
  <2> QED BY <1>1, <2>1, <2>2 DEF Notificar
<1>2. CASE CreacionExitosa
  <2>1. aCpu' \in Seq(AlCpu)
    BY <1>0, <1>2, TipoRespuesta DEF CreacionExitosa
  <2> QED BY <1>0, <1>2, <2>1 DEF CreacionExitosa, Resultado
<1>3. CASE RealizarCompactacion
  <2>1. Mensaje("REALIZAR_COMPACTACION", Nadie) \in AMemoria
    BY DEF AMemoria
  <2>2. aMemoria' \in Seq(AMemoria)
    BY <1>3, <2>1, AppendProperties DEF RealizarCompactacion
  <2>3. mutexCompresion' \in Nat
    BY <1>3 DEF RealizarCompactacion, WaitCompresion
  <2>4. UNCHANGED <<pc, cpu, consola, aCpu, atiende>>
    BY <1>3 DEF RealizarCompactacion, Resultado
  <2> QED BY <1>0, <1>3, <2>2, <2>3, <2>4 DEF RealizarCompactacion, Resultado
<1>4. CASE Compactar
  <2>1. atiende.pid \in Procesos
    BY <1>0, <1>4 DEF Compactar
  <2>2. Mensaje("CREAR_SEGMENTO", atiende.pid) \in AMemoria
    BY <2>1 DEF AMemoria, Mensaje
  <2>3. aMemoria' \in Seq(AMemoria)
    BY <1>4, <2>2, AppendProperties DEF Compactar
  <2> QED BY <1>0, <1>4, <2>3 DEF Compactar, Resultado
<1>5. CASE SinMemoria
  <2>1. atiende.pid \in Procesos
    BY <1>0, <1>5 DEF SinMemoria
  <2>2. aMemoria' \in Seq(AMemoria)
    BY <1>5, <2>1, TipoEliminar DEF SinMemoria
  <2>3. aCpu' \in Seq(AlCpu)
    BY <1>5, <2>1, TipoRespuesta DEF SinMemoria
  <2> QED BY SMTT(60), <1>0, <1>5, <2>1, <2>2, <2>3 DEF SinMemoria, Resultado
<1> QED BY <1>1, <1>2, <1>3, <1>4, <1>5

\* The threads of resources and of I/O, atender_fileSystem and the two other
\* modules keep the types.
LEMMA TipoHilos ==
    TypeOK /\ (\/ \E p \in Procesos : TerminarIO(p)
               \/ \E r \in Recursos : IniciarRecurso(r)
               \/ Desbloqueado \/ FileSystem \/ Memoria) => TypeOK'
<1> SUFFICES ASSUME TypeOK, \/ \E p \in Procesos : TerminarIO(p)
                            \/ \E r \in Recursos : IniciarRecurso(r)
                            \/ Desbloqueado \/ FileSystem \/ Memoria
             PROVE  TypeOK'
  OBVIOUS
<1> USE DEF TypeOK, recursos, laCpu, canalFs, memoria, semaforos, planif, Vivo
<1>1. ASSUME NEW p \in Procesos, TerminarIO(p) PROVE TypeOK'
  <2>1. listos' \in Seq(Procesos) /\ semReady' \in Nat
    BY <1>1, TipoReady DEF TerminarIO
  <2> QED BY <1>1, <2>1 DEF TerminarIO
<1>2. ASSUME NEW r \in Recursos, RecursoDespierta(r) PROVE TypeOK'
  <2>1. semRecurso' \in [Recursos -> Nat]
    <3>1. semRecurso \in [Recursos -> Nat] /\ semRecurso[r] \in Nat \ {0}
      BY <1>2 DEF RecursoDespierta
    <3>2. semRecurso' = [semRecurso EXCEPT ![r] = @ - 1]
      BY <1>2 DEF RecursoDespierta
    <3> QED BY <3>1, <3>2
  <2>2. hiloRecurso' \in [Recursos -> {"espera", "saca"}]
    BY <1>2 DEF RecursoDespierta
  <2> QED BY <1>2, <2>1, <2>2 DEF RecursoDespierta
<1>3. ASSUME NEW r \in Recursos, RecursoSaca(r) PROVE TypeOK'
  <2>1. hiloRecurso' \in [Recursos -> {"espera", "saca"}]
    BY <1>3 DEF RecursoSaca
  <2>2. CASE colaRecurso[r] # <<>>
    <3>1. Head(colaRecurso[r]) \in Procesos /\ Tail(colaRecurso[r]) \in Seq(Procesos)
      BY <2>2, HeadTailProperties
    <3>2. colaRecurso' = [colaRecurso EXCEPT ![r] = Tail(@)] /\ UNCHANGED kernel
          /\ AgregarAColaReady(Head(colaRecurso[r]))
      BY <1>3, <2>2 DEF RecursoSaca
    <3>3. colaRecurso' \in [Recursos -> Seq(Procesos)]
      BY <3>1, <3>2
    <3>4. listos' \in Seq(Procesos) /\ semReady' \in Nat
      BY <3>1, <3>2, TipoReady
    <3> QED BY <1>3, <2>1, <3>2, <3>3, <3>4 DEF RecursoSaca
  <2>3. CASE colaRecurso[r] = <<>>
    BY <1>3, <2>1, <2>3 DEF RecursoSaca
  <2> QED BY <2>2, <2>3
<1>4. CASE Desbloqueado
  <2>1. Head(deFs) \in Procesos /\ deFs' \in Seq(Procesos)
    BY <1>4, HeadTailProperties DEF Desbloqueado
  <2>2. listos' \in Seq(Procesos) /\ semReady' \in Nat
    BY <1>4, <2>1, TipoReady DEF Desbloqueado
  <2> QED BY SMTT(60), <1>4, <2>1, <2>2 DEF Desbloqueado
<1>5. CASE FileSystem
  <2>1. Head(aFs) \in Procesos /\ aFs' \in Seq(Procesos)
    BY <1>5, HeadTailProperties DEF FileSystem
  <2>2. deFs' \in Seq(Procesos)
    BY <1>5, <2>1, AppendProperties DEF FileSystem
  <2> QED BY <1>5, <2>1, <2>2 DEF FileSystem
<1>6. CASE Memoria
  <2>1. Head(aMemoria) \in AMemoria /\ aMemoria' \in Seq(AMemoria)
    BY <1>6, HeadTailProperties DEF Memoria
  <2> DEFINE Respuestas == {"CREACION_EXITOSA", "REALIZAR_COMPACTACION",
                            "COMPACTAR", "SIN_MEMORIA"}
             m == Head(aMemoria)
  <2>2. deMemoria' \in Seq(Respuestas)
    <3>1. \A op \in Respuestas : Append(deMemoria, op) \in Seq(Respuestas)
      BY AppendProperties
    <3>2. deMemoria' = deMemoria \/
            \E op \in Respuestas : deMemoria' = Append(deMemoria, op)
      BY <1>6 DEF Memoria
    <3> QED BY <3>1, <3>2
  <2>3. duenios' \subseteq Procesos /\ compactada' \in BOOLEAN
    <3>1. m.op = "CREAR_SEGMENTO" => m.pid \in Procesos
      BY <2>1 DEF AMemoria, Mensaje
    <3>2. \/ m.op = "CREAR_SEGMENTO" /\ duenios' = duenios \union {m.pid}
          \/ duenios' \in {duenios, duenios \ {m.pid}}
      BY <1>6 DEF Memoria
    <3>3. compactada' \in {TRUE, FALSE, compactada}
      BY <1>6 DEF Memoria
    <3> QED BY <3>1, <3>2, <3>3
  <2> QED BY <1>6, <2>1, <2>2, <2>3 DEF Memoria
<1> QED BY <1>1, <1>2, <1>3, <1>4, <1>5, <1>6 DEF IniciarRecurso

\* Type correctness: every queue, channel and counter of the kernel holds what
\* the code that reads it expects, for any programs.
THEOREM TipoCorrecto == Spec => []TypeOK
<1>1. Init => TypeOK
  <2> SUFFICES ASSUME Init PROVE TypeOK
    OBVIOUS
  <2>1. \A S : <<>> \in Seq(S)
    BY EmptySeq
  <2>2. instancias \in [Recursos -> Int]
    BY InstanciasAssumption DEF Init
  <2>3. colaRecurso \in [Recursos -> Seq(Procesos)] /\ semRecurso \in [Recursos -> Nat]
    BY <2>1 DEF Init
  <2>4. pc \in [Procesos -> Nat] /\ \A p \in Procesos : pc[p] <= Len(Programa[p])
    BY ProgramaAssumption DEF Init
  <2> QED BY <2>1, <2>2, <2>3, <2>4, GradoAssumption DEF Init, TypeOK
<1>2. TypeOK /\ [Next]_vars => TypeOK'
  <2> SUFFICES ASSUME TypeOK, [Next]_vars PROVE TypeOK'
    OBVIOUS
  <2>1. CASE Next
    BY <2>1, TipoCpu, TipoPlanif, TipoAtender, TipoResultado, TipoHilos
       DEF Next, AtenderCpu
  <2>2. CASE UNCHANGED vars
    BY <2>2 DEF TypeOK, vars, semaforos, planif, recursos, laCpu, canalFs, memoria
  <2> QED BY <2>1, <2>2
<1> QED BY <1>1, <1>2, PTL DEF Spec

-------------------------------------------------------------------------------
(* The conversation between the CPU and the kernel.                          *)

\* The first element of a list, and what is left without it.
LEMMA Sacar ==
    ASSUME NEW S, NEW s \in Seq(S)
    PROVE  /\ Len(s) \in Nat /\ (Len(s) = 0 <=> s = <<>>)
           /\ Len(s) > 0 =>
                /\ Head(s) = s[1] /\ s[1] \in S
                /\ Tail(s) \in Seq(S) /\ Len(Tail(s)) = Len(s) - 1
                /\ \A i \in 1 .. Len(s) - 1 : Tail(s)[i] = s[i + 1]
BY EmptySeq, LenProperties, ElementOfSeq, HeadTailProperties

DialogoInv == TypeOK /\ Dialogo

\* What is known of the two directions of the connection in every state.
LEMMA Canales ==
    ASSUME TypeOK
    PROVE  /\ Len(aCpu) \in Nat /\ (Len(aCpu) = 0 <=> aCpu = <<>>)
           /\ Len(aKernel) \in Nat /\ (Len(aKernel) = 0 <=> aKernel = <<>>)
           /\ aCpu \in Seq(AlCpu) /\ aKernel \in Seq(AlKernel)
BY Sacar DEF TypeOK

USE DEF Analizando, Vacios, FaseLibre, FaseDespacho, FaseEntrega, FaseCorre,
        FasePedido, FaseAnaliza, FaseSigue, FasePara

\* The permission to use the CPU follows the semaphore in the steps of the threads
\* other than the dispatcher.
LEMMA PermisoSigue ==
    ASSUME semHabilitar \in Nat, UNCHANGED hiloExec
    PROVE  /\ UNCHANGED semHabilitar => UNCHANGED Permiso
           /\ semHabilitar' = semHabilitar + 1 => Permiso' = Permiso + 1
BY DEF Permiso

\* The steps of the CPU go from one phase of the conversation to the next.
LEMMA DialogoCpuPaso == DialogoInv /\ Cpu => Dialogo'
<1> SUFFICES ASSUME TypeOK, Dialogo, Cpu PROVE Dialogo'
  BY DEF DialogoInv
<1> USE DEF restoCpu
<1>9. UNCHANGED Permiso
  BY DEF Cpu, CpuRecibe, CpuLocal, CpuConsulta, CpuEntrega, CpuRespuesta, semaforos,
         planif, Permiso
<1>0. /\ aCpu \in Seq(AlCpu) /\ aKernel \in Seq(AlKernel)
      /\ Len(aCpu) \in Nat /\ (Len(aCpu) = 0 <=> aCpu = <<>>)
      /\ Len(aKernel) \in Nat /\ (Len(aKernel) = 0 <=> aKernel = <<>>)
  BY Canales
<1>1. CASE CpuRecibe
  <2>1. FaseDespacho
    BY <1>1 DEF CpuRecibe, Dialogo
  <2>2. aCpu' = <<>> /\ Head(aCpu) = aCpu[1]
    <3>1. Tail(aCpu) \in Seq(AlCpu) /\ Len(Tail(aCpu)) = 0
      BY <1>0, <2>1, Sacar
    <3> QED BY <1>1, <1>0, <2>1, <3>1, Sacar DEF CpuRecibe
  <2>3. FaseCorre'
    BY <1>1, <1>9, <2>1, <2>2 DEF CpuRecibe
  <2> QED BY <2>3 DEF Dialogo
<1>2. ASSUME NEW p \in Procesos, CpuLocal(p) PROVE Dialogo'
  <2>1. FaseCorre
    BY <1>2 DEF CpuLocal, Corriendo, Dialogo
  <2>2. FaseCorre'
    BY <1>2, <1>9, <2>1 DEF CpuLocal
  <2> QED BY <2>2 DEF Dialogo
<1>3. ASSUME NEW p \in Procesos, CpuConsulta(p) PROVE Dialogo'
  <2>1. FaseCorre /\ cpu.pid = p
    BY <1>3 DEF CpuConsulta, Corriendo, Dialogo
  <2>2. /\ pc' = [pc EXCEPT ![p] = pc[p] + 1] /\ pc[p] < Len(Programa[p])
        /\ cpu'.estado = "esperando" /\ cpu'.pid = p
    BY <1>3, <2>1 DEF CpuConsulta, Corriendo, TypeOK
  <2>3. Pedida' = Siguiente(p).nombre /\ Pedida' \in ConRespuesta
    BY <1>3, <2>2 DEF CpuConsulta, Pedida, Actual, Siguiente, TypeOK
  <2>4. pc'[p] \in 1 .. Len(Programa[p])
    BY <2>2, ProgramaAssumption DEF TypeOK
  <2>5. Mensaje(OperacionDe[Siguiente(p).nombre], p) \in AlKernel
    BY <1>3 DEF CpuConsulta, AlKernel, Mensaje
  <2>6. Len(aKernel') = 1 /\ aKernel'[1] = Mensaje(OperacionDe[Siguiente(p).nombre], p)
    BY <1>0, <1>3, <2>1, <2>5, AppendProperties DEF CpuConsulta
  <2>7. FasePedido'
    BY <1>3, <1>9, <2>1, <2>2, <2>3, <2>6 DEF CpuConsulta, Mensaje
  <2> QED BY <2>2, <2>3, <2>4, <2>7 DEF Dialogo
<1>4. ASSUME NEW p \in Procesos, CpuEntrega(p) PROVE Dialogo'
  <2>1. FaseCorre
    BY <1>4 DEF CpuEntrega, Corriendo, Dialogo
  <2>5. Mensaje(OperacionDe[Siguiente(p).nombre], p) \in AlKernel
    BY <1>4 DEF CpuEntrega, AlKernel, Mensaje
  <2>6. Len(aKernel') = 1 /\ aKernel'[1] = Mensaje(OperacionDe[Siguiente(p).nombre], p)
    BY <1>0, <1>4, <2>1, <2>5, AppendProperties DEF CpuEntrega
  <2>7. EsEntrega(1)'
    BY <1>4, <2>6 DEF CpuEntrega, EsEntrega, Mensaje
  <2>8. FaseEntrega'
    BY <1>4, <1>9, <2>1, <2>6, <2>7 DEF CpuEntrega, CpuOciosa
  <2> QED BY <2>8 DEF Dialogo
<1>5. ASSUME NEW p \in Procesos, CpuRespuesta(p) PROVE Dialogo'
  <2>1. (FaseSigue \/ FasePara) /\ cpu.pid = p /\ Pedida \in ConRespuesta
    BY <1>5 DEF CpuRespuesta, Dialogo
  <2>2. /\ Head(aCpu) = aCpu[1] /\ aCpu' \in Seq(AlCpu)
        /\ Len(aCpu') = Len(aCpu) - 1
        /\ \A i \in 1 .. Len(aCpu) - 1 : aCpu'[i] = aCpu[i + 1]
    BY <1>0, <1>5, <2>1, Sacar DEF CpuRespuesta
  <2>3. CASE FaseSigue
    <3>1. aCpu' = <<>>
      BY <2>2, <2>3, Sacar
    <3>2. cpu'.estado = "ejecutando"
      BY <1>5, <2>1, <2>2, <2>3 DEF CpuRespuesta, Pedida, TypeOK
    <3>3. FaseCorre'
      BY <1>5, <1>9, <2>3, <3>1, <3>2 DEF CpuRespuesta
    <3> QED BY <3>3 DEF Dialogo
  <2>4. CASE FasePara
    <3>1. Para[Pedida] # Sigue[Pedida]
      BY <2>1 DEF Para, Sigue, ConRespuesta
    <3>2. cpu' = CpuOciosa
      BY <1>5, <2>1, <2>2, <2>4, <3>1 DEF CpuRespuesta, Pedida
    <3>3. CASE Len(aCpu) = 1 /\ Permiso = 1
      <4>1. aCpu' = <<>>
        BY <2>2, <3>3, Sacar
      <4>2. FaseLibre'
        BY <1>5, <1>9, <2>4, <3>2, <3>3, <4>1 DEF CpuRespuesta, CpuOciosa
      <4> QED BY <3>2, <4>2 DEF Dialogo, CpuOciosa
    <3>4. CASE Len(aCpu) = 2 /\ aCpu[2].op = "EJECUTAR" /\ Permiso = 0
      <4>1. Len(aCpu') = 1 /\ aCpu'[1] = aCpu[2]
        BY <2>2, <3>4
      <4>2. FaseDespacho'
        BY <1>5, <1>9, <2>4, <3>2, <3>4, <4>1 DEF CpuRespuesta, CpuOciosa
      <4> QED BY <3>2, <4>2 DEF Dialogo, CpuOciosa
    <3> QED BY <2>4, <3>3, <3>4
  <2> QED BY <2>1, <2>3, <2>4
<1> QED BY <1>1, <1>2, <1>3, <1>4, <1>5 DEF Cpu

\* The dispatcher sends EJECUTAR only when the CPU was given back.
LEMMA DialogoDespachar == DialogoInv /\ Despachar => Dialogo'
<1> SUFFICES ASSUME TypeOK, Dialogo, Despachar PROVE Dialogo'
  BY DEF DialogoInv
<1>0. /\ aCpu \in Seq(AlCpu) /\ Len(aCpu) \in Nat /\ (Len(aCpu) = 0 <=> aCpu = <<>>)
  BY Canales
<1>1. PICK i \in DOMAIN listos : aCpu' = Append(aCpu, Mensaje("EJECUTAR", listos[i]))
  BY DEF Despachar
<1>2. Mensaje("EJECUTAR", listos[i]) \in AlCpu
  BY <1>1, LenProperties, ElementOfSeq DEF AlCpu, Mensaje, TypeOK
<1>3. /\ Len(aCpu') = Len(aCpu) + 1
      /\ \A j \in 1 .. Len(aCpu) : aCpu'[j] = aCpu[j]
      /\ aCpu'[Len(aCpu) + 1].op = "EJECUTAR"
  BY <1>0, <1>1, <1>2, AppendProperties DEF Mensaje
<1>4. UNCHANGED <<aKernel, cpu, pc, atiende>> /\ Permiso = 1 /\ Permiso' = 0
  <2>1. /\ UNCHANGED <<aKernel, cpu, pc, atiende, semHabilitar>> /\ semHabilitar \in Nat
        /\ hiloExec = "elige" /\ hiloExec' = "ciclo"
    BY DEF Despachar, laCpu, semaforos, TypeOK
  <2>2. Permiso = semHabilitar + 1 /\ Permiso' = semHabilitar
    BY <2>1 DEF Permiso
  <2>3. Permiso = 0 \/ Permiso = 1
    BY DEF Dialogo
  <2> QED BY <2>1, <2>2, <2>3
<1>5. Pedida' = Pedida
  BY <1>4 DEF Pedida, Actual
<1>6. FaseLibre \/ FasePara
  BY <1>4 DEF Dialogo
<1>7. CASE FaseLibre
  <2>1. FaseDespacho'
    BY <1>0, <1>3, <1>4, <1>7
  <2> QED BY <1>4, <1>7, <2>1 DEF Dialogo
<1>8. CASE FasePara
  <2>1. Len(aCpu) = 1
    BY <1>4, <1>8
  <2>2. Len(aCpu') = 2 /\ aCpu'[1] = aCpu[1] /\ aCpu'[2].op = "EJECUTAR"
    BY <1>3, <2>1
  <2>3. aCpu'[1].op = Para[Pedida']
    BY <1>5, <1>8, <2>2
  <2>4. FasePara'
    BY <1>4, <1>8, <2>2, <2>3
  <2> QED BY <1>4, <1>5, <1>8, <2>4 DEF Dialogo
<1> QED BY <1>6, <1>7, <1>8

\* A request reaches atender_cpu: either one that the CPU waits on, or one that
\* hands the process over.
LEMMA DialogoLlega ==
    ASSUME DialogoInv, NEW op, NEW p, Llega(op, p)
    PROVE  /\ FaseEntrega \/ FasePedido
           /\ aKernel' = <<>>
           /\ FaseEntrega => op \in {OperacionDe[n] : n \in SinRespuesta}
           /\ FasePedido => op = OperacionDe[Pedida] /\ p = cpu.pid
<1>0. aKernel \in Seq(AlKernel) /\ Len(aKernel) \in Nat
  BY Canales DEF DialogoInv
<1>1. aKernel # <<>> /\ Head(aKernel) = Mensaje(op, p) /\ aKernel' = Tail(aKernel)
  BY DEF Llega
<1>2. FaseEntrega \/ FasePedido
  BY <1>1 DEF DialogoInv, Dialogo
<1>3. Head(aKernel) = aKernel[1] /\ aKernel' = <<>>
  <2>1. Tail(aKernel) \in Seq(AlKernel) /\ Len(Tail(aKernel)) = 0
    BY <1>0, <1>2, Sacar
  <2> QED BY <1>0, <1>1, <1>2, <2>1, Sacar
<1> QED BY <1>1, <1>2, <1>3 DEF EsEntrega, Mensaje

\* An answer sent to the CPU while the connection is empty is all there is in it.
LEMMA UnaRespuesta ==
    ASSUME TypeOK, aCpu = <<>>, NEW p \in Procesos, NEW op, Responder(op, p),
           op \in {"EJECUTAR", "CONTINUAR", "DETENER", "FINALIZAR", "RESULT_0",
                   "RESULT_1"}
    PROVE  Len(aCpu') = 1 /\ aCpu'[1].op = op
<1>1. Mensaje(op, p) \in AlCpu /\ aCpu \in Seq(AlCpu) /\ Len(aCpu) = 0
  BY Canales DEF Mensaje, AlCpu
<1> QED BY <1>1, AppendProperties DEF Responder, Mensaje

\* The handlers that take a process off the CPU give the semaphore back.
LEMMA DialogoSueltan ==
    ASSUME DialogoInv, NEW p \in Procesos,
           Desalojado(p) \/ EjecutarIO(p) \/ Finalizar(p)
    PROVE  Dialogo'
<1>1. PICK op \in {"DESALOJADO", "EJECUTAR_IO", "FINALIZAR", "SEG_FAULT"} : Llega(op, p)
  BY DEF Desalojado, EjecutarIO, Finalizar
<1>2. (FaseEntrega \/ FasePedido) /\ aKernel' = <<>>
      /\ (FasePedido => op = OperacionDe[Pedida])
  BY <1>1, DialogoLlega
<1>3. FaseEntrega
  BY <1>2 DEF DialogoInv, Dialogo, ConRespuesta, OperacionDe
<1>4. UNCHANGED <<cpu, aCpu>> /\ Permiso' = Permiso + 1 /\ ~Analizando'
  <2>1. /\ UNCHANGED <<cpu, aCpu, hiloExec>> /\ semHabilitar' = semHabilitar + 1
        /\ ~Analizando'
    BY <1>3 DEF Desalojado, EjecutarIO, Finalizar, laCpu, planif, PostHabilitar
  <2> QED BY <2>1, PermisoSigue DEF DialogoInv, TypeOK
<1>5. FaseLibre'
  BY <1>2, <1>3, <1>4
<1> QED BY <1>5 DEF Dialogo

\* A handler of a request that the CPU waits on answers once, with what the CPU
\* expects: to go on, or to stop, and then the semaphore is given back.
LEMMA DialogoResponde ==
    ASSUME DialogoInv, NEW p \in Procesos, NEW op, Llega(op, p),
           UNCHANGED <<cpu, pc, hiloExec>>, ~Analizando', NEW r,
           op \in {OperacionDe[n] : n \in ConRespuesta},
           r \in {"EJECUTAR", "CONTINUAR", "DETENER", "FINALIZAR", "RESULT_0",
                  "RESULT_1"},
           Responder(r, p),
           \/ r = Sigue[Pedida] /\ UNCHANGED semHabilitar
           \/ r = Para[Pedida] /\ semHabilitar' = semHabilitar + 1
    PROVE  Dialogo'
<1>1. FasePedido /\ aKernel' = <<>>
  BY DialogoLlega DEF OperacionDe, ConRespuesta, SinRespuesta
<1>2. Len(aCpu') = 1 /\ aCpu'[1].op = r
  BY <1>1, UnaRespuesta DEF DialogoInv
<1>3. Pedida' = Pedida
  BY DEF Pedida, Actual
<1>0. \/ r = Sigue[Pedida] /\ UNCHANGED Permiso
      \/ r = Para[Pedida] /\ Permiso' = Permiso + 1
  BY PermisoSigue DEF DialogoInv, TypeOK
<1>4. FaseSigue' \/ FasePara'
  BY <1>0, <1>1, <1>2, <1>3
<1> QED BY <1>1, <1>3, <1>4 DEF Dialogo, DialogoInv

\* ejecutar_wait and ejecutar_signal keep the conversation when the resource
\* exists.
LEMMA DialogoRecursos ==
    ASSUME DialogoInv, RecursosConocidos, NEW p \in Procesos,
           EjecutarWait(p) \/ EjecutarSignal(p)
    PROVE  Dialogo'
<1>1. PICK op \in {"EJECUTAR_WAIT", "EJECUTAR_SIGNAL"} :
        /\ Llega(op, p)
        /\ op = "EJECUTAR_WAIT" => EjecutarWait(p)
        /\ op = "EJECUTAR_SIGNAL" => EjecutarSignal(p)
  BY DEF EjecutarWait, EjecutarSignal
<1>2. op \in {OperacionDe[n] : n \in ConRespuesta}
  BY DEF OperacionDe, ConRespuesta
<1>3. FasePedido /\ op = OperacionDe[Pedida] /\ p = cpu.pid
  BY <1>1, <1>2, DialogoLlega DEF OperacionDe, ConRespuesta, SinRespuesta
<1>4. /\ op = "EJECUTAR_WAIT" => Pedida = "WAIT"
      /\ op = "EJECUTAR_SIGNAL" => Pedida = "SIGNAL"
  BY <1>3 DEF OperacionDe, ConRespuesta, DialogoInv, Dialogo
<1>5. Actual(p).param \in Recursos
  <2>1. pc[p] \in 1 .. Len(Programa[p])
    BY <1>3 DEF DialogoInv, Dialogo
  <2> QED BY <1>3, <1>4, <2>1, ProgramaAssumption
          DEF RecursosConocidos, Pedida, Actual, ConParametro
<1>6. UNCHANGED <<cpu, pc, hiloExec>> /\ ~Analizando'
  BY <1>3 DEF EjecutarWait, EjecutarSignal, restoRecurso, laCpu, planif
<1>7. CASE op = "EJECUTAR_WAIT"
  <2>1. EjecutarWait(p)
    BY <1>1, <1>7
  <2>2. \/ Responder("DETENER", p) /\ PostHabilitar
        \/ Responder("CONTINUAR", p) /\ UNCHANGED semHabilitar
    BY <1>5, <2>1 DEF EjecutarWait
  <2> QED BY <1>1, <1>2, <1>4, <1>6, <1>7, <2>2, DialogoResponde
          DEF Sigue, Para, PostHabilitar
<1>8. CASE op = "EJECUTAR_SIGNAL"
  <2>1. EjecutarSignal(p)
    BY <1>1, <1>8
  <2>2. Responder("RESULT_1", p) /\ UNCHANGED semHabilitar
    BY <1>5, <2>1 DEF EjecutarSignal
  <2> QED BY <1>1, <1>2, <1>4, <1>6, <1>8, <2>2, DialogoResponde DEF Sigue
<1> QED BY <1>7, <1>8

\* A transfer with the file system stops the process and frees the CPU.
LEMMA DialogoTransferir ==
    ASSUME DialogoInv, NEW p \in Procesos, Transferir(p) PROVE Dialogo'
<1>1. Llega("LEER_ARCHIVO", p) /\ Responder("DETENER", p)
      /\ semHabilitar' = semHabilitar + 1 /\ UNCHANGED <<cpu, pc, atiende, hiloExec>>
  BY DEF Transferir, PostHabilitar, laCpu, planif
<1>2. "LEER_ARCHIVO" \in {OperacionDe[n] : n \in ConRespuesta}
  BY DEF OperacionDe, ConRespuesta
<1>3. FasePedido /\ Pedida = "F_READ"
  BY <1>1, <1>2, DialogoLlega
     DEF OperacionDe, ConRespuesta, SinRespuesta, DialogoInv, Dialogo
<1> QED BY <1>1, <1>2, <1>3, DialogoResponde DEF Para

\* A request for a segment: the CPU waits while the memory is asked.
LEMMA DialogoPedir ==
    ASSUME DialogoInv, NEW p \in Procesos, PedirSegmento(p) PROVE Dialogo'
<1>1. PICK op \in {"CREAR_SEGMENTO", "ELIMINAR_SEGMENTO"} : Llega(op, p)
  BY DEF PedirSegmento
<1>2. FasePedido /\ aKernel' = <<>> /\ op = OperacionDe[Pedida] /\ p = cpu.pid
  BY <1>1, DialogoLlega DEF OperacionDe, ConRespuesta, SinRespuesta
<1>3. Pedida \in {"CREATE_SEGMENT", "DELETE_SEGMENT"}
  BY <1>2 DEF OperacionDe, ConRespuesta, DialogoInv, Dialogo
<1>4. /\ UNCHANGED <<cpu, pc, aCpu, Permiso>>
      /\ atiende' = [fase |-> "analizar", pid |-> p]
  BY DEF PedirSegmento, laCpu, semaforos, planif, Permiso
<1>5. Pedida' = Pedida
  BY <1>4 DEF Pedida, Actual
<1>6. FaseAnaliza'
  BY <1>2, <1>3, <1>4, <1>5
<1> QED BY <1>2, <1>4, <1>5, <1>6 DEF Dialogo, DialogoInv

\* The answers of the memory: atender_cpu goes on waiting, or answers the CPU.
LEMMA DialogoResultado ==
    ASSUME DialogoInv, ConversacionMemoria,
           \/ CreacionExitosa \/ RealizarCompactacion \/ Compactar \/ SinMemoria
    PROVE  Dialogo'
<1>1. /\ Analizando /\ UNCHANGED <<cpu, pc, aKernel, hiloExec>>
      /\ deMemoria # <<>>
  BY DEF CreacionExitosa, RealizarCompactacion, Compactar, SinMemoria, Resultado, laCpu,
         planif
<1>0. /\ UNCHANGED semHabilitar => UNCHANGED Permiso
      /\ semHabilitar' = semHabilitar + 1 => Permiso' = Permiso + 1
  BY <1>1, PermisoSigue DEF DialogoInv, TypeOK
<1>2. FaseAnaliza /\ atiende.pid \in Procesos
  BY <1>1 DEF DialogoInv, Dialogo, TypeOK, AtiendeLibre
<1>3. Pedida' = Pedida
  BY <1>1 DEF Pedida, Actual
<1>4. CASE RealizarCompactacion \/ Compactar
  <2>1. UNCHANGED <<aCpu, atiende, semHabilitar>>
    BY <1>4 DEF RealizarCompactacion, Compactar
  <2>2. FaseAnaliza'
    BY <1>0, <1>1, <1>2, <1>3, <2>1
  <2> QED BY <1>1, <1>3, <2>2 DEF Dialogo, DialogoInv
<1>5. CASE CreacionExitosa
  <2>1. Responder("EJECUTAR", atiende.pid) /\ UNCHANGED semHabilitar
        /\ atiende' = AtiendeLibre
    BY <1>5 DEF CreacionExitosa
  <2>2. Len(aCpu') = 1 /\ aCpu'[1].op = "EJECUTAR"
    BY <1>2, <2>1, UnaRespuesta DEF DialogoInv
  <2>3. FaseSigue'
    BY <1>0, <1>1, <1>2, <1>3, <2>1, <2>2 DEF Sigue, AtiendeLibre
  <2> QED BY <1>1, <1>3, <2>3 DEF Dialogo, DialogoInv
<1>6. CASE SinMemoria
  <2>1. /\ Responder("FINALIZAR", atiende.pid) /\ semHabilitar' = semHabilitar + 1
        /\ atiende' = AtiendeLibre /\ Head(deMemoria) = "SIN_MEMORIA"
    BY <1>6 DEF SinMemoria, PostHabilitar, Resultado
  <2>2. Len(aCpu') = 1 /\ aCpu'[1].op = "FINALIZAR"
    BY <1>2, <2>1, UnaRespuesta DEF DialogoInv
  <2>3. Pedida = "CREATE_SEGMENT"
    <3>1. deMemoria \in Seq({"CREACION_EXITOSA", "REALIZAR_COMPACTACION",
                             "COMPACTAR", "SIN_MEMORIA"})
      BY DEF DialogoInv, TypeOK
    <3>2. Len(deMemoria) = 1 /\ deMemoria[1] = "SIN_MEMORIA"
      BY <1>1, <2>1, <3>1, Sacar DEF ConversacionMemoria
    <3>3. Actual(atiende.pid).nombre # "DELETE_SEGMENT"
      BY <1>1, <3>2 DEF ConversacionMemoria
    <3> QED BY <1>2, <3>3 DEF Pedida
  <2>4. FasePara'
    BY <1>0, <1>1, <1>2, <1>3, <2>1, <2>2, <2>3 DEF Para, AtiendeLibre
  <2> QED BY <1>1, <1>3, <2>4 DEF Dialogo, DialogoInv
<1> QED BY <1>4, <1>5, <1>6

-------------------------------------------------------------------------------
(* The connection with the memory.                                           *)

RespuestasMemoria == {"CREACION_EXITOSA", "REALIZAR_COMPACTACION", "COMPACTAR",
                      "SIN_MEMORIA"}

\* The two directions of the connection with the memory in every state.
LEMMA CanalesMemoria ==
    ASSUME TypeOK
    PROVE  /\ Len(aMemoria) \in Nat /\ aMemoria \in Seq(AMemoria)
           /\ Len(deMemoria) \in Nat /\ deMemoria \in Seq(RespuestasMemoria)
           /\ (Len(deMemoria) = 0 <=> deMemoria = <<>>)
BY Sacar DEF TypeOK, RespuestasMemoria

\* A request sent while only notices are under way is the last of them.
LEMMA PedidoAlFinal ==
    ASSUME TypeOK, \A i \in 1 .. Len(aMemoria) : Libera(aMemoria[i]),
           NEW m \in AMemoria, aMemoria' = Append(aMemoria, m)
    PROVE  /\ Len(aMemoria') = Len(aMemoria) + 1
           /\ aMemoria'[Len(aMemoria')] = m
           /\ \A i \in 1 .. Len(aMemoria') - 1 : Libera(aMemoria'[i])
           /\ \A i \in 1 .. Len(aMemoria) : aMemoria'[i] = aMemoria[i]
           /\ Libera(m) => \A i \in 1 .. Len(aMemoria') : Libera(aMemoria'[i])
<1>1. /\ Len(aMemoria) \in Nat
      /\ Len(aMemoria') = Len(aMemoria) + 1
      /\ aMemoria'[Len(aMemoria) + 1] = m
      /\ \A i \in 1 .. Len(aMemoria) : aMemoria'[i] = aMemoria[i]
  BY CanalesMemoria, AppendProperties
<1>2. \A i \in 1 .. Len(aMemoria') - 1 : Libera(aMemoria'[i])
  BY <1>1 DEF Libera
<1> QED BY <1>1, <1>2

\* The memory takes the requests in order and answers the last one.
LEMMA ConversacionPaso ==
    ASSUME TypeOK, ConversacionMemoria, Memoria PROVE ConversacionMemoria'
<1> DEFINE m == Head(aMemoria)
<1>1. /\ Len(aMemoria) \in Nat \ {0} /\ m = aMemoria[1]
      /\ Len(aMemoria') = Len(aMemoria) - 1
      /\ \A i \in 1 .. Len(aMemoria) - 1 : aMemoria'[i] = aMemoria[i + 1]
  BY CanalesMemoria, Sacar DEF Memoria
<1>2. UNCHANGED <<atiende, pc>>
  BY DEF Memoria, laCpu
<1>3. \A i \in 1 .. Len(aMemoria') - 1 : Libera(aMemoria'[i])
  BY <1>1 DEF ConversacionMemoria, Libera
<1>4. UNCHANGED Actual(atiende.pid)
  BY <1>2 DEF Actual
<1>5. CASE Libera(m)
  <2>1. deMemoria' = deMemoria
    BY <1>5 DEF Memoria, Libera
  <2>2. CASE \A i \in 1 .. Len(aMemoria) : Libera(aMemoria[i])
    <3>1. \A i \in 1 .. Len(aMemoria') : Libera(aMemoria'[i])
      BY <1>1, <2>2 DEF Libera
    <3> QED BY <1>1, <1>2, <1>3, <1>4, <2>1, <2>2, <3>1 DEF ConversacionMemoria
  <2>3. CASE ~\A i \in 1 .. Len(aMemoria) : Libera(aMemoria[i])
    <3>1. Len(aMemoria) > 1
      BY <1>1, <1>5, <2>3
    <3>2. aMemoria'[Len(aMemoria')] = aMemoria[Len(aMemoria)] /\ Len(aMemoria') > 0
      BY <1>1, <3>1
    <3>3. atiende.fase = "analizar" /\ deMemoria = <<>>
      BY <2>3 DEF ConversacionMemoria
    <3> QED BY <1>2, <1>3, <1>4, <2>1, <2>3, <3>2, <3>3 DEF ConversacionMemoria
  <2> QED BY <2>2, <2>3
<1>6. CASE ~Libera(m)
  <2>1. Len(aMemoria) = 1 /\ atiende.fase = "analizar" /\ deMemoria = <<>>
    BY <1>1, <1>6 DEF ConversacionMemoria
  <2>2. m.op = "ELIMINAR_SEGMENTO" <=> Actual(atiende.pid).nombre = "DELETE_SEGMENT"
    BY <1>1, <1>6, <2>1 DEF ConversacionMemoria
  <2>3. PICK r \in RespuestasMemoria :
            /\ deMemoria' = Append(deMemoria, r)
            /\ m.op = "ELIMINAR_SEGMENTO" => r = "CREACION_EXITOSA"
    BY <1>6 DEF Memoria, Libera, RespuestasMemoria
  <2>4. Len(deMemoria') = 1 /\ deMemoria'[1] = r
    BY <2>1, <2>3, CanalesMemoria, AppendProperties
  <2>5. \A i \in 1 .. Len(aMemoria') : Libera(aMemoria'[i])
    BY <1>1, <2>1
  <2> QED BY <1>2, <1>3, <1>4, <2>1, <2>2, <2>3, <2>4, <2>5 DEF ConversacionMemoria
<1> QED BY <1>5, <1>6

\* What atender_cpu sends to the memory, and when.
LEMMA ConversacionAtender ==
    ASSUME DialogoInv, ConversacionMemoria,
           \/ \E p \in Procesos : PedirSegmento(p) \/ Finalizar(p)
           \/ Notificar \/ CreacionExitosa \/ RealizarCompactacion
           \/ Compactar \/ SinMemoria
    PROVE  ConversacionMemoria'
<1>0. TypeOK
  BY DEF DialogoInv
<1>1. ASSUME NEW p \in Procesos, PedirSegmento(p) PROVE ConversacionMemoria'
  <2>1. PICK op \in {"CREAR_SEGMENTO", "ELIMINAR_SEGMENTO"} :
            Llega(op, p) /\ aMemoria' = Append(aMemoria, Mensaje(op, p))
    BY <1>1 DEF PedirSegmento
  <2>2. FasePedido /\ op = OperacionDe[Pedida] /\ p = cpu.pid /\ Pedida \in ConRespuesta
    BY <2>1, DialogoLlega DEF OperacionDe, ConRespuesta, SinRespuesta, DialogoInv, Dialogo
  <2>3. Mensaje(op, p) \in AMemoria /\ ~Libera(Mensaje(op, p))
    BY DEF AMemoria, Mensaje, Libera
  <2>4. \A i \in 1 .. Len(aMemoria) : Libera(aMemoria[i])
    BY <2>2 DEF ConversacionMemoria
  <2>5. /\ Len(aMemoria') = Len(aMemoria) + 1 /\ aMemoria'[Len(aMemoria')] = Mensaje(op, p)
        /\ \A i \in 1 .. Len(aMemoria') - 1 : Libera(aMemoria'[i])
    BY <1>0, <2>1, <2>3, <2>4, PedidoAlFinal
  <2>6. /\ UNCHANGED <<deMemoria, pc, cpu>> /\ deMemoria = <<>>
        /\ atiende' = [fase |-> "analizar", pid |-> p]
    BY <1>1, <2>2 DEF PedirSegmento, laCpu, ConversacionMemoria
  <2>7. op = "ELIMINAR_SEGMENTO" <=> Actual(p)'.nombre = "DELETE_SEGMENT"
    BY <2>2, <2>6 DEF OperacionDe, ConRespuesta, Pedida, Actual
  <2> QED BY <1>0, <2>3, <2>5, <2>6, <2>7, CanalesMemoria DEF ConversacionMemoria, Mensaje
<1>2. ASSUME NEW p \in Procesos, Finalizar(p) PROVE ConversacionMemoria'
  BY <1>2 DEF Finalizar, Llega, AtiendeLibre, memoria, ConversacionMemoria
<1>3. CASE Notificar
  <2>1. atiende.pid \in Procesos /\ EliminarProceso(atiende.pid)
    BY <1>0, <1>3 DEF Notificar, TypeOK, AtiendeLibre
  <2>2. Mensaje("FINALIZAR", atiende.pid) \in AMemoria
        /\ Libera(Mensaje("FINALIZAR", atiende.pid))
    BY <2>1 DEF AMemoria, Mensaje, Libera
  <2>3. /\ \A i \in 1 .. Len(aMemoria) : Libera(aMemoria[i])
        /\ deMemoria = <<>> /\ UNCHANGED deMemoria /\ atiende' = AtiendeLibre
    BY <1>3 DEF Notificar, ConversacionMemoria
  <2>4. /\ \A i \in 1 .. Len(aMemoria') : Libera(aMemoria'[i])
        /\ \A i \in 1 .. Len(aMemoria') - 1 : Libera(aMemoria'[i])
    BY <1>0, <2>1, <2>2, <2>3, PedidoAlFinal DEF EliminarProceso
  <2> QED BY <2>3, <2>4 DEF ConversacionMemoria, AtiendeLibre
<1>4. ASSUME NEW op, Resultado(op)
      PROVE  /\ atiende.fase = "analizar" /\ deMemoria[1] = op /\ deMemoria' = <<>>
             /\ \A i \in 1 .. Len(aMemoria) : Libera(aMemoria[i])
             /\ op # "CREACION_EXITOSA" => Actual(atiende.pid).nombre # "DELETE_SEGMENT"
             /\ atiende.pid \in Procesos /\ UNCHANGED pc
  <2>1. /\ atiende.fase = "analizar" /\ deMemoria # <<>> /\ Head(deMemoria) = op
        /\ deMemoria' = Tail(deMemoria) /\ UNCHANGED pc
    BY <1>4 DEF Resultado, laCpu
  <2>2. Len(deMemoria) = 1 /\ deMemoria[1] = op
    BY <1>0, <2>1, CanalesMemoria, Sacar DEF ConversacionMemoria
  <2>3. Tail(deMemoria) \in Seq(RespuestasMemoria) /\ Len(Tail(deMemoria)) = 0
    BY <1>0, <2>2, CanalesMemoria, Sacar
  <2>4. deMemoria' = <<>>
    BY <2>1, <2>3, EmptySeq
  <2>5. atiende.pid \in Procesos
    BY <1>0, <2>1 DEF TypeOK, AtiendeLibre
  <2> QED BY <2>1, <2>2, <2>4, <2>5 DEF ConversacionMemoria
<1>5. CASE CreacionExitosa
  <2>1. Resultado("CREACION_EXITOSA") /\ atiende' = AtiendeLibre /\ UNCHANGED aMemoria
    BY <1>5 DEF CreacionExitosa
  <2>2. /\ \A i \in 1 .. Len(aMemoria) : Libera(aMemoria[i])
        /\ deMemoria' = <<>>
    BY <1>4, <2>1
  <2> QED BY <2>1, <2>2 DEF ConversacionMemoria, AtiendeLibre
<1>6. CASE RealizarCompactacion
  <2> DEFINE m == Mensaje("REALIZAR_COMPACTACION", Nadie)
  <2>1. Resultado("REALIZAR_COMPACTACION") /\ UNCHANGED atiende
        /\ aMemoria' = Append(aMemoria, m)
    BY <1>6 DEF RealizarCompactacion
  <2>2. m \in AMemoria /\ ~Libera(m) /\ m.op # "ELIMINAR_SEGMENTO"
    BY DEF AMemoria, Mensaje, Libera
  <2>3. /\ Len(aMemoria') = Len(aMemoria) + 1 /\ aMemoria'[Len(aMemoria')] = m
        /\ \A i \in 1 .. Len(aMemoria') - 1 : Libera(aMemoria'[i])
    BY <1>0, <1>4, <2>1, <2>2, PedidoAlFinal
  <2>4. UNCHANGED Actual(atiende.pid)
    BY <1>4, <2>1 DEF Actual
  <2> HIDE DEF m
  <2> QED BY <1>0, <1>4, <2>1, <2>2, <2>3, <2>4, CanalesMemoria DEF ConversacionMemoria
<1>7. CASE Compactar
  <2> DEFINE m == Mensaje("CREAR_SEGMENTO", atiende.pid)
  <2>1. Resultado("COMPACTAR") /\ UNCHANGED atiende
        /\ aMemoria' = Append(aMemoria, m)
    BY <1>7 DEF Compactar
  <2>2. m \in AMemoria /\ ~Libera(m) /\ m.op # "ELIMINAR_SEGMENTO"
    BY <1>4, <2>1 DEF AMemoria, Mensaje, Libera
  <2>3. /\ Len(aMemoria') = Len(aMemoria) + 1 /\ aMemoria'[Len(aMemoria')] = m
        /\ \A i \in 1 .. Len(aMemoria') - 1 : Libera(aMemoria'[i])
    BY <1>0, <1>4, <2>1, <2>2, PedidoAlFinal
  <2>4. UNCHANGED Actual(atiende.pid)
    BY <1>4, <2>1 DEF Actual
  <2> HIDE DEF m
  <2> QED BY <1>0, <1>4, <2>1, <2>2, <2>3, <2>4, CanalesMemoria DEF ConversacionMemoria
<1>8. CASE SinMemoria
  <2>1. Resultado("SIN_MEMORIA") /\ atiende' = AtiendeLibre
        /\ EliminarProceso(atiende.pid)
    BY <1>8 DEF SinMemoria
  <2>2. Mensaje("FINALIZAR", atiende.pid) \in AMemoria
        /\ Libera(Mensaje("FINALIZAR", atiende.pid))
    BY <1>4, <2>1 DEF AMemoria, Mensaje, Libera
  <2>3. /\ \A i \in 1 .. Len(aMemoria') : Libera(aMemoria'[i])
        /\ \A i \in 1 .. Len(aMemoria') - 1 : Libera(aMemoria'[i])
    BY <1>0, <1>4, <2>1, <2>2, PedidoAlFinal DEF EliminarProceso
  <2> QED BY <1>4, <2>1, <2>3 DEF ConversacionMemoria, AtiendeLibre
<1> QED BY <1>1, <1>2, <1>3, <1>5, <1>6, <1>7, <1>8

-------------------------------------------------------------------------------
(* The other threads, and the two conversations together.                    *)

\* The steps of threads that take no part in a conversation.
OtrosHilos ==
    \/ DeConsolas \/ HiloNew \/ ExecDespierta \/ ExecDuerme \/ TomarCpu
    \/ \E p \in Procesos : TerminarIO(p)
    \/ \E r \in Recursos : IniciarRecurso(r)
    \/ Desbloqueado \/ FileSystem

\* They touch neither the CPU and its connection, nor the connection with the
\* memory, and leave the permission to use the CPU with the semaphore or with the
\* dispatcher.
LEMMA OtrosNoTocan ==
    ASSUME TypeOK, OtrosHilos \/ UNCHANGED vars
    PROVE  UNCHANGED <<cpu, pc, aCpu, aKernel, atiende, Permiso, aMemoria,
                       deMemoria>>
<1> USE DEF laCpu, semaforos, planif, memoria, Permiso
<1>1. CASE UNCHANGED vars
  BY <1>1 DEF vars
<1>2. ASSUME NEW p \in Procesos, Conectar(p) \/ TerminarIO(p)
      PROVE  UNCHANGED <<cpu, pc, aCpu, aKernel, atiende, Permiso, aMemoria,
                         deMemoria>>
  BY <1>2 DEF Conectar, TerminarIO
<1>3. CASE HiloNew \/ ExecDespierta \/ ExecDuerme
  BY <1>3 DEF HiloNew, NewDespierta, NewDuerme, Admitir, ExecDespierta, ExecDuerme
<1>6. CASE TomarCpu
  BY <1>6 DEF TomarCpu, WaitHabilitar, TypeOK
<1>4. ASSUME NEW r \in Recursos, IniciarRecurso(r)
      PROVE  UNCHANGED <<cpu, pc, aCpu, aKernel, atiende, Permiso, aMemoria,
                         deMemoria>>
  BY <1>4 DEF IniciarRecurso, RecursoDespierta, RecursoSaca
<1>5. CASE Desbloqueado \/ FileSystem
  BY <1>5 DEF Desbloqueado, FileSystem
<1> QED BY <1>1, <1>2, <1>3, <1>4, <1>5, <1>6 DEF OtrosHilos, DeConsolas

\* A step that leaves the CPU and its connection alone, and atender_cpu in or
\* out of analizar_resultado, leaves the phase of the conversation as it was.
LEMMA DialogoAjeno ==
    ASSUME Dialogo, UNCHANGED <<cpu, pc, aCpu, aKernel, Permiso>>,
           \/ UNCHANGED atiende
           \/ ~Analizando /\ ~Analizando'
    PROVE  Dialogo'
<1>1. Pedida' = Pedida /\ EsEntrega(1)' = EsEntrega(1)
  BY DEF Pedida, Actual, EsEntrega
<1>2. Analizando' = Analizando
  OBVIOUS
<1>3. FaseAnaliza => atiende'.pid = atiende.pid
  OBVIOUS
<1> QED BY <1>1, <1>2, <1>3 DEF Dialogo

\* The same for the connection with the memory.
LEMMA ConversacionAjena ==
    ASSUME ConversacionMemoria, UNCHANGED <<aMemoria, deMemoria>>,
           \/ UNCHANGED <<atiende, pc>>
           \/ ~Analizando /\ ~Analizando'
    PROVE  ConversacionMemoria'
<1>1. \A i \in 1 .. Len(aMemoria) : Libera(aMemoria[i])' = Libera(aMemoria[i])
  BY DEF Libera
<1>2. CASE UNCHANGED <<atiende, pc>>
  <2>1. UNCHANGED Actual(atiende.pid)
    BY <1>2 DEF Actual
  <2> QED BY <1>1, <1>2, <2>1 DEF ConversacionMemoria, Libera
<1>3. CASE ~Analizando /\ ~Analizando'
  BY <1>1, <1>3 DEF ConversacionMemoria, Libera
<1> QED BY <1>2, <1>3

ConversacionesInv == TypeOK /\ Dialogo /\ ConversacionMemoria

\* While atender_cpu waits for the memory the CPU waits for atender_cpu.
LEMMA CpuEspera ==
    ASSUME ConversacionesInv, Cpu PROVE ~Analizando /\ ~Analizando'
<1>1. UNCHANGED atiende
  BY DEF Cpu, CpuRecibe, CpuLocal, CpuConsulta, CpuEntrega, CpuRespuesta, restoCpu
<1>2. ~Analizando
  <2> SUFFICES ASSUME Analizando PROVE FALSE
    OBVIOUS
  <2>1. cpu.estado = "esperando" /\ aCpu = <<>>
    BY DEF ConversacionesInv, Dialogo
  <2> QED BY <2>1 DEF Cpu, CpuRecibe, CpuLocal, CpuConsulta, CpuEntrega,
                      CpuRespuesta, Corriendo
<1> QED BY <1>1, <1>2

\* Every step keeps both conversations.
LEMMA ConversacionesPaso ==
    RecursosConocidos /\ ConversacionesInv /\ [Next]_vars
        => Dialogo' /\ ConversacionMemoria'
<1> SUFFICES ASSUME RecursosConocidos, ConversacionesInv, [Next]_vars
             PROVE  Dialogo' /\ ConversacionMemoria'
  OBVIOUS
<1>0. TypeOK /\ Dialogo /\ ConversacionMemoria /\ DialogoInv
  BY DEF ConversacionesInv, DialogoInv
<1>1. CASE OtrosHilos \/ UNCHANGED vars
  BY <1>0, <1>1, OtrosNoTocan, DialogoAjeno, ConversacionAjena
<1>2. CASE Cpu
  <2>1. UNCHANGED <<aMemoria, deMemoria>>
    BY <1>2 DEF Cpu, CpuRecibe, CpuLocal, CpuConsulta, CpuEntrega, CpuRespuesta,
                restoCpu, memoria
  <2>2. ConversacionMemoria'
    BY <1>0, <1>2, <2>1, CpuEspera, ConversacionAjena
  <2> QED BY <1>0, <1>2, <2>2, DialogoCpuPaso
<1>3. CASE Despachar
  <2>1. UNCHANGED <<aMemoria, deMemoria, atiende, pc>>
    BY <1>3 DEF Despachar, memoria, laCpu
  <2> QED BY <1>0, <1>3, <2>1, DialogoDespachar, ConversacionAjena
<1>4. ASSUME NEW p \in Procesos,
             \/ Desalojado(p) \/ EjecutarIO(p) \/ Finalizar(p)
             \/ EjecutarWait(p) \/ EjecutarSignal(p) \/ Transferir(p)
      PROVE  Dialogo' /\ ConversacionMemoria'
  <2>1. UNCHANGED <<aMemoria, deMemoria>>
    BY <1>4 DEF Desalojado, EjecutarIO, Finalizar, EjecutarWait, EjecutarSignal,
                Transferir, restoRecurso, memoria
  <2>2. ~Analizando /\ ~Analizando'
    BY <1>4 DEF Desalojado, EjecutarIO, Finalizar, EjecutarWait, EjecutarSignal,
                Transferir, restoRecurso, Llega, AtiendeLibre
  <2>3. ConversacionMemoria'
    BY <1>0, <2>1, <2>2, ConversacionAjena
  <2> QED BY <1>0, <1>4, <2>3, DialogoSueltan, DialogoRecursos, DialogoTransferir
<1>5. ASSUME NEW p \in Procesos, PedirSegmento(p)
      PROVE  Dialogo' /\ ConversacionMemoria'
  BY <1>0, <1>5, DialogoPedir, ConversacionAtender
<1>6. CASE Notificar
  <2>1. UNCHANGED <<cpu, pc, aCpu, aKernel, Permiso>> /\ ~Analizando /\ ~Analizando'
    BY <1>6 DEF Notificar, laCpu, semaforos, planif, Permiso, AtiendeLibre
  <2> QED BY <1>0, <1>6, <2>1, DialogoAjeno, ConversacionAtender
<1>7. CASE CreacionExitosa \/ RealizarCompactacion \/ Compactar \/ SinMemoria
  BY <1>0, <1>7, DialogoResultado, ConversacionAtender
<1>8. CASE Memoria
  <2>1. UNCHANGED <<cpu, pc, aCpu, aKernel, Permiso, atiende>>
    BY <1>8 DEF Memoria, laCpu, semaforos, planif, Permiso
  <2> QED BY <1>0, <1>8, <2>1, DialogoAjeno, ConversacionPaso
<1> QED BY <1>1, <1>2, <1>3, <1>4, <1>5, <1>6, <1>7, <1>8
        DEF Next, OtrosHilos, HiloExec, AtenderCpu

\* In each phase the CPU, sem_habilitar_exec and the two directions of the
\* connection hold one right to run between them.
LEMMA UnDerecho == TypeOK /\ Dialogo => DialogoCpu
<1> SUFFICES ASSUME TypeOK, Dialogo PROVE DialogoCpu
  OBVIOUS
<1> DEFINE D == {i \in DOMAIN aCpu : EsDespacho(i)}
           E == {i \in DOMAIN aKernel : EsEntrega(i)}
<1>1. /\ DOMAIN aCpu = 1 .. Len(aCpu) /\ DOMAIN aKernel = 1 .. Len(aKernel)
      /\ Len(aCpu) \in Nat /\ (Len(aCpu) = 0 <=> aCpu = <<>>)
      /\ Len(aKernel) \in Nat /\ (Len(aKernel) = 0 <=> aKernel = <<>>)
      /\ aCpu \in Seq(AlCpu)
  BY Canales, LenProperties
<1>2. /\ Cardinality({}) = 0 /\ Cardinality({1}) = 1 /\ Cardinality({2}) = 1
  BY FS_EmptySet, FS_Singleton
<1> DEFINE nD == Cardinality(D)
           nE == Cardinality(E)
<1>0. ASSUME cpu.estado # "desincronizada",
              Permiso + nD + nE
                + (IF cpu.estado # "ociosa" /\ ~Parando THEN 1 ELSE 0) = 1
       PROVE  DialogoCpu
  BY <1>0 DEF DialogoCpu
<1>3. CASE FaseLibre
  <2>1. D = {} /\ E = {}
    BY <1>1, <1>3
  <2>3. nD = 0 /\ nE = 0
    BY <1>2, <2>1
  <2> HIDE DEF nD, nE
  <2> QED BY <1>3, <1>0, <2>3
<1>4. CASE FaseDespacho
  <2>1. D = {1} /\ E = {}
    BY <1>1, <1>4 DEF EsDespacho
  <2>3. nD = 1 /\ nE = 0
    BY <1>2, <2>1
  <2> HIDE DEF nD, nE
  <2> QED BY <1>4, <1>0, <2>3
<1>5. CASE FaseEntrega
  <2>1. D = {} /\ E = {1}
    BY <1>1, <1>5
  <2>3. nD = 0 /\ nE = 1
    BY <1>2, <2>1
  <2> HIDE DEF nD, nE
  <2> QED BY <1>5, <1>0, <2>3
<1>6. CASE FaseCorre
  <2>1. D = {} /\ E = {} /\ ~Parando
    BY <1>1, <1>6 DEF Parando
  <2>3. nD = 0 /\ nE = 0
    BY <1>2, <2>1
  <2> HIDE DEF nD, nE
  <2> QED BY <1>6, <1>0, <2>1, <2>3
<1>7. CASE FasePedido
  <2>1. ~EsEntrega(1)
    BY <1>7 DEF EsEntrega, Mensaje, OperacionDe, SinRespuesta, ConRespuesta, Dialogo
  <2>2. D = {} /\ E = {} /\ ~Parando
    BY <1>1, <1>7, <2>1 DEF Parando
  <2>3. nD = 0 /\ nE = 0
    BY <1>2, <2>2
  <2> HIDE DEF nD, nE
  <2> QED BY <1>7, <1>0, <2>2, <2>3
<1>8. CASE FaseAnaliza
  <2>1. D = {} /\ E = {} /\ ~Parando
    BY <1>1, <1>8 DEF Parando
  <2>3. nD = 0 /\ nE = 0
    BY <1>2, <2>1
  <2> HIDE DEF nD, nE
  <2> QED BY <1>8, <1>0, <2>1, <2>3
<1>9. CASE FaseSigue
  <2>1. Para[Pedida] # Sigue[Pedida]
    BY <1>9 DEF Para, Sigue, ConRespuesta, Dialogo
  <2>2. Head(aCpu) = aCpu[1]
    BY <1>1, <1>9, Sacar
  <2>3. D = {} /\ E = {} /\ ~Parando
    BY <1>1, <1>9, <2>1, <2>2 DEF Parando, EsDespacho, Pedida
  <2>4. nD = 0 /\ nE = 0
    BY <1>2, <2>3
  <2> HIDE DEF nD, nE
  <2> QED BY <1>9, <1>0, <2>3, <2>4
<1>10. CASE FasePara
  <2>1. Head(aCpu) = aCpu[1] /\ aCpu # <<>> /\ Parando
    BY <1>1, <1>10, Sacar DEF Parando, Pedida
  <2>2. E = {}
    BY <1>1, <1>10
  <2>3. CASE Len(aCpu) = 1 /\ Permiso = 1
    <3>1. D = {}
      BY <1>1, <1>10, <2>3 DEF EsDespacho
    <3>2. nD = 0 /\ nE = 0
      BY <1>2, <2>2, <3>1
    <3> HIDE DEF nD, nE
    <3> QED BY <1>10, <1>0, <2>1, <2>3, <3>2
  <2>4. CASE Len(aCpu) = 2 /\ aCpu[2].op = "EJECUTAR" /\ Permiso = 0
    <3>1. D = {2}
      BY <1>1, <1>10, <2>4 DEF EsDespacho
    <3>2. nD = 1 /\ nE = 0
      BY <1>2, <2>2, <3>1
    <3> HIDE DEF nD, nE
    <3> QED BY <1>10, <1>0, <2>1, <2>4, <3>2
  <2> QED BY <1>10, <2>3, <2>4
<1> QED BY <1>3, <1>4, <1>5, <1>6, <1>7, <1>8, <1>9, <1>10 DEF Dialogo

\* Both conversations begin with nothing said.
LEMMA ConversacionesIniciales == Init => Dialogo /\ ConversacionMemoria
<1> SUFFICES ASSUME Init PROVE Dialogo /\ ConversacionMemoria
  OBVIOUS
<1>1. Dialogo
  BY DEF Init, CpuOciosa, AtiendeLibre, Dialogo, Permiso
<1>2. Len(aMemoria) = 0 /\ atiende.fase # "analizar" /\ deMemoria = <<>>
  BY EmptySeq DEF Init, AtiendeLibre
<1> QED BY <1>1, <1>2 DEF ConversacionMemoria

\* The inductive invariant of both conversations.
LEMMA ConversacionesSiempre == RecursosConocidos => (Spec => []ConversacionesInv)
<1> SUFFICES ASSUME RecursosConocidos PROVE Spec => []ConversacionesInv
  OBVIOUS
<1>1. TypeOK /\ Dialogo /\ ConversacionMemoria /\ [Next]_vars
          => Dialogo' /\ ConversacionMemoria'
  BY ConversacionesPaso DEF ConversacionesInv
<1> QED BY <1>1, ConversacionesIniciales, TipoCorrecto, PTL DEF Spec, ConversacionesInv

\* The CPU and atender_cpu never fall out of step, and there is one right to run:
\* when every WAIT and SIGNAL names a resource of the configuration, whatever
\* the processes, the programs, the memory and the file system do.
THEOREM DialogoCorrecto == RecursosConocidos => (Spec => []DialogoCpu)
<1> SUFFICES ASSUME RecursosConocidos PROVE Spec => []DialogoCpu
  OBVIOUS
<1>1. ConversacionesInv => DialogoCpu
  BY UnDerecho DEF ConversacionesInv
<1> QED BY <1>1, ConversacionesSiempre, PTL

-----------------------------------------------------------------------------
(* mutex_compresion: the compaction of the memory and the transfers of the    *)
(* file system exclude each other, for any number of processes and resources. *)

\* The elements of a list.
Elementos(s) == {s[i] : i \in DOMAIN s}

LEMMA ElementosDeAppend ==
    ASSUME NEW S, NEW s \in Seq(S), NEW x \in S
    PROVE  /\ Elementos(Append(s, x)) = Elementos(s) \union {x}
           /\ Len(Append(s, x)) = Len(s) + 1
<1>1. /\ Len(s) \in Nat /\ DOMAIN s = 1 .. Len(s)
      /\ Append(s, x) \in Seq(S) /\ Len(Append(s, x)) = Len(s) + 1
      /\ \A i \in 1 .. Len(s) : Append(s, x)[i] = s[i]
      /\ Append(s, x)[Len(s) + 1] = x
  BY LenProperties, AppendProperties
<1>2. DOMAIN Append(s, x) = (1 .. Len(s)) \union {Len(s) + 1}
  BY <1>1, LenProperties
<1> QED BY <1>1, <1>2 DEF Elementos

LEMMA ElementosDeTail ==
    ASSUME NEW S, NEW s \in Seq(S), s # <<>>
    PROVE  /\ Elementos(s) = {Head(s)} \union Elementos(Tail(s))
           /\ Len(s) \in Nat \ {0} /\ Len(Tail(s)) = Len(s) - 1
<1>1. /\ Len(s) \in Nat \ {0} /\ DOMAIN s = 1 .. Len(s)
      /\ Head(s) = s[1]
      /\ Tail(s) \in Seq(S) /\ Len(Tail(s)) = Len(s) - 1
      /\ \A i \in 1 .. Len(s) - 1 : Tail(s)[i] = s[i + 1]
  BY Sacar, LenProperties
<1>2. DOMAIN Tail(s) = 1 .. Len(s) - 1
  BY <1>1, LenProperties
<1>3. \A i \in 2 .. Len(s) : i - 1 \in 1 .. Len(s) - 1 /\ s[i] = Tail(s)[i - 1]
  BY <1>1
<1>4. ASSUME NEW i \in DOMAIN s PROVE s[i] \in {Head(s)} \union Elementos(Tail(s))
  <2>1. CASE i = 1
    BY <1>1, <2>1
  <2>2. CASE i # 1
    <3>1. i \in 2 .. Len(s)
      BY <1>1, <2>2
    <3> QED BY <1>2, <1>3, <3>1 DEF Elementos
  <2> QED BY <2>1, <2>2
<1>5. {Head(s)} \union Elementos(Tail(s)) \subseteq Elementos(s)
  BY <1>1, <1>2 DEF Elementos
<1> QED BY <1>1, <1>4, <1>5 DEF Elementos

\* The request of a compaction, the only one with its opcode.
Orden == Mensaje("REALIZAR_COMPACTACION", Nadie)

\* A compaction is under way while its request or its answer is in the
\* connection with the memory.
LEMMA OrdenOAviso ==
    ASSUME NEW a \in Seq(AMemoria), NEW d \in Seq(RespuestasMemoria)
    PROVE  (\/ \E i \in DOMAIN a : a[i].op = "REALIZAR_COMPACTACION"
            \/ \E i \in DOMAIN d : d[i] = "COMPACTAR")
             <=> Orden \in Elementos(a) \/ "COMPACTAR" \in Elementos(d)
<1>1. \A i \in DOMAIN a : a[i] \in AMemoria
  BY LenProperties, ElementOfSeq
<1>2. \A m \in AMemoria : m.op = "REALIZAR_COMPACTACION" <=> m = Orden
  BY DEF AMemoria, Mensaje, Orden
<1> QED BY <1>1, <1>2 DEF Elementos

\* What is said of the state before and after a step.
LEMMA CompactandoSiempre ==
    ASSUME TypeOK, TypeOK'
    PROVE  /\ Compactando <=>
                Orden \in Elementos(aMemoria) \/ "COMPACTAR" \in Elementos(deMemoria)
           /\ Compactando' <=>
                Orden \in Elementos(aMemoria') \/ "COMPACTAR" \in Elementos(deMemoria')
<1>1. /\ aMemoria \in Seq(AMemoria) /\ deMemoria \in Seq(RespuestasMemoria)
      /\ aMemoria' \in Seq(AMemoria) /\ deMemoria' \in Seq(RespuestasMemoria)
  BY DEF TypeOK, RespuestasMemoria
<1> QED BY <1>1, OrdenOAviso DEF Compactando

\* While atender_cpu reads an answer that is not the end of a compaction, no
\* compaction is under way.
LEMMA UnaConversacion ==
    ASSUME TypeOK, ConversacionMemoria, NEW op, Resultado(op)
    PROVE  /\ Elementos(deMemoria) = {op} /\ Elementos(deMemoria') = {}
           /\ Orden \notin Elementos(aMemoria)
<1>1. /\ atiende.fase = "analizar" /\ deMemoria # <<>> /\ Head(deMemoria) = op
      /\ deMemoria' = Tail(deMemoria)
  BY DEF Resultado
<1>2. Len(deMemoria) = 1 /\ \A i \in 1 .. Len(aMemoria) : Libera(aMemoria[i])
  BY <1>1, CanalesMemoria DEF ConversacionMemoria
<1>3. DOMAIN aMemoria = 1 .. Len(aMemoria) /\ deMemoria \in Seq(RespuestasMemoria)
  BY CanalesMemoria, LenProperties
<1>4. /\ Elementos(deMemoria) = {op} \union Elementos(deMemoria')
      /\ Len(deMemoria') = 0 /\ deMemoria' \in Seq(RespuestasMemoria)
  BY <1>1, <1>2, <1>3, ElementosDeTail, Sacar
<1>5. Elementos(deMemoria') = {}
  BY <1>4, LenProperties DEF Elementos
<1>6. ~Libera(Orden)
  BY DEF Libera, Orden, Mensaje
<1> QED BY <1>2, <1>3, <1>4, <1>5, <1>6 DEF Elementos

\* The steps that neither take nor give back the mutex, nor touch the transfers,
\* neither start nor end a compaction.
LEMMA MismoTurno ==
    ASSUME CompactacionExclusiva, UNCHANGED <<mutexCompresion, aFs, deFs>>,
           Compactando' <=> Compactando
    PROVE  CompactacionExclusiva'
BY DEF CompactacionExclusiva

\* A request other than a compaction, sent while no answer is read.
LEMMA OtroPedido ==
    ASSUME TypeOK, TypeOK', NEW m \in AMemoria, m # Orden,
           aMemoria' = Append(aMemoria, m), UNCHANGED deMemoria
    PROVE  Compactando' <=> Compactando
<1>1. Elementos(aMemoria') = Elementos(aMemoria) \union {m}
  BY CanalesMemoria, ElementosDeAppend
<1> QED BY <1>1, CompactandoSiempre

\* The memory turns the request of a compaction into its answer.
LEMMA MemoriaCompacta ==
    ASSUME TypeOK, TypeOK', Memoria
    PROVE  Compactando' <=> Compactando
<1> DEFINE m == Head(aMemoria)
<1>1. Elementos(aMemoria) = {m} \union Elementos(aMemoria') /\ m \in AMemoria
  BY CanalesMemoria, ElementosDeTail, Sacar DEF Memoria
<1>2. ASSUME NEW r \in RespuestasMemoria, deMemoria' = Append(deMemoria, r)
      PROVE  Elementos(deMemoria') = Elementos(deMemoria) \union {r}
  BY <1>2, CanalesMemoria, ElementosDeAppend
<1>3. CASE m.op = "REALIZAR_COMPACTACION"
  <2>1. m = Orden
    BY <1>1, <1>3 DEF AMemoria, Mensaje, Orden
  <2>2. deMemoria' = Append(deMemoria, "COMPACTAR")
    BY <1>3 DEF Memoria
  <2>3. "COMPACTAR" \in Elementos(deMemoria')
    BY <1>2, <2>2 DEF RespuestasMemoria
  <2> QED BY <1>1, <2>1, <2>3, CompactandoSiempre
<1>4. CASE m.op # "REALIZAR_COMPACTACION"
  <2>1. m # Orden
    BY <1>4 DEF Mensaje, Orden
  <2>2. \/ deMemoria' = deMemoria
        \/ \E r \in RespuestasMemoria \ {"COMPACTAR"} : deMemoria' = Append(deMemoria, r)
    BY <1>4 DEF Memoria, RespuestasMemoria
  <2>3. "COMPACTAR" \in Elementos(deMemoria') <=> "COMPACTAR" \in Elementos(deMemoria)
    BY <1>2, <2>2
  <2> QED BY <1>1, <2>1, <2>3, CompactandoSiempre
<1> QED BY <1>3, <1>4

\* The answers of the memory: a compaction begins with the mutex taken, and
\* the mutex is given back when it ended.
LEMMA TurnoResultado ==
    ASSUME TypeOK, TypeOK', ConversacionMemoria, CompactacionExclusiva,
           \/ CreacionExitosa \/ RealizarCompactacion \/ Compactar \/ SinMemoria
    PROVE  CompactacionExclusiva'
<1>0. /\ mutexCompresion \in Nat /\ Len(aFs) \in Nat /\ Len(deFs) \in Nat
  BY LenProperties DEF TypeOK
<1>1. ASSUME NEW op, Resultado(op)
      PROVE  UNCHANGED <<aFs, deFs>> /\ atiende.pid \in Procesos
  BY <1>1 DEF Resultado, canalFs, TypeOK, AtiendeLibre
<1>2. CASE CreacionExitosa
  <2>1. Resultado("CREACION_EXITOSA") /\ UNCHANGED <<mutexCompresion, aMemoria>>
    BY <1>2 DEF CreacionExitosa
  <2> QED BY <1>1, <2>1, UnaConversacion, CompactandoSiempre, MismoTurno
<1>3. CASE RealizarCompactacion
  <2>1. /\ Resultado("REALIZAR_COMPACTACION") /\ mutexCompresion' = mutexCompresion - 1
        /\ aMemoria' = Append(aMemoria, Orden)
    BY <1>3 DEF RealizarCompactacion, WaitCompresion, Orden
  <2>2. Orden \in AMemoria
    BY DEF Orden, AMemoria
  <2>3. Orden \in Elementos(aMemoria')
    BY <2>1, <2>2, CanalesMemoria, ElementosDeAppend
  <2>4. ~Compactando /\ Compactando'
    BY <2>1, <2>3, UnaConversacion, CompactandoSiempre
  <2> QED BY <1>0, <1>1, <2>1, <2>4 DEF CompactacionExclusiva
<1>4. CASE Compactar
  <2>1. /\ Resultado("COMPACTAR") /\ mutexCompresion' = mutexCompresion + 1
        /\ aMemoria' = Append(aMemoria, Mensaje("CREAR_SEGMENTO", atiende.pid))
    BY <1>4 DEF Compactar
  <2>2. /\ Mensaje("CREAR_SEGMENTO", atiende.pid) \in AMemoria
        /\ Mensaje("CREAR_SEGMENTO", atiende.pid) # Orden
    BY <1>1, <2>1 DEF AMemoria, Mensaje, Orden
  <2>3. Orden \notin Elementos(aMemoria')
    BY <2>1, <2>2, CanalesMemoria, ElementosDeAppend, UnaConversacion
  <2>4. Compactando /\ ~Compactando'
    BY <2>1, <2>3, UnaConversacion, CompactandoSiempre
  <2> QED BY <1>0, <1>1, <2>1, <2>4 DEF CompactacionExclusiva
<1>5. CASE SinMemoria
  <2>1. /\ Resultado("SIN_MEMORIA") /\ UNCHANGED mutexCompresion
        /\ aMemoria' = Append(aMemoria, Mensaje("FINALIZAR", atiende.pid))
    BY <1>5 DEF SinMemoria, EliminarProceso
  <2>2. /\ Mensaje("FINALIZAR", atiende.pid) \in AMemoria
        /\ Mensaje("FINALIZAR", atiende.pid) # Orden
    BY <1>1, <2>1 DEF AMemoria, Mensaje, Orden
  <2>3. Orden \notin Elementos(aMemoria')
    BY <2>1, <2>2, CanalesMemoria, ElementosDeAppend, UnaConversacion
  <2>4. ~Compactando /\ ~Compactando'
    BY <2>1, <2>3, UnaConversacion, CompactandoSiempre
  <2> QED BY <1>1, <2>1, <2>4, MismoTurno
<1> QED BY <1>2, <1>3, <1>4, <1>5

\* The transfers: each takes the mutex with its request and gives it back with
\* its answer.
LEMMA TurnoTransferencia ==
    ASSUME TypeOK, CompactacionExclusiva,
           \/ \E p \in Procesos : Transferir(p)
           \/ FileSystem \/ Desbloqueado
    PROVE  CompactacionExclusiva'
<1>0. /\ mutexCompresion \in Nat /\ Len(aFs) \in Nat /\ Len(deFs) \in Nat
      /\ aFs \in Seq(Procesos) /\ deFs \in Seq(Procesos)
  BY LenProperties DEF TypeOK
<1>1. UNCHANGED <<aMemoria, deMemoria>>
  BY DEF Transferir, FileSystem, Desbloqueado, memoria
<1>2. Compactando' <=> Compactando
  BY <1>1 DEF Compactando
<1>3. ASSUME NEW p \in Procesos, Transferir(p) PROVE CompactacionExclusiva'
  <2>1. /\ mutexCompresion' = mutexCompresion - 1 /\ UNCHANGED deFs
        /\ aFs' = Append(aFs, p)
    BY <1>3 DEF Transferir, WaitCompresion
  <2>2. Len(aFs') = Len(aFs) + 1
    BY <1>0, <2>1, ElementosDeAppend
  <2> QED BY <1>0, <1>2, <2>1, <2>2 DEF CompactacionExclusiva
<1>4. CASE FileSystem
  <2>1. /\ UNCHANGED mutexCompresion /\ aFs # <<>>
        /\ aFs' = Tail(aFs) /\ deFs' = Append(deFs, Head(aFs))
    BY <1>4 DEF FileSystem, semaforos
  <2>2. Len(aFs') = Len(aFs) - 1 /\ Head(aFs) \in Procesos
    BY <1>0, <2>1, Sacar
  <2>3. Len(deFs') = Len(deFs) + 1
    BY <1>0, <2>1, <2>2, ElementosDeAppend
  <2> QED BY <1>0, <1>2, <2>1, <2>2, <2>3 DEF CompactacionExclusiva
<1>5. CASE Desbloqueado
  <2>1. /\ mutexCompresion' = mutexCompresion + 1 /\ UNCHANGED aFs
        /\ deFs # <<>> /\ deFs' = Tail(deFs)
    BY <1>5 DEF Desbloqueado
  <2>2. Len(deFs') = Len(deFs) - 1
    BY <1>0, <2>1, Sacar
  <2> QED BY <1>0, <1>2, <2>1, <2>2 DEF CompactacionExclusiva
<1> QED BY <1>3, <1>4, <1>5

\* The steps that touch neither the mutex nor what it protects.
LEMMA TurnoAjeno ==
    ASSUME \/ DeConsolas \/ HiloNew \/ HiloExec \/ Cpu \/ UNCHANGED vars
           \/ \E p \in Procesos :
                 \/ Desalojado(p) \/ EjecutarWait(p) \/ EjecutarSignal(p)
                 \/ EjecutarIO(p) \/ Finalizar(p) \/ TerminarIO(p)
           \/ \E r \in Recursos : IniciarRecurso(r)
    PROVE  UNCHANGED <<mutexCompresion, aFs, deFs, aMemoria, deMemoria>>
<1> USE DEF semaforos, canalFs, memoria
<1>1. CASE DeConsolas \/ HiloNew \/ HiloExec
  BY <1>1 DEF DeConsolas, Conectar, HiloNew, NewDespierta, NewDuerme, Admitir,
              HiloExec, ExecDespierta, ExecDuerme, TomarCpu, Despachar
<1>2. CASE Cpu
  BY <1>2 DEF Cpu, CpuRecibe, CpuLocal, CpuConsulta, CpuEntrega, CpuRespuesta, restoCpu
<1>3. CASE UNCHANGED vars
  BY <1>3 DEF vars
<1>4. ASSUME NEW p \in Procesos,
             \/ Desalojado(p) \/ EjecutarWait(p) \/ EjecutarSignal(p)
             \/ EjecutarIO(p) \/ Finalizar(p) \/ TerminarIO(p)
      PROVE  UNCHANGED <<mutexCompresion, aFs, deFs, aMemoria, deMemoria>>
  BY <1>4 DEF Desalojado, EjecutarWait, EjecutarSignal, EjecutarIO, Finalizar,
              TerminarIO, restoRecurso
<1>5. ASSUME NEW r \in Recursos, IniciarRecurso(r)
      PROVE  UNCHANGED <<mutexCompresion, aFs, deFs, aMemoria, deMemoria>>
  BY <1>5 DEF IniciarRecurso, RecursoDespierta, RecursoSaca
<1> QED BY <1>1, <1>2, <1>3, <1>4, <1>5

\* Every step keeps the compaction and the transfers apart.
LEMMA TurnoPaso ==
    TypeOK /\ TypeOK' /\ ConversacionMemoria /\ CompactacionExclusiva /\ [Next]_vars
        => CompactacionExclusiva'
<1> SUFFICES ASSUME TypeOK, TypeOK', ConversacionMemoria, CompactacionExclusiva,
                    [Next]_vars
             PROVE  CompactacionExclusiva'
  OBVIOUS
<1>1. ASSUME UNCHANGED <<mutexCompresion, aFs, deFs, aMemoria, deMemoria>>
      PROVE  CompactacionExclusiva'
  BY <1>1, MismoTurno DEF Compactando
<1>2. ASSUME NEW p \in Procesos, PedirSegmento(p) PROVE CompactacionExclusiva'
  <2>1. PICK op \in {"CREAR_SEGMENTO", "ELIMINAR_SEGMENTO"} :
            aMemoria' = Append(aMemoria, Mensaje(op, p))
    BY <1>2 DEF PedirSegmento
  <2>2. Mensaje(op, p) \in AMemoria /\ Mensaje(op, p) # Orden
    BY DEF AMemoria, Mensaje, Orden
  <2>3. UNCHANGED <<mutexCompresion, aFs, deFs, deMemoria>>
    BY <1>2 DEF PedirSegmento, semaforos, canalFs
  <2> QED BY <2>1, <2>2, <2>3, OtroPedido, MismoTurno
<1>3. CASE Notificar
  <2>1. /\ atiende.pid \in Procesos
        /\ aMemoria' = Append(aMemoria, Mensaje("FINALIZAR", atiende.pid))
        /\ UNCHANGED <<mutexCompresion, aFs, deFs, deMemoria>>
    BY <1>3 DEF Notificar, EliminarProceso, TypeOK, AtiendeLibre, semaforos, canalFs
  <2>2. /\ Mensaje("FINALIZAR", atiende.pid) \in AMemoria
        /\ Mensaje("FINALIZAR", atiende.pid) # Orden
    BY <2>1 DEF AMemoria, Mensaje, Orden
  <2> QED BY <2>1, <2>2, OtroPedido, MismoTurno
<1>4. CASE Memoria
  <2>1. UNCHANGED <<mutexCompresion, aFs, deFs>>
    BY <1>4 DEF Memoria, semaforos, canalFs
  <2> QED BY <1>4, <2>1, MemoriaCompacta, MismoTurno
<1>5. CASE CreacionExitosa \/ RealizarCompactacion \/ Compactar \/ SinMemoria
  BY <1>5, TurnoResultado
<1>6. CASE FileSystem \/ Desbloqueado \/ \E p \in Procesos : Transferir(p)
  BY <1>6, TurnoTransferencia
<1> QED BY <1>1, <1>2, <1>3, <1>4, <1>5, <1>6, TurnoAjeno DEF Next, AtenderCpu

\* The memory is never compacted while the file system copies to or from it,
\* and there is one transfer at a time: mutex_compresion, taken in one thread
\* and posted in two others, always comes back exactly once.
THEOREM CompactacionCorrecta == RecursosConocidos => (Spec => []CompactacionExclusiva)
<1> SUFFICES ASSUME RecursosConocidos PROVE Spec => []CompactacionExclusiva
  OBVIOUS
<1>1. Init => CompactacionExclusiva
  <2> SUFFICES ASSUME Init PROVE CompactacionExclusiva
    OBVIOUS
  <2>1. Len(aFs) = 0 /\ Len(deFs) = 0 /\ mutexCompresion = 1 /\ ~Compactando
    BY EmptySeq DEF Init, Compactando
  <2> QED BY <2>1 DEF CompactacionExclusiva
<1>2. ConversacionesInv /\ TypeOK' /\ CompactacionExclusiva /\ [Next]_vars
          => CompactacionExclusiva'
  BY TurnoPaso DEF ConversacionesInv
<1> QED BY <1>1, <1>2, ConversacionesSiempre, TipoCorrecto, PTL DEF Spec

===============================================================================
