---------------------------- MODULE RecursosProofs ----------------------------
(* The resources: which processes hold a unit, and that the wake-ups match the *)
(* waiters, when RECURSOS holds one unit in all for each group of resources    *)
(* that the programs take and give back in turn; what a stop of all the        *)
(* threads means, whatever the resources; and that the kernel implements       *)
(* CicloDeVida.                                                                *)
EXTENDS RepartoProofs

-----------------------------------------------------------------------------
(* What the first k instructions of a program take and give back.              *)

\* WAITs less SIGNALs for the resources of R.
Haber(p, k, R) == Veces(p, k, "WAIT", R) - Veces(p, k, "SIGNAL", R)

\* The resources are handled in groups: grupo[r] names the group of r, and a
\* program may WAIT for one resource of a group and SIGNAL another.
Grupo(grupo, g) == {r \in Recursos : grupo[r] = g}

\* RECURSOS has at most one unit in all for each group, and no program takes a
\* second one before it gives back the first, or gives back one it has not taken.
UnaUnidad(grupo) ==
    /\ \A r, q \in Recursos :
          /\ Instancias[r] <= 1
          /\ r # q /\ grupo[r] = grupo[q] => Instancias[r] + Instancias[q] <= 1
    /\ \A p \in Procesos : \A k \in 0 .. Len(Programa[p]) : \A g \in Recursos :
          Haber(p, k, Grupo(grupo, g)) \in {0, 1}

\* One instruction more.
LEMMA VecesMas ==
    ASSUME NEW p \in Procesos, NEW k \in Nat, NEW n, NEW R
    PROVE  /\ Veces(p, k, n, R) \in Nat
           /\ Veces(p, k + 1, n, R) = Veces(p, k, n, R)
                + IF Programa[p][k + 1].nombre = n /\ Programa[p][k + 1].param \in R
                  THEN 1 ELSE 0
<1> DEFINE B(i) == Programa[p][i].nombre = n /\ Programa[p][i].param \in R
           S == {i \in 1 .. k : B(i)}
           T == {i \in 1 .. k + 1 : B(i)}
<1>1. IsFiniteSet(S)
  <2>1. IsFiniteSet(1 .. k)
    BY FS_Interval
  <2> QED BY <2>1, FS_Subset
<1>2. Cardinality(S) \in Nat
  BY <1>1, FS_CardinalityType
<1>3. k + 1 \notin S /\ T = IF B(k + 1) THEN S \union {k + 1} ELSE S
  BY DEF S
<1> HIDE DEF B, S, T
<1>4. Cardinality(T) = Cardinality(S) + IF B(k + 1) THEN 1 ELSE 0
  BY <1>1, <1>2, <1>3, FS_AddElement
<1> QED BY <1>2, <1>4 DEF Veces, B, S, T

LEMMA HaberMas ==
    ASSUME NEW p \in Procesos, NEW k \in Nat, NEW R
    PROVE  /\ Haber(p, k, R) \in Int
           /\ LET i == Programa[p][k + 1] IN
              Haber(p, k + 1, R) = Haber(p, k, R)
                + IF i.nombre = "WAIT" /\ i.param \in R THEN 1
                  ELSE IF i.nombre = "SIGNAL" /\ i.param \in R THEN -1 ELSE 0
<1> DEFINE i == Programa[p][k + 1]
<1>1. ASSUME NEW n PROVE /\ Veces(p, k, n, R) \in Nat
                         /\ Veces(p, k + 1, n, R) = Veces(p, k, n, R)
                              + IF i.nombre = n /\ i.param \in R THEN 1 ELSE 0
  BY VecesMas
<1> HIDE DEF i
<1>2. /\ Veces(p, k, "WAIT", R) \in Nat /\ Veces(p, k, "SIGNAL", R) \in Nat
      /\ Veces(p, k + 1, "WAIT", R) = Veces(p, k, "WAIT", R)
           + IF i.nombre = "WAIT" /\ i.param \in R THEN 1 ELSE 0
      /\ Veces(p, k + 1, "SIGNAL", R) = Veces(p, k, "SIGNAL", R)
           + IF i.nombre = "SIGNAL" /\ i.param \in R THEN 1 ELSE 0
  BY <1>1
<1>3. ~(i.nombre = "WAIT" /\ i.nombre = "SIGNAL")
  OBVIOUS
<1> QED BY <1>2, <1>3 DEF Haber, i

-----------------------------------------------------------------------------
(* Which instructions the kernel has served.                                   *)

USE DEF Analizando, Vacios, FaseLibre, FaseDespacho, FaseEntrega, FaseCorre,
        FasePedido, FaseAnaliza, FaseSigue, FasePara

ServidasSegun ==
    \A p \in Procesos :
        /\ Servidas(p) = IF cpu.estado = "esperando" /\ aKernel # <<>> /\ p = cpu.pid
                         THEN pc[p] - 1 ELSE pc[p]
        /\ Servidas(p) \in 0 .. Len(Programa[p])

\* All those fetched, but for the request that is still in the connection.
LEMMA ServidasDe == TypeOK /\ Dialogo => ServidasSegun
<1> SUFFICES ASSUME TypeOK, Dialogo, NEW p \in Procesos
             PROVE  /\ Servidas(p) =
                         IF cpu.estado = "esperando" /\ aKernel # <<>> /\ p = cpu.pid
                         THEN pc[p] - 1 ELSE pc[p]
                    /\ Servidas(p) \in 0 .. Len(Programa[p])
  BY DEF ServidasSegun
<1> DEFINE S == {i \in DOMAIN aKernel : aKernel[i].pid = p /\ ~EsEntrega(i)}
<1>1. Servidas(p) = pc[p] - Cardinality(S)
  BY DEF Servidas
<1>2. /\ Len(aKernel) \in Nat /\ (Len(aKernel) = 0 <=> aKernel = <<>>)
      /\ DOMAIN aKernel = 1 .. Len(aKernel)
  BY Canales, LenProperties
<1>3. pc[p] \in Nat /\ pc[p] <= Len(Programa[p]) /\ Len(Programa[p]) \in Nat
  BY ProgramaAssumption DEF TypeOK
<1>4. CASE S = {}
  <2>1. ~(cpu.estado = "esperando" /\ aKernel # <<>> /\ p = cpu.pid)
    <3>1. SUFFICES ASSUME cpu.estado = "esperando", aKernel # <<>>, p = cpu.pid
                   PROVE  FALSE
      OBVIOUS
    <3>2. FasePedido
      BY <3>1 DEF Dialogo
    <3>3. ~EsEntrega(1)
      BY <3>2 DEF Dialogo, EsEntrega, OperacionDe, ConRespuesta, SinRespuesta, Mensaje
    <3> QED BY <1>2, <1>4, <3>1, <3>2, <3>3 DEF Mensaje
  <2>2. Cardinality(S) = 0
    BY <1>4, FS_EmptySet
  <2> QED BY <1>1, <1>3, <2>1, <2>2
<1>5. CASE S # {}
  <2>1. aKernel # <<>>
    BY <1>2, <1>5
  <2>2. FaseEntrega \/ FasePedido
    BY <2>1 DEF Dialogo
  <2>3. FasePedido
    BY <1>2, <1>5, <2>2
  <2>4. p = cpu.pid /\ S = {1}
    BY <1>2, <1>5, <2>3 DEF Mensaje
  <2>5. pc[p] \in 1 .. Len(Programa[p])
    BY <2>3, <2>4 DEF Dialogo
  <2>6. Cardinality(S) = 1
    BY <2>4, FS_Singleton
  <2> QED BY <1>1, <1>3, <2>1, <2>3, <2>4, <2>5, <2>6
<1> QED BY <1>4, <1>5

\* The units p owes to the resources of R.
Debe(p, R) == Haber(p, Servidas(p), R)
DebeIgual(p) == \A R \in SUBSET Recursos : Debe(p, R)' = Debe(p, R)

\* An instruction that neither takes nor gives back.
LEMMA SinDeuda ==
    ASSUME NEW p \in Procesos, Servidas(p) \in Nat,
           \/ Servidas(p)' = Servidas(p)
           \/ /\ Servidas(p)' = Servidas(p) + 1
              /\ Programa[p][Servidas(p) + 1].nombre \notin ConParametro
    PROVE  DebeIgual(p)
<1> SUFFICES ASSUME NEW R \in SUBSET Recursos PROVE Debe(p, R)' = Debe(p, R)
  BY DEF DebeIgual
<1>1. CASE Servidas(p)' = Servidas(p)
  BY <1>1 DEF Debe, Haber, Veces
<1>2. CASE /\ Servidas(p)' = Servidas(p) + 1
           /\ Programa[p][Servidas(p) + 1].nombre \notin ConParametro
  <2>1. Debe(p, R)' = Haber(p, Servidas(p) + 1, R)
    BY <1>2 DEF Debe, Haber, Veces
  <2> DEFINE k == Servidas(p)
             i == Programa[p][k + 1]
  <2>2. /\ Haber(p, k, R) \in Int
        /\ Haber(p, k + 1, R) = Haber(p, k, R)
              + IF i.nombre = "WAIT" /\ i.param \in R THEN 1
                ELSE IF i.nombre = "SIGNAL" /\ i.param \in R THEN -1 ELSE 0
    BY HaberMas
  <2>3. i.nombre # "WAIT" /\ i.nombre # "SIGNAL"
    BY <1>2 DEF ConParametro
  <2> HIDE DEF k, i
  <2>4. Haber(p, k + 1, R) = Haber(p, k, R)
    BY <2>2, <2>3
  <2> QED BY <2>1, <2>4 DEF Debe, k
<1> QED BY <1>1, <1>2

\* The CPU: what it carries out alone, and what it hands over with the process.
LEMMA DeudasCpu ==
    ASSUME ConversacionesInv, ServidasSegun, ServidasSegun', Cpu, NEW p \in Procesos
    PROVE  DebeIgual(p)
<1>1. /\ Len(aCpu) \in Nat /\ (Len(aCpu) = 0 <=> aCpu = <<>>)
      /\ Len(aKernel) \in Nat /\ (Len(aKernel) = 0 <=> aKernel = <<>>)
      /\ pc \in [Procesos -> Nat]
  BY Canales DEF ConversacionesInv, TypeOK
<1>0. Servidas(p) \in Nat
  BY DEF ServidasSegun
<1>2. CASE CpuRecibe
  <2>1. /\ cpu.estado = "ociosa" /\ cpu'.estado \in {"ejecutando", "desincronizada"}
        /\ UNCHANGED pc
    BY <1>2 DEF CpuRecibe
  <2> QED BY <1>0, <1>1, <2>1, SinDeuda DEF ServidasSegun
<1>3. ASSUME NEW q \in Procesos, CpuLocal(q) PROVE DebeIgual(p)
  <2>1. /\ cpu.estado = "ejecutando" /\ UNCHANGED cpu /\ pc' = [pc EXCEPT ![q] = @ + 1]
        /\ Programa[q][pc[q] + 1].nombre = "SET"
    BY <1>3 DEF CpuLocal, Corriendo, Siguiente
  <2>2. Servidas(p) = pc[p] /\ Servidas(p)' = IF p = q THEN pc[p] + 1 ELSE pc[p]
    BY <1>0, <1>1, <2>1 DEF ServidasSegun
  <2> QED BY <1>0, <1>1, <2>1, <2>2, SinDeuda DEF ConParametro
<1>4. ASSUME NEW q \in Procesos, CpuConsulta(q) PROVE DebeIgual(p)
  <2>1. /\ cpu = [estado |-> "ejecutando", pid |-> q]
        /\ cpu' = [cpu EXCEPT !.estado = "esperando"]
        /\ pc' = [pc EXCEPT ![q] = @ + 1]
        /\ \E m \in AlKernel : aKernel' = Append(aKernel, m)
    BY <1>4 DEF CpuConsulta, Corriendo, Mensaje, AlKernel
  <2>2. aKernel' # <<>>
    BY <2>1, Canales, AppendProperties, EmptySeq DEF ConversacionesInv
  <2>3. Servidas(p) = pc[p] /\ Servidas(p)' = pc[p]
    BY <1>0, <1>1, <2>1, <2>2 DEF ServidasSegun
  <2> QED BY <1>0, <1>1, <2>3, SinDeuda
<1>5. ASSUME NEW q \in Procesos, CpuEntrega(q) PROVE DebeIgual(p)
  <2>1. /\ cpu.estado = "ejecutando" /\ cpu'.estado = "ociosa"
        /\ pc' = [pc EXCEPT ![q] = @ + 1]
        /\ Programa[q][pc[q] + 1].nombre \in SinRespuesta
    BY <1>5 DEF CpuEntrega, Corriendo, CpuOciosa, Siguiente
  <2>2. Servidas(p) = pc[p] /\ Servidas(p)' = IF p = q THEN pc[p] + 1 ELSE pc[p]
    BY <1>0, <1>1, <2>1 DEF ServidasSegun
  <2> QED BY <1>0, <1>1, <2>1, <2>2, SinDeuda DEF ConParametro, SinRespuesta
<1>6. ASSUME NEW q \in Procesos, CpuRespuesta(q) PROVE DebeIgual(p)
  <2>1. UNCHANGED <<pc, aKernel>> /\ aCpu # <<>> /\ cpu.estado = "esperando"
    BY <1>6 DEF CpuRespuesta
  <2>2. aKernel = <<>>
    BY <1>0, <1>1, <2>1 DEF ConversacionesInv, Dialogo
  <2> QED BY <1>0, <1>1, <2>1, <2>2, SinDeuda DEF ServidasSegun
<1> QED BY <1>2, <1>3, <1>4, <1>5, <1>6 DEF Cpu

\* A request that atender_cpu takes is a served instruction.
LEMMA DeudasLlega ==
    ASSUME ConversacionesInv, ServidasSegun, ServidasSegun', NEW op, NEW p \in Procesos,
           Llega(op, p), UNCHANGED <<pc, cpu>>
    PROVE  /\ op \notin {"EJECUTAR_WAIT", "EJECUTAR_SIGNAL"}
                => \A q \in Procesos : DebeIgual(q)
           /\ FasePedido =>
                /\ \A q \in Procesos \ {p} : DebeIgual(q)
                /\ Servidas(p) \in Nat /\ Servidas(p) + 1 = pc[p]
                /\ Servidas(p)' = pc[p] /\ pc[p] \in 0 .. Len(Programa[p])
<1>1. /\ FaseEntrega \/ FasePedido
      /\ aKernel' = <<>>
      /\ FaseEntrega => op \in {OperacionDe[n] : n \in SinRespuesta}
      /\ FasePedido => op = OperacionDe[Pedida] /\ p = cpu.pid
  BY DialogoLlega DEF DialogoInv, ConversacionesInv
<1>2. /\ aKernel # <<>> /\ pc \in [Procesos -> Nat]
      /\ \A q \in Procesos : Servidas(q) \in Nat /\ Servidas(q) \in 0 .. Len(Programa[q])
  BY DEF Llega, ConversacionesInv, TypeOK, ServidasSegun
<1>3. \A q \in Procesos :
          /\ Servidas(q)' = pc[q]
          /\ Servidas(q) = IF FasePedido /\ p = q THEN pc[q] - 1 ELSE pc[q]
  BY <1>1, <1>2 DEF ServidasSegun
<1>4. ASSUME NEW q \in Procesos, ~(FasePedido /\ p = q) PROVE DebeIgual(q)
  BY <1>2, <1>3, <1>4, SinDeuda
<1>5. ASSUME FasePedido, op \notin {"EJECUTAR_WAIT", "EJECUTAR_SIGNAL"}
      PROVE  DebeIgual(p)
  <2>1. Programa[p][pc[p]].nombre \notin ConParametro
    BY <1>1, <1>5 DEF Pedida, Actual, OperacionDe, ConParametro
  <2>2. Servidas(p)' = Servidas(p) + 1 /\ Servidas(p) + 1 = pc[p]
    BY <1>2, <1>3, <1>5
  <2> QED BY <1>2, <2>1, <2>2, SinDeuda
<1> QED
  <2>1. ASSUME FasePedido
        PROVE  /\ \A q \in Procesos \ {p} : DebeIgual(q)
               /\ Servidas(p) \in Nat /\ Servidas(p) + 1 = pc[p]
               /\ Servidas(p)' = pc[p] /\ pc[p] \in 0 .. Len(Programa[p])
    BY <1>2, <1>3, <1>4, <2>1 DEF ServidasSegun
  <2> QED BY <1>4, <1>5, <2>1

\* ejecutar_wait and ejecutar_signal: one instruction of p more is served.
LEMMA DebePide ==
    ASSUME ConversacionesInv, RecursosConocidos, ServidasSegun, ServidasSegun',
           NEW p \in Procesos, EjecutarWait(p) \/ EjecutarSignal(p),
           NEW R \in SUBSET Recursos
    PROVE  /\ Actual(p).param \in Recursos
           /\ \A q \in Procesos \ {p} : DebeIgual(q)
           /\ Debe(p, R) \in Int
           /\ EjecutarWait(p) =>
                Debe(p, R)' = Debe(p, R) + IF Actual(p).param \in R THEN 1 ELSE 0
           /\ EjecutarSignal(p) =>
                Debe(p, R)' = Debe(p, R) - IF Actual(p).param \in R THEN 1 ELSE 0
<1>1. /\ FasePedido /\ Actual(p).param \in Recursos
      /\ EjecutarWait(p) => Actual(p).nombre = "WAIT"
      /\ EjecutarSignal(p) => Actual(p).nombre = "SIGNAL"
  BY PidePorRecurso
<1>2. /\ \E op : Llega(op, p)
      /\ UNCHANGED <<pc, cpu>>
  BY DEF EjecutarWait, EjecutarSignal, restoRecurso, laCpu
<1>3. /\ \A q \in Procesos \ {p} : DebeIgual(q)
      /\ Servidas(p) \in Nat /\ Servidas(p) + 1 = pc[p] /\ Servidas(p)' = pc[p]
  BY <1>1, <1>2, DeudasLlega
<1> DEFINE k == Servidas(p)
           i == Programa[p][k + 1]
<1>4. /\ Haber(p, k, R) \in Int
      /\ Haber(p, k + 1, R) = Haber(p, k, R)
            + IF i.nombre = "WAIT" /\ i.param \in R THEN 1
              ELSE IF i.nombre = "SIGNAL" /\ i.param \in R THEN -1 ELSE 0
  BY <1>3, HaberMas
<1>5. i = Actual(p)
  BY <1>3 DEF Actual
<1>6. Debe(p, R) = Haber(p, k, R) /\ Debe(p, R)' = Haber(p, k + 1, R)
  BY <1>3 DEF Debe, Haber, Veces
<1> HIDE DEF k, i
<1>7. /\ EjecutarWait(p) =>
           Debe(p, R)' = Debe(p, R) + IF Actual(p).param \in R THEN 1 ELSE 0
      /\ EjecutarSignal(p) =>
           Debe(p, R)' = Debe(p, R) - IF Actual(p).param \in R THEN 1 ELSE 0
  BY <1>1, <1>4, <1>5, <1>6
<1> QED BY <1>1, <1>3, <1>4, <1>6, <1>7

-----------------------------------------------------------------------------
(* The token of a group of resources.                                          *)

\* p was granted a unit of R and has not given it back.
Tiene(p, R) == Debe(p, R) > 0 /\ \A r \in R : p \notin Elementos(colaRecurso[r])

\* Units of r that nobody holds: free, or on their way to a waiter.
Sueltas(r) == EnCamino(r) + IF instancias[r] > 0 THEN instancias[r] ELSE 0

\* One process holds the unit of the group or one resource has it free, never
\* both; and there is a unit only where RECURSOS has one.
FichaUnica(R) ==
    /\ \A p, q \in Procesos : Tiene(p, R) /\ Tiene(q, R) => p = q
    /\ \A p \in Procesos, r \in R : Tiene(p, R) => Sueltas(r) = 0
    /\ \A r \in R : Sueltas(r) <= 1
    /\ \A r, q \in R : r # q => Sueltas(r) = 0 \/ Sueltas(q) = 0
    /\ (\E p \in Procesos : Tiene(p, R)) \/ (\E r \in R : Sueltas(r) > 0)
          => \E r \in R : Instancias[r] = 1

\* Whoever waits for a resource has counted its WAIT already.
Deudores(grupo) ==
    \A r \in Recursos : \A p \in Elementos(colaRecurso[r]) :
        Debe(p, Grupo(grupo, grupo[r])) > 0

\* The inductive invariant of the resources.
RecursosInv(grupo) ==
    /\ \A g \in Recursos : FichaUnica(Grupo(grupo, g))
    /\ Deudores(grupo) /\ EsperasJustas /\ KernelVivo

LEMMA Cantidades ==
    ASSUME TypeOK, NEW r \in Recursos
    PROVE  /\ instancias[r] \in Int /\ EnCamino(r) \in Nat
           /\ semRecurso[r] \in Nat /\ Sueltas(r) \in Nat
           /\ colaRecurso[r] \in Seq(Procesos) /\ Len(colaRecurso[r]) \in Nat
           /\ (Len(colaRecurso[r]) = 0 <=> colaRecurso[r] = <<>>)
           /\ Elementos(colaRecurso[r]) \subseteq Procesos
<1>1. /\ instancias[r] \in Int /\ semRecurso[r] \in Nat
      /\ colaRecurso[r] \in Seq(Procesos)
  BY DEF TypeOK
<1>2. Elementos(colaRecurso[r]) \subseteq Procesos
  BY <1>1, ElementOfSeq, LenProperties DEF Elementos
<1> QED BY <1>1, <1>2, Sacar DEF EnCamino, Sueltas

\* A step that touches neither the resources of a group nor what is owed to them.
LEMMA FichaAjena ==
    ASSUME NEW R \in SUBSET Recursos, FichaUnica(R),
           \A r \in R : /\ UNCHANGED <<instancias[r], colaRecurso[r]>>
                        /\ EnCamino(r)' = EnCamino(r),
           \A p \in Procesos : Debe(p, R)' = Debe(p, R)
    PROVE  FichaUnica(R)'
<1>1. \A r \in R : Sueltas(r)' = Sueltas(r)
  BY DEF Sueltas
<1>2. \A p \in Procesos : Tiene(p, R)' <=> Tiene(p, R)
  BY DEF Tiene, Elementos
<1> QED BY <1>1, <1>2 DEF FichaUnica

\* A step that has nothing to do with the resources.
LEMMA RecursosAjenos ==
    ASSUME TypeOK, NEW grupo \in [Recursos -> Recursos], RecursosInv(grupo),
           UNCHANGED <<instancias, colaRecurso, kernel>>,
           \A r \in Recursos : EnCamino(r)' = EnCamino(r),
           \A p \in Procesos : DebeIgual(p)
    PROVE  RecursosInv(grupo)'
<1>1. ASSUME NEW g \in Recursos PROVE FichaUnica(Grupo(grupo, g))'
  <2>1. Grupo(grupo, g) \in SUBSET Recursos /\ FichaUnica(Grupo(grupo, g))
    BY DEF Grupo, RecursosInv
  <2>2. \A p \in Procesos : Debe(p, Grupo(grupo, g))' = Debe(p, Grupo(grupo, g))
    BY <2>1 DEF DebeIgual
  <2> QED BY <2>1, <2>2, FichaAjena
<1>2. Deudores(grupo)'
  <2> SUFFICES ASSUME NEW r \in Recursos, NEW p \in Elementos(colaRecurso[r])
               PROVE  Debe(p, Grupo(grupo, grupo[r]))' > 0
    BY DEF Deudores, Elementos
  <2>1. Debe(p, Grupo(grupo, grupo[r])) > 0 /\ p \in Procesos
    BY Cantidades DEF RecursosInv, Deudores
  <2>2. Grupo(grupo, grupo[r]) \in SUBSET Recursos
    BY DEF Grupo
  <2> QED BY <2>1, <2>2 DEF DebeIgual
<1>3. EsperasJustas' /\ KernelVivo'
  BY DEF RecursosInv, EsperasJustas, KernelVivo
<1> QED BY <1>1, <1>2, <1>3 DEF RecursosInv

-----------------------------------------------------------------------------
(* What ejecutar_wait, ejecutar_signal and the thread of a resource do to it.  *)

\* The debts of a group before and after a step are of one unit at most.
LEMMA UnaDeuda ==
    ASSUME NEW grupo \in [Recursos -> Recursos], UnaUnidad(grupo), ServidasSegun,
           ServidasSegun', NEW p \in Procesos, NEW g \in Recursos
    PROVE  /\ Debe(p, Grupo(grupo, g)) \in {0, 1}
           /\ Debe(p, Grupo(grupo, g))' \in {0, 1}
<1>1. /\ Servidas(p) \in 0 .. Len(Programa[p])
      /\ Servidas(p)' \in 0 .. Len(Programa[p])
  BY DEF ServidasSegun
<1>2. Debe(p, Grupo(grupo, g))' = Haber(p, Servidas(p)', Grupo(grupo, g))
  BY DEF Debe, Haber, Veces, Grupo
<1> QED BY <1>1, <1>2 DEF UnaUnidad, Debe

\* What a WAIT does.
LEMMA EfectoWait ==
    ASSUME ConversacionesInv, RecursosConocidos, TurnoSegun, Reparto, NEW p \in Procesos,
           EjecutarWait(p), NEW r \in Recursos, r = Actual(p).param
    PROVE  /\ \A q \in Recursos : p \notin Elementos(colaRecurso[q])
           /\ UNCHANGED kernel
           /\ \A q \in Recursos : EnCamino(q)' = EnCamino(q)
           /\ instancias'[r] = instancias[r] - 1
           /\ \A q \in Recursos \ {r} : UNCHANGED <<instancias[q], colaRecurso[q]>>
           /\ instancias[r] > 0 => UNCHANGED colaRecurso[r]
           /\ instancias[r] <= 0 => colaRecurso'[r] = Append(colaRecurso[r], p)
<1>1. EnTurno = {p}
  BY TurnoLlega DEF EjecutarWait
<1>2. \A q \in Recursos : p \notin Elementos(colaRecurso[q])
  BY <1>1 DEF Reparto, Aparte, Cajas, Nombres, EnColas
<1>0. TypeOK
  BY DEF ConversacionesInv
<1>3. /\ instancias \in [Recursos -> Int] /\ colaRecurso \in [Recursos -> Seq(Procesos)]
      /\ SinUnidad(r) <=> instancias[r] <= 0
  <2>1. instancias \in [Recursos -> Int] /\ colaRecurso \in [Recursos -> Seq(Procesos)]
    BY <1>0 DEF TypeOK
  <2>2. instancias[r] \in Int
    BY <2>1
  <2> QED BY <2>1, <2>2 DEF SinUnidad
<1>4. /\ instancias' = [instancias EXCEPT ![r] = @ - 1]
      /\ UNCHANGED <<semRecurso, hiloRecurso, kernel>>
      /\ ~SinUnidad(r) => UNCHANGED colaRecurso
      /\ SinUnidad(r) => colaRecurso' = [colaRecurso EXCEPT ![r] = Append(@, p)]
  BY DEF EjecutarWait, restoRecurso, Llega, Vivo
<1> QED BY <1>2, <1>3, <1>4 DEF EnCamino

LEMMA FichaWait ==
    ASSUME TypeOK, NEW p \in Procesos, NEW r \in Recursos, NEW R \in SUBSET Recursos,
           r \in R, FichaUnica(R), Debe(p, R) \in Int,
           Debe(p, R)' \in {0, 1}, Debe(p, R) \in {0, 1}, Debe(p, R)' = Debe(p, R) + 1,
           \A q \in Procesos \ {p} : Debe(q, R)' = Debe(q, R),
           \A q \in Recursos : p \notin Elementos(colaRecurso[q]),
           \A q \in Recursos : EnCamino(q)' = EnCamino(q),
           instancias'[r] = instancias[r] - 1,
           \A q \in Recursos \ {r} : UNCHANGED <<instancias[q], colaRecurso[q]>>,
           instancias[r] > 0 => UNCHANGED colaRecurso[r],
           instancias[r] <= 0 => colaRecurso'[r] = Append(colaRecurso[r], p)
    PROVE  FichaUnica(R)'
<1>1. ~Tiene(p, R) /\ Debe(p, R)' = 1
  BY DEF Tiene
<1>2. \A q \in R \ {r} : Sueltas(q)' = Sueltas(q)
  BY DEF Sueltas
<1>3. \A q \in R : Sueltas(q) \in Nat
  BY Cantidades
<1>4. CASE instancias[r] > 0
  <2>1. \A q \in Recursos : UNCHANGED colaRecurso[q]
    BY <1>4
  <2>2. \A q \in Procesos \ {p} : Tiene(q, R)' <=> Tiene(q, R)
    BY <2>1 DEF Tiene, Elementos
  <2>3. Tiene(p, R)'
    BY <1>1, <2>1 DEF Tiene, Elementos
  <2>4. Sueltas(r) = 1 /\ Sueltas(r)' = 0
    BY <1>3, <1>4, Cantidades DEF Sueltas, FichaUnica
  <2>5. \A q \in R : Sueltas(q)' = 0
    BY <1>2, <1>3, <2>4 DEF FichaUnica
  <2>6. \A q \in Procesos : ~Tiene(q, R)
    BY <2>4 DEF FichaUnica
  <2>7. \E q \in R : Instancias[q] = 1
    BY <2>4 DEF FichaUnica
  <2> QED BY <2>2, <2>3, <2>5, <2>6, <2>7 DEF FichaUnica
<1>5. CASE instancias[r] <= 0
  <2>1. Elementos(colaRecurso[r])' = Elementos(colaRecurso[r]) \union {p}
    <3>1. colaRecurso[r] \in Seq(Procesos) /\ colaRecurso'[r] = Append(colaRecurso[r], p)
      BY <1>5, Cantidades
    <3>2. Elementos(Append(colaRecurso[r], p)) = Elementos(colaRecurso[r]) \union {p}
      BY <3>1, ElementosDeAppend
    <3> QED BY <3>1, <3>2 DEF Elementos
  <2>5. \A q \in R \ {r} : Elementos(colaRecurso[q])' = Elementos(colaRecurso[q])
    BY DEF Elementos
  <2>2. \A q \in Procesos \ {p} : Tiene(q, R)' <=> Tiene(q, R)
    BY <2>1, <2>5 DEF Tiene
  <2>3. ~Tiene(p, R)'
    BY <2>1 DEF Tiene
  <2>4. Sueltas(r)' = Sueltas(r)
    BY <1>5, Cantidades DEF Sueltas
  <2> QED BY <1>1, <1>2, <2>2, <2>3, <2>4 DEF FichaUnica
<1> QED BY <1>4, <1>5, Cantidades

LEMMA RecursosWait ==
    ASSUME NEW grupo \in [Recursos -> Recursos], UnaUnidad(grupo), RecursosConocidos,
           RepartoInv, TurnoSegun, ServidasSegun, ServidasSegun', RecursosInv(grupo),
           NEW p \in Procesos, EjecutarWait(p)
    PROVE  RecursosInv(grupo)'
<1>1. PICK r \in Recursos : r = Actual(p).param
  BY PidePorRecurso DEF RepartoInv
<1>0. TypeOK /\ ConversacionesInv /\ Reparto
  BY DEF RepartoInv, ConversacionesInv
<1>2. /\ \A q \in Recursos : p \notin Elementos(colaRecurso[q])
      /\ UNCHANGED kernel
      /\ \A q \in Recursos : EnCamino(q)' = EnCamino(q)
      /\ instancias'[r] = instancias[r] - 1
      /\ \A q \in Recursos \ {r} : UNCHANGED <<instancias[q], colaRecurso[q]>>
      /\ instancias[r] > 0 => UNCHANGED colaRecurso[r]
      /\ instancias[r] <= 0 => colaRecurso'[r] = Append(colaRecurso[r], p)
  BY <1>0, <1>1, EfectoWait
<1>3. ASSUME NEW R \in SUBSET Recursos
      PROVE  /\ \A q \in Procesos \ {p} : Debe(q, R)' = Debe(q, R)
             /\ Debe(p, R) \in Int
             /\ Debe(p, R)' = Debe(p, R) + IF r \in R THEN 1 ELSE 0
  BY <1>0, <1>1, DebePide DEF DebeIgual
<1>4. ASSUME NEW g \in Recursos PROVE FichaUnica(Grupo(grupo, g))'
  <2> SUFFICES ASSUME NEW R \in SUBSET Recursos, R = Grupo(grupo, g)
               PROVE  FichaUnica(R)'
    BY DEF Grupo
  <2>1. FichaUnica(R)
    BY DEF RecursosInv
  <2>2. Debe(p, R) \in {0, 1} /\ Debe(p, R)' \in {0, 1}
    BY UnaDeuda
  <2>3. /\ \A q \in Procesos \ {p} : Debe(q, R)' = Debe(q, R)
        /\ Debe(p, R) \in Int
        /\ Debe(p, R)' = Debe(p, R) + IF r \in R THEN 1 ELSE 0
    BY <1>3, <2>1
  <2>4. CASE r \in R
    BY <1>0, <1>2, <2>1, <2>2, <2>3, <2>4, FichaWait
  <2>5. CASE r \notin R
    <3>1. \A q \in Procesos : Debe(q, R)' = Debe(q, R)
      BY <2>3, <2>5
    <3>2. \A q \in R : /\ UNCHANGED <<instancias[q], colaRecurso[q]>>
                       /\ EnCamino(q)' = EnCamino(q)
      BY <1>2, <2>1, <2>5
    <3> QED BY <2>1, <3>1, <3>2, FichaAjena
  <2> QED BY <2>4, <2>5
<1>5. Deudores(grupo)'
  <2> SUFFICES ASSUME NEW s \in Recursos, NEW q \in Elementos(colaRecurso[s])'
               PROVE  Debe(q, Grupo(grupo, grupo[s]))' > 0
    BY DEF Deudores
  <2> SUFFICES ASSUME NEW R \in SUBSET Recursos, R = Grupo(grupo, grupo[s])
               PROVE  Debe(q, R)' > 0
    BY DEF Grupo
  <2>1. grupo[s] \in Recursos /\ s \in R
    BY DEF Grupo
  <2>2. Debe(p, R) \in {0, 1}
    BY <2>1, UnaDeuda
  <2>3. /\ \A t \in Procesos \ {p} : Debe(t, R)' = Debe(t, R)
        /\ Debe(p, R)' = Debe(p, R) + IF r \in R THEN 1 ELSE 0
    BY <1>3, <2>1
  <2>4. \A t \in Elementos(colaRecurso[s]) : Debe(t, R) > 0 /\ t # p /\ t \in Procesos
    BY <1>0, <1>2, Cantidades DEF RecursosInv, Deudores
  <2>5. CASE q \in Elementos(colaRecurso[s])
    BY <2>3, <2>4, <2>5
  <2>6. CASE q \notin Elementos(colaRecurso[s])
    <3>1. s = r /\ instancias[r] <= 0
      <4>1. colaRecurso'[s] # colaRecurso[s]
        BY <2>6 DEF Elementos
      <4> QED BY <1>0, <1>2, <4>1, Cantidades
    <3>2. colaRecurso[s] \in Seq(Procesos) /\ colaRecurso'[s] = Append(colaRecurso[s], p)
      BY <1>0, <1>2, <3>1, Cantidades
    <3>3. Elementos(Append(colaRecurso[s], p)) = Elementos(colaRecurso[s]) \union {p}
      BY <3>2, ElementosDeAppend
    <3>4. q = p
      BY <2>6, <3>2, <3>3 DEF Elementos
    <3> QED BY <2>1, <2>2, <2>3, <3>1, <3>4
  <2> QED BY <2>5, <2>6
<1>6. EsperasJustas'
  <2> SUFFICES ASSUME NEW s \in Recursos
               PROVE  Len(colaRecurso'[s]) = EnCamino(s)'
                        + IF instancias'[s] < 0 THEN -instancias'[s] ELSE 0
    BY DEF EsperasJustas
  <2>1. Len(colaRecurso[s]) = EnCamino(s) + IF instancias[s] < 0 THEN -instancias[s] ELSE 0
    BY DEF RecursosInv, EsperasJustas
  <2>2. instancias[s] \in Int /\ EnCamino(s) \in Nat /\ colaRecurso[s] \in Seq(Procesos)
    BY <1>0, Cantidades
  <2>3. Len(Append(colaRecurso[s], p)) = Len(colaRecurso[s]) + 1
    BY <2>2, ElementosDeAppend
  <2>4. CASE s = r /\ instancias[r] <= 0
    <3>1. /\ Len(colaRecurso'[s]) = Len(colaRecurso[s]) + 1 /\ EnCamino(s)' = EnCamino(s)
          /\ instancias'[s] = instancias[s] - 1
      BY <1>2, <2>3, <2>4
    <3> QED BY <2>1, <2>2, <2>4, <3>1
  <2>5. CASE ~(s = r /\ instancias[r] <= 0)
    <3>1. /\ colaRecurso'[s] = colaRecurso[s] /\ EnCamino(s)' = EnCamino(s)
          /\ instancias'[s] = IF s = r THEN instancias[s] - 1 ELSE instancias[s]
      BY <1>2, <2>2, <2>5
    <3> QED BY <2>1, <2>2, <2>5, <3>1
  <2> QED BY <2>4, <2>5
<1> QED BY <1>2, <1>4, <1>5, <1>6 DEF RecursosInv, KernelVivo

\* What a SIGNAL does.
LEMMA EfectoSignal ==
    ASSUME ConversacionesInv, RecursosConocidos, TurnoSegun, Reparto, NEW p \in Procesos,
           EjecutarSignal(p), NEW r \in Recursos, r = Actual(p).param
    PROVE  /\ \A q \in Recursos : p \notin Elementos(colaRecurso[q])
           /\ UNCHANGED <<kernel, colaRecurso>>
           /\ instancias'[r] = instancias[r] + 1
           /\ EnCamino(r)' = EnCamino(r) + IF colaRecurso[r] # <<>> THEN 1 ELSE 0
           /\ \A q \in Recursos \ {r} :
                 UNCHANGED instancias[q] /\ EnCamino(q)' = EnCamino(q)
<1>1. EnTurno = {p}
  BY TurnoLlega DEF EjecutarSignal
<1>2. \A q \in Recursos : p \notin Elementos(colaRecurso[q])
  BY <1>1 DEF Reparto, Aparte, Cajas, Nombres, EnColas
<1>3. /\ instancias \in [Recursos -> Int] /\ semRecurso \in [Recursos -> Nat]
  BY DEF ConversacionesInv, TypeOK
<1>4. /\ instancias' = [instancias EXCEPT ![r] = @ + 1]
      /\ UNCHANGED <<colaRecurso, hiloRecurso, kernel>>
      /\ semRecurso' = IF colaRecurso[r] # <<>>
                       THEN [semRecurso EXCEPT ![r] = @ + 1] ELSE semRecurso
  BY DEF EjecutarSignal, restoRecurso, Llega, Vivo, HayEnCola
<1> QED BY <1>2, <1>3, <1>4 DEF EnCamino

LEMMA FichaSignal ==
    ASSUME TypeOK, EsperasJustas, NEW p \in Procesos, NEW r \in Recursos,
           NEW R \in SUBSET Recursos, r \in R, FichaUnica(R),
           Debe(p, R)' \in {0, 1}, Debe(p, R) \in {0, 1}, Debe(p, R)' = Debe(p, R) - 1,
           \A q \in Procesos \ {p} : Debe(q, R)' = Debe(q, R),
           \A q \in Recursos : p \notin Elementos(colaRecurso[q]),
           UNCHANGED colaRecurso, instancias'[r] = instancias[r] + 1,
           EnCamino(r)' = EnCamino(r) + (IF colaRecurso[r] # <<>> THEN 1 ELSE 0),
           \A q \in Recursos \ {r} : UNCHANGED instancias[q] /\ EnCamino(q)' = EnCamino(q)
    PROVE  FichaUnica(R)'
<1>1. Tiene(p, R) /\ ~Tiene(p, R)'
  BY DEF Tiene
<1>2. \A q \in R \ {r} : Sueltas(q)' = Sueltas(q)
  BY DEF Sueltas
<1>3. \A q \in R : Sueltas(q) = 0
  BY <1>1 DEF FichaUnica
<1>4. Sueltas(r)' = 1
  <2>1. EnCamino(r) = 0 /\ instancias[r] <= 0
    BY <1>3, Cantidades DEF Sueltas
  <2>2. Len(colaRecurso[r]) = EnCamino(r) + IF instancias[r] < 0 THEN -instancias[r] ELSE 0
    BY DEF EsperasJustas
  <2> QED BY <2>1, <2>2, Cantidades DEF Sueltas
<1>5. \A q \in Procesos \ {p} : ~Tiene(q, R) /\ ~Tiene(q, R)'
  <2>1. \A q \in Procesos \ {p} : ~Tiene(q, R)
    BY <1>1 DEF FichaUnica
  <2> QED BY <2>1 DEF Tiene, Elementos
<1>6. \E q \in R : Instancias[q] = 1
  BY <1>1 DEF FichaUnica
<1> QED BY <1>1, <1>2, <1>3, <1>4, <1>5, <1>6 DEF FichaUnica

LEMMA RecursosSignal ==
    ASSUME NEW grupo \in [Recursos -> Recursos], UnaUnidad(grupo), RecursosConocidos,
           RepartoInv, TurnoSegun, ServidasSegun, ServidasSegun', RecursosInv(grupo),
           NEW p \in Procesos, EjecutarSignal(p)
    PROVE  RecursosInv(grupo)'
<1>1. PICK r \in Recursos : r = Actual(p).param
  BY PidePorRecurso DEF RepartoInv
<1>0. TypeOK /\ ConversacionesInv /\ Reparto /\ EsperasJustas
  BY DEF RepartoInv, ConversacionesInv, RecursosInv
<1>2. /\ \A q \in Recursos : p \notin Elementos(colaRecurso[q])
      /\ UNCHANGED <<kernel, colaRecurso>>
      /\ instancias'[r] = instancias[r] + 1
      /\ EnCamino(r)' = EnCamino(r) + IF colaRecurso[r] # <<>> THEN 1 ELSE 0
      /\ \A q \in Recursos \ {r} : UNCHANGED instancias[q] /\ EnCamino(q)' = EnCamino(q)
  BY <1>0, <1>1, EfectoSignal
<1>3. ASSUME NEW R \in SUBSET Recursos
      PROVE  /\ \A q \in Procesos \ {p} : Debe(q, R)' = Debe(q, R)
             /\ Debe(p, R) \in Int
             /\ Debe(p, R)' = Debe(p, R) - IF r \in R THEN 1 ELSE 0
  BY <1>0, <1>1, DebePide DEF DebeIgual
<1>4. ASSUME NEW g \in Recursos PROVE FichaUnica(Grupo(grupo, g))'
  <2> SUFFICES ASSUME NEW R \in SUBSET Recursos, R = Grupo(grupo, g)
               PROVE  FichaUnica(R)'
    BY DEF Grupo
  <2>1. FichaUnica(R)
    BY DEF RecursosInv
  <2>2. Debe(p, R) \in {0, 1} /\ Debe(p, R)' \in {0, 1}
    BY UnaDeuda
  <2>3. /\ \A q \in Procesos \ {p} : Debe(q, R)' = Debe(q, R)
        /\ Debe(p, R) \in Int
        /\ Debe(p, R)' = Debe(p, R) - IF r \in R THEN 1 ELSE 0
    BY <1>3
  <2>4. CASE r \in R
    BY <1>0, <1>2, <2>1, <2>2, <2>3, <2>4, FichaSignal
  <2>5. CASE r \notin R
    <3>1. \A q \in Procesos : Debe(q, R)' = Debe(q, R)
      BY <2>3, <2>5
    <3>2. \A q \in R : /\ UNCHANGED <<instancias[q], colaRecurso[q]>>
                       /\ EnCamino(q)' = EnCamino(q)
      BY <1>2, <2>5
    <3> QED BY <2>1, <3>1, <3>2, FichaAjena
  <2> QED BY <2>4, <2>5
<1>5. Deudores(grupo)'
  <2> SUFFICES ASSUME NEW s \in Recursos, NEW q \in Elementos(colaRecurso[s]),
                      NEW R \in SUBSET Recursos, R = Grupo(grupo, grupo[s])
               PROVE  Debe(q, R)' > 0
    BY <1>2 DEF Deudores, Elementos, Grupo
  <2>1. Debe(q, R) > 0 /\ q # p /\ q \in Procesos
    BY <1>0, <1>2, Cantidades DEF RecursosInv, Deudores
  <2> QED BY <1>3, <2>1
<1>6. EsperasJustas'
  <2> SUFFICES ASSUME NEW s \in Recursos
               PROVE  Len(colaRecurso[s]) = EnCamino(s)'
                        + IF instancias'[s] < 0 THEN -instancias'[s] ELSE 0
    BY <1>2 DEF EsperasJustas
  <2>1. Len(colaRecurso[s]) = EnCamino(s) + IF instancias[s] < 0 THEN -instancias[s] ELSE 0
    BY DEF RecursosInv, EsperasJustas
  <2>2. /\ instancias[s] \in Int /\ EnCamino(s) \in Nat /\ Len(colaRecurso[s]) \in Nat
        /\ (Len(colaRecurso[s]) = 0 <=> colaRecurso[s] = <<>>)
    BY <1>0, Cantidades
  <2>3. CASE s = r
    <3>1. /\ EnCamino(s)' = EnCamino(s) + IF colaRecurso[s] # <<>> THEN 1 ELSE 0
          /\ instancias'[s] = instancias[s] + 1
      BY <1>2, <2>3
    <3>2. PICK R \in SUBSET Recursos : R = Grupo(grupo, grupo[r])
      BY DEF Grupo
    <3>3. Debe(p, R) > 0 /\ r \in R
      <4>1. r \in R /\ grupo[r] \in Recursos
        BY <3>2 DEF Grupo
      <4>2. Debe(p, R) \in {0, 1} /\ Debe(p, R)' \in {0, 1}
        BY <3>2, <4>1, UnaDeuda
      <4> QED BY <1>3, <4>1, <4>2
    <3>4. Tiene(p, R) /\ FichaUnica(R)
      BY <1>2, <3>2, <3>3 DEF Tiene, RecursosInv
    <3>5. Sueltas(s) = 0
      BY <2>3, <3>3, <3>4 DEF FichaUnica
    <3>6. EnCamino(s) = 0 /\ instancias[s] <= 0
      BY <2>2, <3>5 DEF Sueltas
    <3> QED BY <2>1, <2>2, <3>1, <3>6
  <2>4. CASE s # r
    BY <1>2, <2>1, <2>2, <2>4
  <2> QED BY <2>3, <2>4
<1> QED BY <1>2, <1>4, <1>5, <1>6 DEF RecursosInv, KernelVivo

\* What the thread of a resource does: it finds somebody in the queue.
LEMMA EfectoSaca ==
    ASSUME TypeOK, Reparto, EsperasJustas, NEW r \in Recursos, RecursoSaca(r)
    PROVE  /\ colaRecurso[r] \in Seq(Procesos) /\ colaRecurso[r] # <<>>
           /\ Head(colaRecurso[r]) \in Elementos(colaRecurso[r])
           /\ UNCHANGED <<kernel, instancias>>
           /\ EnCamino(r) >= 1 /\ EnCamino(r)' = EnCamino(r) - 1
           /\ Len(colaRecurso'[r]) = Len(colaRecurso[r]) - 1
           /\ Elementos(colaRecurso[r])' = Elementos(colaRecurso[r]) \ {Head(colaRecurso[r])}
           /\ \A q \in Recursos \ {r} :
                 /\ UNCHANGED colaRecurso[q] /\ EnCamino(q)' = EnCamino(q)
                 /\ Head(colaRecurso[r]) \notin Elementos(colaRecurso[q])
<1>1. /\ colaRecurso \in [Recursos -> Seq(Procesos)] /\ semRecurso[r] \in Nat
      /\ hiloRecurso \in [Recursos -> {"espera", "saca"}]
      /\ SinRepetir(colaRecurso[r])
  BY DEF TypeOK, Reparto, SinRepetidos
<1>2. /\ hiloRecurso[r] = "saca" /\ hiloRecurso' = [hiloRecurso EXCEPT ![r] = "espera"]
      /\ UNCHANGED <<instancias, semRecurso>>
  BY DEF RecursoSaca
<1>3. colaRecurso[r] # <<>>
  <2>1. Len(colaRecurso[r]) = EnCamino(r) + IF instancias[r] < 0 THEN -instancias[r] ELSE 0
    BY DEF EsperasJustas
  <2>2. EnCamino(r) >= 1
    BY <1>1, <1>2 DEF EnCamino
  <2> QED BY <2>1, <2>2, Cantidades
<1>4. UNCHANGED kernel /\ colaRecurso' = [colaRecurso EXCEPT ![r] = Tail(@)]
  BY <1>3 DEF RecursoSaca
<1>5. /\ Head(colaRecurso[r]) \in Elementos(colaRecurso[r])
      /\ Elementos(Tail(colaRecurso[r])) = Elementos(colaRecurso[r]) \ {Head(colaRecurso[r])}
      /\ Len(Tail(colaRecurso[r])) = Len(colaRecurso[r]) - 1
  BY <1>1, <1>3, SinRepetirTail, ElementosDeTail
<1>6. /\ colaRecurso'[r] = Tail(colaRecurso[r])
      /\ \A q \in Recursos \ {r} : colaRecurso'[q] = colaRecurso[q]
  BY <1>1, <1>4
<1>7. /\ EnCamino(r) >= 1 /\ EnCamino(r)' = EnCamino(r) - 1
      /\ \A q \in Recursos \ {r} : EnCamino(q)' = EnCamino(q)
  BY <1>1, <1>2 DEF EnCamino
<1>8. Elementos(colaRecurso[r])' = Elementos(Tail(colaRecurso[r]))
  BY <1>6 DEF Elementos
<1>9. \A q \in Recursos \ {r} : Head(colaRecurso[r]) \notin Elementos(colaRecurso[q])
  BY <1>5 DEF Reparto, ColasAparte
<1> QED BY <1>1, <1>2, <1>3, <1>4, <1>5, <1>6, <1>7, <1>8, <1>9

LEMMA FichaSaca ==
    ASSUME TypeOK, NEW r \in Recursos, NEW R \in SUBSET Recursos, r \in R, FichaUnica(R),
           NEW h \in Procesos, Debe(h, R) > 0, h \in Elementos(colaRecurso[r]),
           \A q \in Procesos : Debe(q, R)' = Debe(q, R),
           UNCHANGED instancias,
           EnCamino(r) >= 1, EnCamino(r)' = EnCamino(r) - 1,
           Elementos(colaRecurso[r])' = Elementos(colaRecurso[r]) \ {h},
           \A q \in Recursos \ {r} :
              /\ UNCHANGED colaRecurso[q] /\ EnCamino(q)' = EnCamino(q)
              /\ h \notin Elementos(colaRecurso[q])
    PROVE  FichaUnica(R)'
<1>1. \A q \in R \ {r} : /\ Sueltas(q)' = Sueltas(q)
                         /\ Elementos(colaRecurso[q])' = Elementos(colaRecurso[q])
  BY DEF Sueltas, Elementos
<1>2. Sueltas(r) = 1 /\ Sueltas(r)' = 0
  <2>1. Sueltas(r) <= 1
    BY DEF FichaUnica
  <2> QED BY <2>1, Cantidades DEF Sueltas
<1>3. \A q \in R \ {r} : Sueltas(q) = 0
  BY <1>2 DEF FichaUnica
<1>4. \A q \in Procesos : ~Tiene(q, R)
  BY <1>2 DEF FichaUnica
<1>5. Tiene(h, R)'
  BY <1>1 DEF Tiene
<1>6. \A q \in Procesos \ {h} : ~Tiene(q, R)'
  BY <1>1, <1>4 DEF Tiene
<1>7. \E q \in R : Instancias[q] = 1
  BY <1>2 DEF FichaUnica
<1> QED BY <1>1, <1>2, <1>3, <1>5, <1>6, <1>7 DEF FichaUnica

LEMMA RecursosSaca ==
    ASSUME NEW grupo \in [Recursos -> Recursos], TypeOK, Reparto, RecursosInv(grupo),
           NEW r \in Recursos, RecursoSaca(r)
    PROVE  RecursosInv(grupo)'
<1>0. EsperasJustas
  BY DEF RecursosInv
<1>1. PICK h : h = Head(colaRecurso[r])
  OBVIOUS
<1>2. /\ h \in Procesos /\ h \in Elementos(colaRecurso[r])
      /\ UNCHANGED <<kernel, instancias>>
      /\ EnCamino(r) >= 1 /\ EnCamino(r)' = EnCamino(r) - 1
      /\ Len(colaRecurso'[r]) = Len(colaRecurso[r]) - 1
      /\ Elementos(colaRecurso[r])' = Elementos(colaRecurso[r]) \ {h}
      /\ \A q \in Recursos \ {r} :
            /\ UNCHANGED colaRecurso[q] /\ EnCamino(q)' = EnCamino(q)
            /\ h \notin Elementos(colaRecurso[q])
  BY <1>0, <1>1, EfectoSaca, Cantidades
<1>3. UNCHANGED <<pc, aKernel>>
  BY DEF RecursoSaca, laCpu
<1>4. \A q \in Procesos : \A R \in SUBSET Recursos : Debe(q, R)' = Debe(q, R)
  BY <1>3 DEF Debe, Haber, Veces, Servidas, EsEntrega
<1>5. ASSUME NEW g \in Recursos PROVE FichaUnica(Grupo(grupo, g))'
  <2> SUFFICES ASSUME NEW R \in SUBSET Recursos, R = Grupo(grupo, g)
               PROVE  FichaUnica(R)'
    BY DEF Grupo
  <2>1. FichaUnica(R)
    BY DEF RecursosInv
  <2>2. CASE r \in R
    <3>1. R = Grupo(grupo, grupo[r])
      BY <2>2 DEF Grupo
    <3>2. Debe(h, R) > 0
      BY <1>2, <3>1 DEF RecursosInv, Deudores
    <3> QED BY <1>2, <1>4, <2>1, <2>2, <3>2, FichaSaca
  <2>3. CASE r \notin R
    <3>1. \A q \in R : /\ UNCHANGED <<instancias[q], colaRecurso[q]>>
                       /\ EnCamino(q)' = EnCamino(q)
      BY <1>2, <2>3
    <3> QED BY <1>4, <2>1, <3>1, FichaAjena
  <2> QED BY <2>2, <2>3
<1>6. Deudores(grupo)'
  <2> SUFFICES ASSUME NEW s \in Recursos, NEW q \in Elementos(colaRecurso[s])',
                      NEW R \in SUBSET Recursos, R = Grupo(grupo, grupo[s])
               PROVE  Debe(q, R)' > 0
    BY DEF Deudores, Grupo
  <2>1. q \in Elementos(colaRecurso[s])
    BY <1>2 DEF Elementos
  <2>2. Debe(q, R) > 0 /\ q \in Procesos
    BY <2>1, Cantidades DEF RecursosInv, Deudores
  <2> QED BY <1>4, <2>2
<1>7. EsperasJustas'
  <2> SUFFICES ASSUME NEW s \in Recursos
               PROVE  Len(colaRecurso'[s]) = EnCamino(s)'
                        + IF instancias[s] < 0 THEN -instancias[s] ELSE 0
    BY <1>2 DEF EsperasJustas
  <2>1. Len(colaRecurso[s]) = EnCamino(s) + IF instancias[s] < 0 THEN -instancias[s] ELSE 0
    BY DEF RecursosInv, EsperasJustas
  <2>2. instancias[s] \in Int /\ EnCamino(s) \in Nat /\ Len(colaRecurso[s]) \in Nat
    BY Cantidades
  <2> QED BY <1>2, <2>1, <2>2
<1> QED BY <1>2, <1>5, <1>6, <1>7 DEF RecursosInv, KernelVivo

-----------------------------------------------------------------------------
(* Every step keeps the tokens.                                                *)

\* The other threads: nothing is served.
LEMMA RecursosQuietos ==
    ASSUME TypeOK, NEW grupo \in [Recursos -> Recursos], RecursosInv(grupo),
           UNCHANGED <<instancias, colaRecurso, kernel, semRecurso, hiloRecurso, pc,
                       aKernel>>
    PROVE  RecursosInv(grupo)'
<1>1. \A p \in Procesos : DebeIgual(p)
  BY DEF DebeIgual, Debe, Haber, Veces, Servidas, EsEntrega
<1>2. \A r \in Recursos : EnCamino(r)' = EnCamino(r)
  BY DEF EnCamino
<1> QED BY <1>1, <1>2, RecursosAjenos

\* The thread of a resource takes a post.
LEMMA RecursosDespierta ==
    ASSUME TypeOK, NEW grupo \in [Recursos -> Recursos], RecursosInv(grupo),
           NEW r \in Recursos, RecursoDespierta(r)
    PROVE  RecursosInv(grupo)'
<1>1. /\ UNCHANGED <<instancias, colaRecurso, kernel, pc, aKernel>>
      /\ hiloRecurso[r] = "espera" /\ semRecurso[r] > 0
      /\ semRecurso' = [semRecurso EXCEPT ![r] = @ - 1]
      /\ hiloRecurso' = [hiloRecurso EXCEPT ![r] = "saca"]
  BY DEF RecursoDespierta, Vivo, laCpu
<1>2. \A p \in Procesos : DebeIgual(p)
  BY <1>1 DEF DebeIgual, Debe, Haber, Veces, Servidas, EsEntrega
<1>3. \A q \in Recursos : EnCamino(q)' = EnCamino(q)
  BY <1>1 DEF EnCamino, TypeOK
<1> QED BY <1>1, <1>2, <1>3, RecursosAjenos

LEMMA RecursosPaso ==
    ASSUME NEW grupo \in [Recursos -> Recursos], UnaUnidad(grupo), RecursosConocidos
    PROVE  RepartoInv /\ RepartoInv' /\ RecursosInv(grupo) /\ [Next]_vars
              => RecursosInv(grupo)'
<1> SUFFICES ASSUME RepartoInv, RepartoInv', RecursosInv(grupo), [Next]_vars
             PROVE  RecursosInv(grupo)'
  OBVIOUS
<1>0. /\ TypeOK /\ Reparto /\ ConversacionesInv
      /\ TurnoSegun /\ ServidasSegun /\ ServidasSegun'
  <2>1. TypeOK /\ Dialogo /\ TypeOK' /\ Dialogo' /\ Reparto /\ ConversacionesInv
    BY DEF RepartoInv, ConversacionesInv
  <2>2. TypeOK' /\ Dialogo' => ServidasSegun'
    BY ServidasDe, PTL
  <2> QED BY <2>1, <2>2, ServidasDe, TurnoDe
<1>1. CASE \/ DeConsolas \/ HiloNew \/ HiloExec
           \/ \E p \in Procesos : TerminarIO(p)
           \/ Desbloqueado \/ FileSystem \/ Memoria \/ Notificar \/ UNCHANGED vars
  <2>1. UNCHANGED <<instancias, colaRecurso, kernel, semRecurso, hiloRecurso, pc,
                    aKernel>>
    <3>1. CASE HiloNew \/ HiloExec
      BY <3>1 DEF HiloNew, NewDespierta, NewDuerme, Admitir, HiloExec, ExecDespierta,
                  ExecDuerme, TomarCpu, Despachar, recursos, laCpu, Vivo
    <3>2. CASE DeConsolas \/ \E p \in Procesos : TerminarIO(p)
      BY <3>2 DEF DeConsolas, Conectar, TerminarIO, recursos, laCpu, Vivo
    <3>3. CASE Desbloqueado \/ FileSystem \/ Memoria \/ Notificar \/ UNCHANGED vars
      BY <3>3 DEF Desbloqueado, FileSystem, Memoria, Notificar, vars, recursos, laCpu, Vivo
    <3> QED BY <1>1, <3>1, <3>2, <3>3
  <2> QED BY <1>0, <2>1, RecursosQuietos
<1>2. CASE CreacionExitosa \/ RealizarCompactacion \/ Compactar \/ SinMemoria
  <2>1. \E op : Resultado(op)
    BY <1>2 DEF CreacionExitosa, RealizarCompactacion, Compactar, SinMemoria
  <2>2. UNCHANGED <<instancias, colaRecurso, kernel, semRecurso, hiloRecurso, pc,
                    aKernel>>
    BY <2>1 DEF Resultado, recursos, laCpu, Vivo
  <2> QED BY <1>0, <2>2, RecursosQuietos
<1>3. CASE Cpu
  <2>1. UNCHANGED <<instancias, colaRecurso, kernel, semRecurso, hiloRecurso>>
    BY <1>3 DEF Cpu, CpuRecibe, CpuLocal, CpuConsulta, CpuEntrega, CpuRespuesta,
                restoCpu, recursos, Vivo
  <2>2. \A r \in Recursos : EnCamino(r)' = EnCamino(r)
    BY <2>1 DEF EnCamino
  <2> QED BY <1>0, <1>3, <2>1, <2>2, DeudasCpu, RecursosAjenos
<1>4. ASSUME NEW p \in Procesos,
             \/ Desalojado(p) \/ EjecutarIO(p) \/ Transferir(p) \/ PedirSegmento(p)
             \/ Finalizar(p)
      PROVE  RecursosInv(grupo)'
  <2>1. PICK op : Llega(op, p) /\ op \notin {"EJECUTAR_WAIT", "EJECUTAR_SIGNAL"}
    BY <1>4 DEF Desalojado, EjecutarIO, Transferir, PedirSegmento, Finalizar
  <2>2. UNCHANGED <<instancias, colaRecurso, semRecurso, hiloRecurso, pc, cpu>>
    BY <1>4 DEF Desalojado, EjecutarIO, Transferir, PedirSegmento, Finalizar,
                recursos, laCpu
  <2>3. UNCHANGED kernel
    BY <2>1 DEF Llega, Vivo
  <2>4. \A r \in Recursos : EnCamino(r)' = EnCamino(r)
    BY <2>2 DEF EnCamino
  <2>5. \A q \in Procesos : DebeIgual(q)
    BY <1>0, <2>1, <2>2, DeudasLlega
  <2> QED BY <1>0, <2>2, <2>3, <2>4, <2>5, RecursosAjenos
<1>5. ASSUME NEW p \in Procesos, EjecutarWait(p) \/ EjecutarSignal(p)
      PROVE  RecursosInv(grupo)'
  BY <1>0, <1>5, RecursosWait, RecursosSignal
<1>6. ASSUME NEW r \in Recursos, IniciarRecurso(r) PROVE RecursosInv(grupo)'
  BY <1>0, <1>6, RecursosDespierta, RecursosSaca DEF IniciarRecurso
<1> QED BY <1>1, <1>2, <1>3, <1>4, <1>5, <1>6 DEF Next, AtenderCpu

\* At the beginning every unit is free and nothing was served.
LEMMA RecursosInicial ==
    ASSUME NEW grupo \in [Recursos -> Recursos], UnaUnidad(grupo), Init
    PROVE  RecursosInv(grupo)
<1>1. \A r \in Recursos :
          /\ colaRecurso[r] = <<>> /\ EnCamino(r) = 0 /\ instancias[r] = Instancias[r]
          /\ Instancias[r] \in Nat /\ Instancias[r] <= 1 /\ Sueltas(r) = Instancias[r]
  BY InstanciasAssumption DEF Init, EnCamino, Sueltas, UnaUnidad
<1>2. \A r \in Recursos : Elementos(colaRecurso[r]) = {}
  BY <1>1, EmptySeq DEF Elementos
<1>3. ASSUME NEW p \in Procesos, NEW R PROVE Debe(p, R) = 0
  <2>1. Servidas(p) = 0
    <3>1. {i \in DOMAIN aKernel : aKernel[i].pid = p /\ ~EsEntrega(i)} = {}
      BY EmptySeq DEF Init
    <3> QED BY <3>1, FS_EmptySet DEF Servidas, Init
  <2>2. ASSUME NEW n PROVE Veces(p, 0, n, R) = 0
    <3>1. {i \in 1 .. 0 : Programa[p][i].nombre = n /\ Programa[p][i].param \in R} = {}
      OBVIOUS
    <3> QED BY <3>1, FS_EmptySet DEF Veces
  <2> QED BY <2>1, <2>2 DEF Debe, Haber
<1>4. ASSUME NEW g \in Recursos PROVE FichaUnica(Grupo(grupo, g))
  <2> SUFFICES ASSUME NEW R \in SUBSET Recursos, R = Grupo(grupo, g)
               PROVE  FichaUnica(R)
    BY DEF Grupo
  <2>1. \A p \in Procesos : ~Tiene(p, R)
    BY <1>3 DEF Tiene
  <2>2. \A r, q \in R : r # q => Instancias[r] + Instancias[q] <= 1
    BY DEF Grupo, UnaUnidad
  <2> QED BY <1>1, <2>1, <2>2 DEF FichaUnica
<1>5. Deudores(grupo)
  BY <1>2 DEF Deudores
<1>6. EsperasJustas
  BY <1>1, EmptySeq DEF EsperasJustas
<1> QED BY <1>4, <1>5, <1>6 DEF RecursosInv, KernelVivo, Init

LEMMA RecursosSiempre ==
    ASSUME NEW grupo \in [Recursos -> Recursos], UnaUnidad(grupo), RecursosConocidos
    PROVE  Spec => [](RepartoInv /\ RecursosInv(grupo))
<1>1. Init => RecursosInv(grupo)
  BY RecursosInicial
<1>2. RepartoInv /\ RepartoInv' /\ RecursosInv(grupo) /\ [Next]_vars
          => RecursosInv(grupo)'
  BY RecursosPaso
<1>3. Spec => []RepartoInv
  BY RepartoSiempre
<1> QED BY <1>1, <1>2, <1>3, PTL DEF Spec

\* The hypothesis of the theorems that follow: the resources can be put in groups
\* so that RECURSOS has one unit in all for each.
HayUnaUnidad == \E grupo \in [Recursos -> Recursos] : UnaUnidad(grupo)

\* Wake-ups match waiters: a SIGNAL posts the thread of the resource exactly when
\* somebody waits, so that nobody is left waiting next to a free unit.
THEOREM EsperasCorrectas ==
    RecursosConocidos /\ HayUnaUnidad => (Spec => []EsperasJustas)
<1> SUFFICES ASSUME RecursosConocidos, NEW grupo \in [Recursos -> Recursos],
                    UnaUnidad(grupo)
             PROVE  Spec => []EsperasJustas
  BY DEF HayUnaUnidad
<1>1. RecursosInv(grupo) => EsperasJustas
  BY DEF RecursosInv
<1> QED BY <1>1, RecursosSiempre, PTL

\* The thread of a resource never pops an empty queue, which would bring the
\* kernel down.
THEOREM KernelVivoCorrecto ==
    RecursosConocidos /\ HayUnaUnidad => (Spec => []KernelVivo)
<1> SUFFICES ASSUME RecursosConocidos, NEW grupo \in [Recursos -> Recursos],
                    UnaUnidad(grupo)
             PROVE  Spec => []KernelVivo
  BY DEF HayUnaUnidad
<1>1. RecursosInv(grupo) => KernelVivo
  BY DEF RecursosInv
<1> QED BY <1>1, RecursosSiempre, PTL

\* Mutual exclusion: when each resource is a group of its own, the processes that
\* hold a resource are never more than the units of RECURSOS.
CadaUno == [r \in Recursos |-> r]

LEMMA PoseeTiene ==
    ASSUME TypeOK, Reparto, ServidasSegun, UnaUnidad(CadaUno),
           NEW p \in Procesos, NEW r \in Recursos, Posee(p, r) > 0
    PROVE  Tiene(p, {r})
<1>1. Grupo(CadaUno, r) = {r} /\ CadaUno \in [Recursos -> Recursos]
  BY DEF Grupo, CadaUno
<1>2. Debe(p, {r}) \in {0, 1}
  <2>1. Servidas(p) \in 0 .. Len(Programa[p])
    BY DEF ServidasSegun
  <2> QED BY <1>1, <2>1 DEF Debe, UnaUnidad
<1>3. Posee(p, r) = Debe(p, {r}) - Cardinality(Sitios(colaRecurso[r], p, r))
  BY DEF Posee, Cuenta, Debe, Haber
<1>4. colaRecurso[r] \in Seq(Procesos) /\ SinRepetir(colaRecurso[r])
  BY DEF TypeOK, Reparto, SinRepetidos
<1>5. p \notin Elementos(colaRecurso[r])
  <2> SUFFICES ASSUME p \in Elementos(colaRecurso[r]) PROVE FALSE
    OBVIOUS
  <2>1. \E l : Sitios(colaRecurso[r], p, r) = {l}
    BY <1>4, UnSitio
  <2>2. Cardinality(Sitios(colaRecurso[r], p, r)) = 1
    BY <2>1, FS_Singleton
  <2> QED BY <1>2, <1>3, <2>2
<1>6. Cardinality(Sitios(colaRecurso[r], p, r)) = 0
  <2>1. Sitios(colaRecurso[r], p, r) = {}
    BY <1>4, <1>5, UnSitio
  <2> QED BY <2>1, FS_EmptySet
<1> QED BY <1>2, <1>3, <1>5, <1>6 DEF Tiene

THEOREM ExclusionCorrecta ==
    RecursosConocidos /\ UnaUnidad(CadaUno) => (Spec => []ExclusionDeRecursos)
<1> SUFFICES ASSUME RecursosConocidos, NEW grupo \in [Recursos -> Recursos],
                    grupo = CadaUno, UnaUnidad(grupo)
             PROVE  Spec => []ExclusionDeRecursos
  BY DEF CadaUno
<1>1. \A r \in Recursos : Grupo(grupo, r) = {r}
  BY DEF CadaUno, Grupo
<1>2. RepartoInv /\ RecursosInv(grupo) => ExclusionDeRecursos
  <2> SUFFICES ASSUME RepartoInv, RecursosInv(grupo), NEW r \in Recursos
               PROVE  Cardinality({p \in Procesos : Posee(p, r) > 0}) <= Instancias[r]
    BY DEF ExclusionDeRecursos
  <2> DEFINE S == {p \in Procesos : Posee(p, r) > 0}
  <2>1. TypeOK /\ Reparto /\ ServidasSegun
    BY ServidasDe DEF RepartoInv, ConversacionesInv
  <2>2. \A p \in S : Tiene(p, {r})
    BY <2>1, PoseeTiene
  <2>3. FichaUnica({r}) /\ Instancias[r] \in Nat
    BY <1>1, InstanciasAssumption DEF RecursosInv
  <2>4. CASE S = {}
    BY <2>3, <2>4, FS_EmptySet
  <2>5. CASE S # {}
    <3>0. PICK p : p \in S
      BY <2>5
    <3>1. S = {p}
      BY <2>2, <2>3, <3>0 DEF FichaUnica
    <3>2. Instancias[r] = 1
      BY <2>2, <2>3, <3>1 DEF FichaUnica
    <3> QED BY <3>1, <3>2, FS_Singleton
  <2> QED BY <2>4, <2>5
<1> QED BY <1>2, RecursosSiempre, PTL

-----------------------------------------------------------------------------
(* What a stop of all the threads means.                                       *)

\* Whoever puts a process in a queue wakes the thread that takes it out; there
\* are at least as many wake-ups as processes that have a unit.
AvisoNew == nuevos # <<>> => hiloNew = "ciclo" \/ semNuevo > 0
AvisoExec == listos # <<>> => hiloExec # "espera" \/ semReady > 0
AvisoRecurso(r) ==
    Len(colaRecurso[r]) <= EnCamino(r) + IF instancias[r] < 0 THEN -instancias[r] ELSE 0
Avisos == AvisoNew /\ AvisoExec /\ \A r \in Recursos : AvisoRecurso(r)

\* A program that came to its last instruction has asked to end.
Ultima(p) ==
    pc[p] = Len(Programa[p]) =>
        \/ consola[p] \in {"terminada", "finalizada"} \/ Saliendo(p)
        \/ \E i \in DOMAIN aKernel :
              aKernel[i].pid = p /\ aKernel[i].op \in {"FINALIZAR", "SEG_FAULT"}
Ultimas == \A p \in Procesos : Ultima(p)

\* What changes cola_new, and where its thread is.
LEMMA AvisoNewPaso == TypeOK /\ AvisoNew /\ [Next]_vars => AvisoNew'
<1> SUFFICES ASSUME TypeOK, AvisoNew, [Next]_vars PROVE AvisoNew'
  OBVIOUS
<1>0. semNuevo \in Nat
  BY DEF TypeOK
<1>1. CASE DeConsolas
  BY <1>0, <1>1 DEF DeConsolas, Conectar, AgregarAColaNew, AvisoNew
<1>2. CASE HiloNew
  BY <1>2 DEF HiloNew, NewDespierta, NewDuerme, Admitir, AvisoNew
<1>3. CASE UNCHANGED <<nuevos, hiloNew, semNuevo>>
  BY <1>3 DEF AvisoNew
<1>4. CASE HiloExec \/ Cpu \/ UNCHANGED vars
  BY <1>3, <1>4 DEF HiloExec, ExecDespierta, ExecDuerme, TomarCpu, Despachar, Cpu, CpuRecibe,
                    CpuLocal, CpuConsulta, CpuEntrega, CpuRespuesta, restoCpu, planif, semaforos, vars
<1>5. ASSUME NEW p \in Procesos,
             \/ Desalojado(p) \/ EjecutarWait(p) \/ EjecutarSignal(p) \/ EjecutarIO(p)
             \/ Transferir(p) \/ PedirSegmento(p) \/ Finalizar(p)
      PROVE  UNCHANGED <<nuevos, hiloNew, semNuevo>>
  BY <1>5 DEF Desalojado, EjecutarWait, EjecutarSignal, EjecutarIO, Transferir,
              PedirSegmento, Finalizar, restoRecurso, planif, semaforos
<1>6. CASE Notificar \/ CreacionExitosa \/ RealizarCompactacion \/ Compactar \/ SinMemoria
  BY <1>3, <1>6 DEF Notificar, CreacionExitosa, RealizarCompactacion, Compactar, SinMemoria,
                    Resultado, planif, semaforos
<1>7. CASE \/ \E p \in Procesos : TerminarIO(p)
           \/ \E r \in Recursos : IniciarRecurso(r)
           \/ Desbloqueado \/ FileSystem \/ Memoria
  BY <1>3, <1>7 DEF TerminarIO, IniciarRecurso, RecursoDespierta, RecursoSaca, Desbloqueado,
                    FileSystem, Memoria, planif, semaforos
<1> QED BY <1>1, <1>2, <1>3, <1>4, <1>5, <1>6, <1>7 DEF Next, AtenderCpu

\* Whoever goes to cola_ready posts sem_ready.
LEMMA AvisoExecPaso == TypeOK /\ AvisoExec /\ [Next]_vars => AvisoExec'
<1> SUFFICES ASSUME TypeOK, AvisoExec, [Next]_vars PROVE AvisoExec'
  OBVIOUS
<1>0. semReady \in Nat
  BY DEF TypeOK
<1>1. ASSUME NEW p, AgregarAColaReady(p) PROVE AvisoExec'
  BY <1>0, <1>1 DEF AgregarAColaReady, AvisoExec
<1>2. CASE HiloExec
  BY <1>2 DEF HiloExec, ExecDespierta, ExecDuerme, TomarCpu, Despachar, AvisoExec
<1>3. CASE UNCHANGED <<listos, hiloExec, semReady>>
  BY <1>3 DEF AvisoExec
<1>4. CASE DeConsolas \/ HiloNew
  BY <1>1, <1>3, <1>4 DEF DeConsolas, Conectar, HiloNew, NewDespierta, NewDuerme, Admitir, semaforos
<1>5. CASE Cpu \/ UNCHANGED vars
  BY <1>3, <1>5 DEF Cpu, CpuRecibe, CpuLocal, CpuConsulta, CpuEntrega, CpuRespuesta,
                    restoCpu, planif, semaforos, vars
<1>6. ASSUME NEW p \in Procesos,
             \/ EjecutarWait(p) \/ EjecutarSignal(p) \/ EjecutarIO(p)
             \/ Transferir(p) \/ PedirSegmento(p) \/ Finalizar(p)
      PROVE  UNCHANGED <<listos, hiloExec, semReady>>
  BY <1>6 DEF EjecutarWait, EjecutarSignal, EjecutarIO, Transferir,
              PedirSegmento, Finalizar, restoRecurso, planif, semaforos
<1>7. CASE Notificar \/ CreacionExitosa \/ RealizarCompactacion \/ Compactar \/ SinMemoria
  BY <1>3, <1>7 DEF Notificar, CreacionExitosa, RealizarCompactacion, Compactar, SinMemoria,
                    Resultado, planif, semaforos
<1>8. CASE \/ \E p \in Procesos : TerminarIO(p) \/ Desalojado(p)
           \/ Desbloqueado
  BY <1>1, <1>8 DEF TerminarIO, Desalojado, Desbloqueado
<1>9. ASSUME NEW r \in Recursos, IniciarRecurso(r) PROVE AvisoExec'
  BY <1>1, <1>3, <1>9 DEF IniciarRecurso, RecursoDespierta, RecursoSaca, planif, semaforos
<1>10. CASE FileSystem \/ Memoria
  BY <1>3, <1>10 DEF FileSystem, Memoria, planif, semaforos
<1> QED BY <1>2, <1>4, <1>5, <1>3, <1>6, <1>7, <1>8, <1>9, <1>10 DEF Next, AtenderCpu

\* A WAIT that puts a process in the queue takes a unit that was not there, and
\* a SIGNAL that finds one posts its thread.
LEMMA AvisoWait ==
    ASSUME ConversacionesInv, RecursosConocidos, TurnoSegun, Reparto, NEW p \in Procesos,
           EjecutarWait(p), NEW q \in Recursos, AvisoRecurso(q)
    PROVE  AvisoRecurso(q)'
<1>1. PICK r \in Recursos : r = Actual(p).param
  BY PidePorRecurso
<1>2. TypeOK
  BY DEF ConversacionesInv
<1>3. CASE q # r
  BY <1>1, <1>3, EfectoWait DEF AvisoRecurso
<1>4. CASE q = r
  <2>1. /\ EnCamino(r)' = EnCamino(r) /\ instancias'[r] = instancias[r] - 1
        /\ instancias[r] > 0 => UNCHANGED colaRecurso[r]
        /\ instancias[r] <= 0 => colaRecurso'[r] = Append(colaRecurso[r], p)
    BY <1>1, EfectoWait
  <2>2. PICK n \in Nat : n = Len(colaRecurso[r])
    BY <1>2, Cantidades
  <2>3. instancias[r] <= 0 => Len(Append(colaRecurso[r], p)) = n + 1
    BY <1>2, <2>2, Cantidades, AppendProperties
  <2>4. PICK e \in Nat, i \in Int : e = EnCamino(r) /\ i = instancias[r]
    BY <1>2, Cantidades
  <2>5. n <= e + IF i < 0 THEN -i ELSE 0
    BY <1>4, <2>2, <2>4 DEF AvisoRecurso
  <2>6. CASE i > 0
    <3>1. Len(colaRecurso'[r]) = n /\ n <= e + 0
      BY <2>1, <2>2, <2>4, <2>5, <2>6
    <3>2. n <= e + IF i - 1 < 0 THEN -(i - 1) ELSE 0
      BY ONLY <2>6, <3>1, n \in Nat, e \in Nat, i \in Int
    <3> QED BY <1>4, <2>1, <2>4, <3>1, <3>2 DEF AvisoRecurso
  <2>7. CASE i <= 0
    <3>1. Len(colaRecurso'[r]) = n + 1
      BY <2>1, <2>3, <2>4, <2>7
    <3>2. n + 1 <= e + IF i - 1 < 0 THEN -(i - 1) ELSE 0
      BY ONLY <2>5, <2>7, n \in Nat, e \in Nat, i \in Int
    <3> QED BY <1>4, <2>1, <2>4, <3>1, <3>2 DEF AvisoRecurso
  <2> QED BY <2>4, <2>6, <2>7
<1> QED BY <1>3, <1>4

\* A SIGNAL that finds somebody waiting posts the thread of the resource.
LEMMA AvisoSignal ==
    ASSUME ConversacionesInv, RecursosConocidos, TurnoSegun, Reparto, NEW p \in Procesos,
           EjecutarSignal(p), NEW q \in Recursos, AvisoRecurso(q)
    PROVE  AvisoRecurso(q)'
<1>1. PICK r \in Recursos : r = Actual(p).param
  BY PidePorRecurso
<1>2. TypeOK /\ UNCHANGED colaRecurso
  BY <1>1, EfectoSignal DEF ConversacionesInv
<1>3. CASE q # r
  BY <1>1, <1>2, <1>3, EfectoSignal DEF AvisoRecurso
<1>4. CASE q = r
  <2>1. /\ EnCamino(r)' = EnCamino(r) + (IF colaRecurso[r] # <<>> THEN 1 ELSE 0)
        /\ instancias'[r] = instancias[r] + 1
    BY <1>1, EfectoSignal
  <2>2. PICK n \in Nat, e \in Nat, i \in Int :
            n = Len(colaRecurso[r]) /\ e = EnCamino(r) /\ i = instancias[r]
    BY <1>2, Cantidades
  <2>3. n <= e + IF i < 0 THEN -i ELSE 0
    BY <1>4, <2>2 DEF AvisoRecurso
  <2>4. Len(colaRecurso'[r]) = n /\ (n = 0 <=> colaRecurso[r] = <<>>)
    BY <1>2, <2>2, Cantidades
  <2>5. PICK f : f = EnCamino(r)' /\ f = e + (IF n # 0 THEN 1 ELSE 0)
    BY <2>1, <2>2, <2>4
  <2>6. n <= f + IF i + 1 < 0 THEN -(i + 1) ELSE 0
    BY ONLY <2>3, <2>5, n \in Nat, e \in Nat, i \in Int
  <2> QED BY <1>4, <2>1, <2>2, <2>4, <2>5, <2>6 DEF AvisoRecurso
<1> QED BY <1>3, <1>4

\* The thread of a resource takes out a process for each post, if there is one.
LEMMA AvisoIniciar ==
    ASSUME TypeOK, NEW r \in Recursos, IniciarRecurso(r), NEW q \in Recursos, AvisoRecurso(q)
    PROVE  AvisoRecurso(q)'
<1>1. /\ colaRecurso \in [Recursos -> Seq(Procesos)] /\ semRecurso \in [Recursos -> Nat]
      /\ hiloRecurso \in [Recursos -> {"espera", "saca"}]
  BY DEF TypeOK
<1>2. UNCHANGED instancias
  BY DEF IniciarRecurso, RecursoDespierta, RecursoSaca
<1>3. CASE RecursoDespierta(r)
  <2>1. /\ UNCHANGED colaRecurso /\ hiloRecurso[r] = "espera"
        /\ semRecurso' = [semRecurso EXCEPT ![r] = @ - 1]
        /\ hiloRecurso' = [hiloRecurso EXCEPT ![r] = "saca"]
    BY <1>3 DEF RecursoDespierta
  <2>2. EnCamino(q)' = EnCamino(q)
    BY <1>1, <2>1 DEF EnCamino
  <2> QED BY <1>2, <2>1, <2>2 DEF AvisoRecurso
<1>4. CASE RecursoSaca(r) /\ q # r
  <2>1. /\ hiloRecurso' = [hiloRecurso EXCEPT ![r] = "espera"] /\ UNCHANGED semRecurso
        /\ colaRecurso' = colaRecurso \/ colaRecurso' = [colaRecurso EXCEPT ![r] = Tail(@)]
    BY <1>4 DEF RecursoSaca
  <2>2. EnCamino(q)' = EnCamino(q) /\ colaRecurso'[q] = colaRecurso[q]
    BY <1>1, <1>4, <2>1 DEF EnCamino
  <2> QED BY <1>2, <2>2 DEF AvisoRecurso
<1>5. CASE RecursoSaca(r) /\ q = r
  <2>1. /\ hiloRecurso[r] = "saca" /\ UNCHANGED semRecurso
        /\ hiloRecurso' = [hiloRecurso EXCEPT ![r] = "espera"]
    BY <1>5 DEF RecursoSaca
  <2>2. PICK n \in Nat, e \in Nat, i \in Int :
            n = Len(colaRecurso[r]) /\ e = semRecurso[r] /\ i = instancias[r]
    BY Cantidades
  <2>3. EnCamino(r) = e + 1 /\ EnCamino(r)' = e
    BY <1>1, <2>1, <2>2 DEF EnCamino
  <2>4. Len(colaRecurso'[r]) = IF n = 0 THEN 0 ELSE n - 1
    <3>1. CASE colaRecurso[r] = <<>>
      <4>1. n = 0 /\ UNCHANGED colaRecurso
        BY <1>5, <2>2, <3>1, Cantidades DEF RecursoSaca
      <4> QED BY <2>2, <4>1
    <3>2. CASE colaRecurso[r] # <<>>
      <4>1. colaRecurso' = [colaRecurso EXCEPT ![r] = Tail(@)]
        BY <1>5, <3>2 DEF RecursoSaca
      <4>2. n # 0 /\ Len(Tail(colaRecurso[r])) = n - 1
        BY <1>1, <2>2, <3>2, Cantidades, HeadTailProperties
      <4> QED BY <1>1, <4>1, <4>2
    <3> QED BY <3>1, <3>2
  <2>5. n <= e + 1 + IF i < 0 THEN -i ELSE 0
    BY <1>5, <2>2, <2>3 DEF AvisoRecurso
  <2>6. (IF n = 0 THEN 0 ELSE n - 1) <= e + IF i < 0 THEN -i ELSE 0
    BY ONLY <2>5, n \in Nat, e \in Nat, i \in Int
  <2> QED BY <1>2, <1>5, <2>2, <2>3, <2>4, <2>6 DEF AvisoRecurso
<1> QED BY <1>3, <1>4, <1>5 DEF IniciarRecurso

\* Nobody else has to do with them.
LEMMA AvisoRecursoPaso ==
    ASSUME RepartoInv, RecursosConocidos, [Next]_vars, NEW q \in Recursos, AvisoRecurso(q)
    PROVE  AvisoRecurso(q)'
<1>0. /\ TypeOK /\ Reparto /\ ConversacionesInv /\ TurnoSegun
  BY TurnoDe DEF RepartoInv, ConversacionesInv
<1>1. CASE UNCHANGED <<instancias, colaRecurso, semRecurso, hiloRecurso>>
  BY <1>1 DEF AvisoRecurso, EnCamino
<1>2. CASE HiloNew \/ HiloExec
  BY <1>1, <1>2 DEF HiloNew, NewDespierta, NewDuerme, Admitir, HiloExec, ExecDespierta,
                    ExecDuerme, TomarCpu, Despachar, recursos
<1>3. CASE \/ DeConsolas \/ \E p \in Procesos : TerminarIO(p)
           \/ Desbloqueado \/ FileSystem \/ Memoria \/ Notificar \/ UNCHANGED vars
  BY <1>1, <1>3 DEF DeConsolas, Conectar, TerminarIO, Desbloqueado, FileSystem, Memoria,
                    Notificar, vars, recursos
<1>4. CASE Cpu
  BY <1>1, <1>4 DEF Cpu, CpuRecibe, CpuLocal, CpuConsulta, CpuEntrega, CpuRespuesta,
                    restoCpu, recursos
<1>5. CASE CreacionExitosa \/ RealizarCompactacion \/ Compactar \/ SinMemoria
  BY <1>1, <1>5 DEF CreacionExitosa, RealizarCompactacion, Compactar, SinMemoria, Resultado,
                    recursos
<1>6. ASSUME NEW p \in Procesos,
             \/ Desalojado(p) \/ EjecutarIO(p) \/ Transferir(p) \/ PedirSegmento(p)
             \/ Finalizar(p)
      PROVE  AvisoRecurso(q)'
  BY <1>1, <1>6 DEF Desalojado, EjecutarIO, Transferir, PedirSegmento, Finalizar, recursos
<1>7. ASSUME NEW p \in Procesos, EjecutarWait(p) \/ EjecutarSignal(p)
      PROVE  AvisoRecurso(q)'
  BY <1>0, <1>7, AvisoWait, AvisoSignal
<1>8. ASSUME NEW r \in Recursos, IniciarRecurso(r) PROVE AvisoRecurso(q)'
  BY <1>0, <1>8, AvisoIniciar
<1> QED BY <1>2, <1>3, <1>4, <1>5, <1>6, <1>7, <1>8 DEF Next, AtenderCpu

\* Steps that take no message of p and bring its end no further back.
LEMMA UltimaAjena ==
    ASSUME NEW p \in Procesos, Ultima(p), pc'[p] = pc[p],
           \A i \in DOMAIN aKernel : i \in DOMAIN aKernel' /\ aKernel'[i] = aKernel[i],
           consola[p] \in {"terminada", "finalizada"} => consola'[p] \in {"terminada", "finalizada"},
           Saliendo(p) => Saliendo(p)' \/ consola'[p] \in {"terminada", "finalizada"}
    PROVE  Ultima(p)'
BY DEF Ultima

\* A program ends with EXIT or SEG_FAULT: it goes no further than that.
LEMMA UltimaCpu ==
    ASSUME TypeOK, Cpu, NEW p \in Procesos, Ultima(p)
    PROVE  Ultima(p)'
<1>1. UNCHANGED <<consola, atiende>>
  BY DEF Cpu, CpuRecibe, CpuLocal, CpuConsulta, CpuEntrega, CpuRespuesta, restoCpu
<1>2. pc \in [Procesos -> Nat] /\ aKernel \in Seq(AlKernel)
  BY DEF TypeOK
<1>3. CASE UNCHANGED <<pc, aKernel>>
  BY <1>1, <1>3, UltimaAjena DEF Saliendo
<1>4. ASSUME NEW q \in Procesos, NEW m, aKernel' = aKernel \/ aKernel' = Append(aKernel, m),
             m \in AlKernel, p # q, pc' = [pc EXCEPT ![q] = @ + 1]
      PROVE  Ultima(p)'
  <2>1. \A i \in DOMAIN aKernel : i \in DOMAIN aKernel' /\ aKernel'[i] = aKernel[i]
    <3>1. CASE aKernel' = Append(aKernel, m)
      BY <1>2, <1>4, <3>1, AppendProperties, LenProperties
    <3> QED BY <1>4, <3>1
  <2>2. pc'[p] = pc[p]
    BY <1>2, <1>4
  <2> QED BY <1>1, <2>1, <2>2, UltimaAjena DEF Saliendo
<1>5. ASSUME NEW q \in Procesos, Corriendo(q), Siguiente(q).nombre \notin Finales,
             pc' = [pc EXCEPT ![q] = @ + 1], p = q
      PROVE  Ultima(p)'
  <2>1. pc[q] \in Nat /\ pc[q] < Len(Programa[q]) /\ pc'[q] = pc[q] + 1
    BY <1>2, <1>5 DEF Corriendo
  <2>2. Len(Programa[q]) \in Nat /\ DOMAIN Programa[q] = 1 .. Len(Programa[q])
        /\ \A i \in DOMAIN Programa[q] : Programa[q][i].nombre \notin Finales => i < Len(Programa[q])
    BY ProgramaAssumption
  <2>3. pc[q] + 1 \in DOMAIN Programa[q]
    BY <2>1, <2>2
  <2>4. pc[q] + 1 < Len(Programa[q])
    BY <1>5, <2>2, <2>3 DEF Siguiente
  <2>5. pc'[p] # Len(Programa[p])
    BY <1>5, <2>1, <2>2, <2>4
  <2> QED BY <2>5 DEF Ultima
<1>6. CASE CpuRecibe
  BY <1>3, <1>6 DEF CpuRecibe
<1>7. ASSUME NEW q \in Procesos, CpuLocal(q) PROVE Ultima(p)'
  <2>1. /\ Corriendo(q) /\ Siguiente(q).nombre \notin Finales
        /\ pc' = [pc EXCEPT ![q] = @ + 1] /\ aKernel' = aKernel
    BY <1>7 DEF CpuLocal, Finales
  <2>2. CASE p # q
    <3>1. PICK m : m = Mensaje("FINALIZAR", q)
      OBVIOUS
    <3>2. m \in AlKernel
      BY <3>1 DEF AlKernel, Mensaje, OperacionDe, ConRespuesta, SinRespuesta
    <3> QED BY <1>4, <2>1, <2>2, <3>2
  <2> QED BY <1>5, <2>1, <2>2
<1>8. ASSUME NEW q \in Procesos, CpuConsulta(q) \/ CpuEntrega(q) PROVE Ultima(p)'
  <2>1. PICK m : m = Mensaje(OperacionDe[Siguiente(q).nombre], q)
    OBVIOUS
  <2>2. /\ Corriendo(q) /\ Siguiente(q).nombre \in ConRespuesta \union SinRespuesta
        /\ pc' = [pc EXCEPT ![q] = @ + 1] /\ aKernel' = Append(aKernel, m)
    BY <1>8, <2>1 DEF CpuConsulta, CpuEntrega
  <2>3. m \in AlKernel
    BY <2>1, <2>2 DEF AlKernel, Mensaje
  <2>4. CASE p # q
    BY <1>4, <2>2, <2>3, <2>4
  <2>5. CASE p = q /\ Siguiente(q).nombre \in Finales
    <3>1. m.pid = p /\ m.op \in {"FINALIZAR", "SEG_FAULT"}
      BY <2>1, <2>5 DEF Mensaje, OperacionDe, Finales
    <3>2. \E i \in DOMAIN aKernel' : aKernel'[i] = m
      BY <1>2, <2>2, <2>3, AppendProperties, LenProperties
    <3> QED BY <3>1, <3>2 DEF Ultima
  <2> QED BY <1>5, <2>2, <2>4, <2>5
<1>9. ASSUME NEW q \in Procesos, CpuRespuesta(q) PROVE Ultima(p)'
  BY <1>3, <1>9 DEF CpuRespuesta
<1> QED BY <1>6, <1>7, <1>8, <1>9 DEF Cpu

\* Of the requests of the CPU only the two last ones end a process.
LEMMA UltimaLlega ==
    ASSUME RepartoInv, NEW p \in Procesos, Ultima(p), NEW q \in Procesos,
           \/ Desalojado(q) \/ EjecutarWait(q) \/ EjecutarSignal(q) \/ EjecutarIO(q)
           \/ Transferir(q) \/ PedirSegmento(q) \/ Finalizar(q)
    PROVE  Ultima(p)'
<1>1. UNCHANGED pc
  BY DEF Desalojado, EjecutarWait, EjecutarSignal, EjecutarIO, Transferir, PedirSegmento,
         Finalizar, restoRecurso, laCpu
<1>2. /\ consola \in [Procesos -> {"fuera", "activa", "terminada", "finalizada"}]
      /\ aKernel \in Seq(AlKernel) /\ Len(aKernel) <= 1 /\ Len(aKernel) \in Nat
  <2>1. TypeOK /\ Dialogo
    BY DEF RepartoInv, ConversacionesInv
  <2>2. aKernel \in Seq(AlKernel) /\ (Len(aKernel) = 0 <=> aKernel = <<>>) /\ Len(aKernel) \in Nat
    BY <2>1, Canales
  <2>3. aKernel = <<>> \/ Len(aKernel) = 1
    BY <2>1 DEF Dialogo, FaseLibre, FaseDespacho, FaseEntrega, FaseCorre, FasePedido,
                FaseAnaliza, FaseSigue, FasePara, Vacios
  <2>4. consola \in [Procesos -> {"fuera", "activa", "terminada", "finalizada"}]
    BY <2>1 DEF TypeOK
  <2>5. Len(aKernel) <= 1
    <3>1. PICK n \in Nat : n = Len(aKernel)
      BY <2>2
    <3>2. n = 0 \/ n = 1
      BY <2>2, <2>3, <3>1
    <3> QED BY ONLY <3>1, <3>2
  <2> QED BY <2>2, <2>4, <2>5
<1>3. consola[p] \in {"terminada", "finalizada"} => consola'[p] \in {"terminada", "finalizada"}
  <2>1. consola' = consola \/ consola' = [consola EXCEPT ![q] = "terminada"]
    BY DEF Desalojado, EjecutarWait, EjecutarSignal, EjecutarIO, Transferir, PedirSegmento,
           Finalizar
  <2> QED BY <1>2, <2>1
<1>4. PICK op : /\ Llega(op, q)
                /\ op \in {"FINALIZAR", "SEG_FAULT"} => atiende' = [fase |-> "notificar", pid |-> q]
  BY DEF Desalojado, EjecutarWait, EjecutarSignal, EjecutarIO, Transferir, PedirSegmento,
         Finalizar
<1>5. ~Saliendo(p)
  BY <1>4 DEF Llega, AtiendeLibre, Saliendo
<1>6. ASSUME NEW i \in DOMAIN aKernel, aKernel[i].pid = p,
             aKernel[i].op \in {"FINALIZAR", "SEG_FAULT"}
      PROVE  Saliendo(p)'
  <2>1. i = 1 /\ aKernel[1] = Mensaje(op, q)
    BY <1>2, <1>4, LenProperties, HeadTailProperties DEF Llega
  <2> QED BY <1>4, <1>6, <2>1 DEF Mensaje, Saliendo
<1> QED BY <1>1, <1>3, <1>5, <1>6 DEF Ultima

\* A program that asked to end stays so until its console is told.
LEMMA UltimaPaso ==
    ASSUME RepartoInv, [Next]_vars, NEW p \in Procesos, Ultima(p)
    PROVE  Ultima(p)'
<1>0. TypeOK /\ consola \in [Procesos -> {"fuera", "activa", "terminada", "finalizada"}]
  BY DEF RepartoInv, ConversacionesInv, TypeOK
<1>1. ASSUME UNCHANGED <<pc, aKernel>>,
             consola[p] \in {"terminada", "finalizada"} => consola'[p] \in {"terminada", "finalizada"},
             Saliendo(p) => Saliendo(p)' \/ consola'[p] \in {"terminada", "finalizada"}
      PROVE  Ultima(p)'
  BY <1>1, UltimaAjena
<1>2. CASE UNCHANGED <<pc, aKernel, consola, atiende>>
  BY <1>1, <1>2 DEF Saliendo
<1>3. CASE HiloNew \/ HiloExec \/ UNCHANGED vars
  BY <1>2, <1>3 DEF HiloNew, NewDespierta, NewDuerme, Admitir, HiloExec, ExecDespierta,
                    ExecDuerme, TomarCpu, Despachar, laCpu, vars
<1>4. CASE \/ \E q \in Procesos : TerminarIO(q)
           \/ \E r \in Recursos : IniciarRecurso(r)
           \/ Desbloqueado \/ FileSystem \/ Memoria
  BY <1>2, <1>4 DEF TerminarIO, IniciarRecurso, RecursoDespierta, RecursoSaca, Desbloqueado,
                    FileSystem, Memoria, laCpu
<1>5. CASE DeConsolas
  <2>1. PICK q \in Procesos : consola[q] = "fuera" /\ consola' = [consola EXCEPT ![q] = "activa"]
                             /\ UNCHANGED <<pc, aKernel, atiende>>
    BY <1>5 DEF DeConsolas, Conectar, laCpu
  <2> QED BY <1>0, <1>1, <2>1 DEF Saliendo
<1>6. CASE Notificar
  <2>1. /\ consola' = [consola EXCEPT ![atiende.pid] = "finalizada"]
        /\ UNCHANGED <<pc, aKernel>>
    BY <1>6 DEF Notificar, laCpu
  <2> QED BY <1>0, <1>1, <2>1 DEF Saliendo
<1>7. CASE CreacionExitosa \/ RealizarCompactacion \/ Compactar \/ SinMemoria
  <2>1. /\ atiende.fase = "analizar" /\ UNCHANGED <<pc, aKernel>>
        /\ consola' = consola \/ consola' = [consola EXCEPT ![atiende.pid] = "finalizada"]
    BY <1>7 DEF CreacionExitosa, RealizarCompactacion, Compactar, SinMemoria, Resultado, laCpu
  <2> QED BY <1>0, <1>1, <2>1 DEF Saliendo
<1> QED BY <1>0, <1>3, <1>4, <1>5, <1>6, <1>7, UltimaCpu, UltimaLlega DEF Next, AtenderCpu

\* No wake-up is lost, and no program runs past its end.
LEMMA AvisosSiempre == RecursosConocidos => (Spec => [](Avisos /\ Ultimas))
<1> SUFFICES ASSUME RecursosConocidos PROVE Spec => [](Avisos /\ Ultimas)
  OBVIOUS
<1>1. Init => Avisos /\ Ultimas
  <2> SUFFICES ASSUME Init PROVE Avisos /\ Ultimas
    OBVIOUS
  <2>1. AvisoNew /\ AvisoExec
    BY DEF Init, AvisoNew, AvisoExec
  <2>2. ASSUME NEW r \in Recursos PROVE AvisoRecurso(r)
    <3>1. Len(colaRecurso[r]) = 0 /\ EnCamino(r) = 0 /\ instancias[r] \in Nat
      BY EmptySeq, InstanciasAssumption DEF Init, EnCamino
    <3> QED BY <3>1 DEF AvisoRecurso
  <2>3. ASSUME NEW p \in Procesos PROVE Ultima(p)
    BY ProgramaAssumption DEF Init, Ultima
  <2> QED BY <2>1, <2>2, <2>3 DEF Avisos, Ultimas
<1>2. /\ RepartoInv /\ RepartoInv'
      /\ Avisos /\ Ultimas /\ [Next]_vars
      => (Avisos /\ Ultimas)'
  <2> SUFFICES ASSUME RepartoInv, RepartoInv', Avisos, Ultimas, [Next]_vars
               PROVE  (Avisos /\ Ultimas)'
    OBVIOUS
  <2>1. TypeOK
    BY DEF RepartoInv, ConversacionesInv
  <2>2. AvisoNew' /\ AvisoExec'
    BY <2>1, AvisoNewPaso, AvisoExecPaso DEF Avisos
  <2>3. \A r \in Recursos : AvisoRecurso(r)'
    BY AvisoRecursoPaso DEF Avisos
  <2>4. \A p \in Procesos : Ultima(p)'
    BY UltimaPaso DEF Ultimas
  <2> QED BY <2>2, <2>3, <2>4 DEF Avisos, Ultimas
<1> QED BY <1>1, <1>2, RepartoSiempre, PTL DEF Spec

\* A compaction under way is in the connection with the memory.
LEMMA NoCompacta ==
    ASSUME TypeOK, ConversacionMemoria, CompactacionExclusiva,
           aFs = <<>>, deFs = <<>>, aMemoria = <<>>,
           deMemoria # <<>> => Head(deMemoria) = "REALIZAR_COMPACTACION"
    PROVE  mutexCompresion # 0
<1>1. /\ deMemoria \in Seq(RespuestasMemoria) /\ Len(aMemoria) = 0 /\ DOMAIN aMemoria = 1 .. 0
      /\ DOMAIN deMemoria = 1 .. Len(deMemoria)
  BY CanalesMemoria, LenProperties, EmptySeq
<1>2. deMemoria = <<>> \/ Len(deMemoria) = 1
  BY DEF ConversacionMemoria
<1>3. ~Compactando
  <2>1. CASE deMemoria = <<>>
    BY <1>1, <2>1, EmptySeq DEF Compactando
  <2>2. CASE deMemoria # <<>>
    <3>1. Head(deMemoria) = deMemoria[1]
      BY <1>1, <2>2, HeadTailProperties
    <3> QED BY <1>1, <1>2, <2>2, <3>1 DEF Compactando
  <2> QED BY <2>1, <2>2
<1>4. Len(aFs) = 0 /\ Len(deFs) = 0
  BY EmptySeq
<1> QED BY <1>3, <1>4 DEF CompactacionExclusiva, TypeOK

\* When they all wait, the CPU is idle and the semaphore of the CPU is up.
LEMMA NadieCorre ==
    ASSUME RepartoInv, CompactacionExclusiva, Ultimas, TodosEsperan
    PROVE  EnTurno = {} /\ Permiso = 1
<1>1. TypeOK /\ Dialogo /\ ConversacionMemoria /\ TurnoSegun /\ Reparto
  BY TurnoDe DEF RepartoInv, ConversacionesInv
<1>2. /\ aFs = <<>> /\ deFs = <<>> /\ aMemoria = <<>> /\ EsperaCpu /\ EsperaAtender
  BY DEF TodosEsperan
<1>3. /\ aKernel \in Seq(AlKernel)
      /\ (Len(aKernel) = 0 <=> aKernel = <<>>) /\ (Len(aCpu) = 0 <=> aCpu = <<>>)
      /\ aKernel # <<>> => Head(aKernel) = aKernel[1]
  <2>1. aKernel \in Seq(AlKernel) /\ (Len(aKernel) = 0 <=> aKernel = <<>>)
        /\ (Len(aCpu) = 0 <=> aCpu = <<>>)
    BY <1>1, Canales
  <2> QED BY <2>1, HeadTailProperties
<1>4. atiende.fase # "analizar" => deMemoria = <<>>
  BY <1>1 DEF ConversacionMemoria
<1>5. CASE FaseLibre
  BY <1>1, <1>5 DEF FaseLibre, TurnoSegun, Vacios
<1>6. CASE FaseDespacho \/ FaseSigue \/ FasePara
  BY <1>2, <1>3, <1>6 DEF FaseDespacho, FaseSigue, FasePara, EsperaCpu
<1>7. CASE FaseEntrega
  <2>1. Head(aKernel).op # "LEER_ARCHIVO" /\ aKernel # <<>>
    BY <1>3, <1>7 DEF FaseEntrega, EsEntrega, SinRespuesta, OperacionDe
  <2> QED BY <1>2, <1>7, <2>1 DEF EsperaAtender, FaseEntrega, Analizando
<1>8. CASE FaseCorre
  <2>1. cpu.pid \in Procesos /\ EnTurno = {cpu.pid} /\ aKernel = <<>>
    BY <1>1, <1>8 DEF FaseCorre, Vacios, TypeOK, TurnoSegun, CpuOciosa
  <2>2. pc[cpu.pid] = Len(Programa[cpu.pid])
    <3>1. pc[cpu.pid] >= Len(Programa[cpu.pid])
      BY <1>2, <1>8 DEF FaseCorre, EsperaCpu
    <3>2. pc[cpu.pid] \in Nat /\ pc[cpu.pid] <= Len(Programa[cpu.pid])
          /\ Len(Programa[cpu.pid]) \in Nat
      BY <1>1, <2>1, ProgramaAssumption DEF TypeOK
    <3> QED BY <3>1, <3>2
  <2>3. cpu.pid \in Vivos
    BY <1>1, <2>1 DEF Reparto, Todos, Nombres, Cajas
  <2> QED BY <2>1, <2>2, <2>3, EmptySeq DEF Ultimas, Ultima, Vivos
<1>9. CASE FasePedido
  <2>1. aKernel # <<>> /\ Head(aKernel).op = "LEER_ARCHIVO" => mutexCompresion # 0
    BY <1>1, <1>2, <1>4, <1>9, NoCompacta DEF FasePedido, Analizando
  <2> QED BY <1>2, <1>3, <1>9, <2>1 DEF EsperaAtender, FasePedido, Analizando
<1>10. CASE FaseAnaliza
  <2>1. atiende # AtiendeLibre /\ atiende.fase = "analizar"
    BY <1>10 DEF FaseAnaliza, Analizando, AtiendeLibre
  <2>2. deMemoria # <<>>
    BY <1>1, <1>2, <2>1, EmptySeq DEF ConversacionMemoria
  <2> QED BY <1>1, <1>2, <2>1, <2>2, NoCompacta DEF EsperaAtender
<1> QED BY <1>1, <1>5, <1>6, <1>7, <1>8, <1>9, <1>10 DEF Dialogo

\* Then a process that has its slot waits for a unit.
LEMMA SoloPorUnidad ==
    ASSUME RepartoInv, CompactacionExclusiva, Avisos, Ultimas, TodosEsperan,
           Algoritmo = "FIFO", NEW p \in Vivos, p \notin Elementos(nuevos)
    PROVE  EsperaUnidad(p)
<1>1. TypeOK /\ Reparto /\ EnTurno = {} /\ (hiloExec # "elige" => semHabilitar = 1)
  BY NadieCorre DEF RepartoInv, ConversacionesInv, Permiso, TypeOK
<1>2. /\ Elementos(listos) = {} /\ Elementos(aFs) = {} /\ Elementos(deFs) = {} /\ enIO = {}
  <2>1. listos = <<>>
    BY <1>1 DEF TodosEsperan, EsperaExec, Avisos, AvisoExec
  <2> QED BY <2>1, EmptySeq DEF TodosEsperan, Elementos
<1>3. p \in EnColas
  <2>1. \E a \in Nombres : p \in Cajas[a]
    BY <1>1 DEF Reparto, Todos
  <2> QED BY <1>1, <1>2, <2>1 DEF Nombres, Cajas
<1>4. PICK r \in Recursos : p \in Elementos(colaRecurso[r])
  BY <1>3 DEF EnColas
<1>5. PICK i \in DOMAIN colaRecurso[r] : colaRecurso[r][i] = p
  BY <1>4 DEF Elementos
<1>6. EnCamino(r) = 0
  BY DEF TodosEsperan, EsperaRecurso, EnCamino
<1>7. Len(colaRecurso[r]) \in Nat /\ Len(colaRecurso[r]) > 0 /\ instancias[r] \in Int
  <2>1. colaRecurso[r] \in Seq(Procesos)
    BY <1>1 DEF TypeOK
  <2>2. Len(colaRecurso[r]) \in Nat /\ i \in 1 .. Len(colaRecurso[r])
    BY <2>1, <1>5, LenProperties
  <2> QED BY <1>1, <2>2 DEF TypeOK
<1>8. instancias[r] < 0
  BY <1>6, <1>7 DEF Avisos, AvisoRecurso
<1> QED BY <1>5, <1>8 DEF EsperaUnidad

\* No wake-up, dispatch, answer or slot is lost: when every thread of the kernel
\* and the CPU waits, each process that has not ended waits for a unit, or in NEW
\* behind a process that does.  (Under HRRN a PCB that the sort dropped waits for
\* nothing.)
THEOREM QuietudCorrecta ==
    RecursosConocidos /\ Algoritmo = "FIFO" => (Spec => []QuietoSoloPorRecursos)
<1> SUFFICES ASSUME RecursosConocidos, Algoritmo = "FIFO"
             PROVE  Spec => []QuietoSoloPorRecursos
  OBVIOUS
<1>1. RepartoInv /\ GradoInv /\ CompactacionExclusiva /\ Avisos /\ Ultimas => QuietoSoloPorRecursos
  <2> SUFFICES ASSUME RepartoInv, GradoInv, CompactacionExclusiva, Avisos, Ultimas,
                      TodosEsperan, NEW p \in Procesos, consola[p] = "activa",
                      ~EsperaUnidad(p)
               PROVE  /\ Sitios(nuevos, p, "new") # {} /\ semMulti = 0
                      /\ \E q \in Admitidos : EsperaUnidad(q)
    BY DEF QuietoSoloPorRecursos, Atascado
  <2>1. p \in Vivos
    BY DEF TodosEsperan, EsperaAtender, AtiendeLibre, Saliendo, Vivos
  <2>2. p \in Elementos(nuevos) /\ nuevos # <<>>
    <3>1. p \in Elementos(nuevos)
      BY <2>1, SoloPorUnidad
    <3> QED BY <3>1, EmptySeq DEF Elementos
  <2>3. semMulti = 0
    BY <2>2 DEF TodosEsperan, EsperaNew, Avisos, AvisoNew
  <2>4. Admitidos # {}
    <3>1. Cardinality(Admitidos) = Grado
      BY <2>3, GradoAssumption, FS_CardinalityType DEF GradoInv, GradoRespetado
    <3> QED BY <3>1, GradoAssumption, FS_EmptySet
  <2>5. PICK q : q \in Admitidos
    BY <2>4
  <2>6. q \in Vivos /\ q \notin Elementos(nuevos)
    BY <2>5, AdmitidosSon DEF Cajas
  <2>7. Sitios(nuevos, p, "new") # {}
    BY <2>2 DEF Sitios, Elementos
  <2> QED BY <2>3, <2>5, <2>6, <2>7, SoloPorUnidad
<1> QED BY <1>1, RepartoSiempre, GradoSiempre, CompactacionCorrecta, AvisosSiempre, PTL

-----------------------------------------------------------------------------
(* The kernel implements CicloDeVida: every step of its threads, of the CPU    *)
(* and of the memory is a step in the life of one process, or none at all.     *)
(* What it sees of a state:                                                    *)

Estados == [p \in Procesos |-> EstadoDe(p)]
EsperaDe(p) ==
    IF \E r \in Recursos : EnCola(p, r)
    THEN CHOOSE r \in Recursos : EnCola(p, r) ELSE Nadie
Esperas == [p \in Procesos |-> EsperaDe(p)]
Libres == [r \in Recursos |-> instancias[r] + Len(colaRecurso[r])]

\* Those not handed in yet.
Fuera == {p \in Procesos : consola[p] = "fuera"}

\* Nobody ends for a resource that does not exist.
SinTerminada == \A p \in Procesos : consola[p] # "terminada"

\* The state the log prints for a process in each place.
Nombre ==
    [nuevo |-> "new", listo |-> "ready", recurso |-> "block", ida |-> "block",
     vuelta |-> "block", io |-> "block", turno |-> "exec"]

LEMMA SitioEsta ==
    ASSUME NEW s, NEW p, NEW n
    PROVE  Sitios(s, p, n) = {} <=> p \notin Elementos(s)
BY DEF Sitios, Elementos

LEMMA EnColaEs ==
    ASSUME NEW p, NEW r \in Recursos
    PROVE  EnCola(p, r) <=> p \in Elementos(colaRecurso[r])
BY SitioEsta DEF EnCola

EstadoSegun ==
    \A p \in Procesos :
        /\ p \in Fuera => EstadoDe(p) = "fuera"
        /\ \A a \in Nombres : p \in Cajas[a] => EstadoDe(p) = Nombre[a]
        /\ p \notin Fuera /\ p \notin Vivos => EstadoDe(p) = "exit"

LEMMA EstadoEs == RepartoInv /\ SinTerminada => EstadoSegun
<1> SUFFICES ASSUME RepartoInv, SinTerminada, NEW p \in Procesos
             PROVE  /\ p \in Fuera => EstadoDe(p) = "fuera"
                    /\ \A a \in Nombres : p \in Cajas[a] => EstadoDe(p) = Nombre[a]
                    /\ p \notin Fuera /\ p \notin Vivos => EstadoDe(p) = "exit"
  BY DEF EstadoSegun
<1>1. /\ consola[p] \in {"fuera", "activa", "finalizada"}
      /\ Saliendo(p) => consola[p] = "activa"
      /\ p \in Vivos <=> consola[p] = "activa" /\ ~Saliendo(p)
  <2>1. consola[p] \in {"fuera", "activa", "terminada", "finalizada"}
    BY DEF RepartoInv, ConversacionesInv, TypeOK
  <2>2. Saliendo(p) => consola[p] = "activa"
    BY DEF RepartoInv, Reparto, SaleUnVivo, Saliendo
  <2> QED BY <2>1, <2>2 DEF SinTerminada, Vivos
<1>2. EstadoDe(p) =
        CASE consola[p] = "fuera" -> "fuera"
          [] consola[p] = "finalizada" \/ Saliendo(p) -> "exit"
          [] p \in Cajas.nuevo -> "new"
          [] p \in Cajas.listo -> "ready"
          [] p \in Cajas.io \/ p \in Cajas.ida \/ p \in Cajas.vuelta \/ p \in Cajas.recurso
               -> "block"
          [] OTHER -> "exec"
  <2>1. /\ Sitios(nuevos, p, "new") # {} <=> p \in Cajas.nuevo
        /\ Sitios(listos, p, "ready") # {} <=> p \in Cajas.listo
        /\ Sitios(aFs, p, "aFs") # {} <=> p \in Cajas.ida
        /\ Sitios(deFs, p, "deFs") # {} <=> p \in Cajas.vuelta
        /\ p \in enIO <=> p \in Cajas.io
    BY SitioEsta DEF Cajas
  <2>2. (\E r \in Recursos : EnCola(p, r)) <=> p \in Cajas.recurso
    BY EnColaEs DEF Cajas, EnColas
  <2>3. \/ p \in enIO
        \/ Sitios(aFs, p, "aFs") \union Sitios(deFs, p, "deFs") # {}
        \/ \E r \in Recursos : EnCola(p, r)
        <=> p \in Cajas.io \/ p \in Cajas.ida \/ p \in Cajas.vuelta \/ p \in Cajas.recurso
    BY <2>1, <2>2
  <2> QED BY <2>1, <2>3 DEF EstadoDe
<1>3. /\ \A a, b \in Nombres : a # b /\ p \in Cajas[a] => p \notin Cajas[b]
      /\ \A a \in Nombres : p \in Cajas[a] => p \in Vivos
  BY DEF RepartoInv, Reparto, Aparte, Todos
<1>4. p \in Fuera => EstadoDe(p) = "fuera"
  <2> SUFFICES ASSUME p \in Fuera PROVE EstadoDe(p) = "fuera"
    OBVIOUS
  <2>1. consola[p] = "fuera" /\ ~Saliendo(p) /\ p \notin Vivos
    BY <1>1 DEF Fuera
  <2>2. \A a \in Nombres : p \notin Cajas[a]
    BY <1>3, <2>1
  <2> QED BY <1>2, <2>1, <2>2 DEF Nombres
<1>5. ASSUME NEW a \in Nombres, p \in Cajas[a] PROVE EstadoDe(p) = Nombre[a]
  <2>1. consola[p] = "activa" /\ ~Saliendo(p)
    BY <1>1, <1>3, <1>5
  <2>2. \A b \in Nombres \ {a} : p \notin Cajas[b]
    BY <1>3, <1>5
  <2> QED BY <1>2, <1>5, <2>1, <2>2 DEF Nombres, Nombre
<1>6. p \notin Fuera /\ p \notin Vivos => EstadoDe(p) = "exit"
  <2> SUFFICES ASSUME p \notin Fuera, p \notin Vivos PROVE EstadoDe(p) = "exit"
    OBVIOUS
  <2>1. consola[p] = "finalizada" \/ Saliendo(p)
    BY <1>1 DEF Fuera
  <2>2. consola[p] # "fuera"
    BY DEF Fuera
  <2>3. \A a \in Nombres : p \notin Cajas[a]
    BY <1>3
  <2> QED BY <1>2, <2>1, <2>2, <2>3 DEF Nombres
<1> QED BY <1>4, <1>5, <1>6

\* The resource a process waits for.
EsperaSegun ==
    \A p \in Procesos :
        /\ \A r \in Recursos : EsperaDe(p) = r <=> p \in Elementos(colaRecurso[r])
        /\ EsperaDe(p) = Nadie <=> \A r \in Recursos : p \notin Elementos(colaRecurso[r])

LEMMA EsperaEs == ColasAparte => EsperaSegun
<1> SUFFICES ASSUME ColasAparte, NEW p \in Procesos
             PROVE  /\ \A r \in Recursos :
                          EsperaDe(p) = r <=> p \in Elementos(colaRecurso[r])
                    /\ EsperaDe(p) = Nadie
                          <=> \A r \in Recursos : p \notin Elementos(colaRecurso[r])
  BY DEF EsperaSegun
<1>1. \A r \in Recursos : EnCola(p, r) <=> p \in Elementos(colaRecurso[r])
  BY EnColaEs
<1>2. \A r, q \in Recursos : EnCola(p, r) /\ EnCola(p, q) => r = q
  BY <1>1 DEF ColasAparte
<1>3. CASE \E r \in Recursos : EnCola(p, r)
  <2>1. PICK r \in Recursos : EnCola(p, r)
    BY <1>3
  <2>2. EsperaDe(p) = r
    BY <1>2, <1>3, <2>1 DEF EsperaDe
  <2> QED BY <1>1, <1>2, <2>1, <2>2, RecursosAssumption
<1>4. CASE ~\E r \in Recursos : EnCola(p, r)
  <2>1. EsperaDe(p) = Nadie
    BY <1>4 DEF EsperaDe
  <2> QED BY <1>1, <1>4, <2>1, RecursosAssumption
<1> QED BY <1>3, <1>4

\* What is known before and after every step.
Antes ==
    /\ Algoritmo = "FIFO" /\ RepartoInv /\ GradoInv /\ SinTerminada
    /\ TurnoSegun /\ EstadoSegun /\ EsperaSegun
Despues == RepartoInv' /\ SinTerminada' /\ TurnoSegun' /\ EstadoSegun' /\ EsperaSegun'

-----------------------------------------------------------------------------
(* The consoles.                                                               *)

\* A console starts its process or hears that it finished, and nothing else.
LEMMA ConsolaPaso ==
    ASSUME RecursosConocidos, RepartoInv, SinTerminada, TurnoSegun, TurnoSegun',
           [Next]_vars
    PROVE  /\ SinTerminada'
           /\ UNCHANGED Fuera \/ \E p \in Procesos : Conectar(p)
<1>0. consola \in [Procesos -> {"fuera", "activa", "terminada", "finalizada"}]
  BY DEF RepartoInv, ConversacionesInv, TypeOK
<1>1. CASE UNCHANGED consola
  BY <1>1 DEF SinTerminada, Fuera
<1>2. ASSUME NEW p \in Procesos, consola[p] = "activa",
             consola' = [consola EXCEPT ![p] = "finalizada"]
      PROVE  SinTerminada' /\ UNCHANGED Fuera
  BY <1>0, <1>2 DEF SinTerminada, Fuera
<1>3. ASSUME NEW p \in Procesos, Conectar(p) PROVE SinTerminada'
  <2>1. consola' = [consola EXCEPT ![p] = "activa"]
    BY <1>3 DEF Conectar
  <2> QED BY <1>0, <2>1 DEF SinTerminada
<1>4. CASE HiloNew \/ HiloExec \/ Cpu \/ UNCHANGED vars
  <2>1. UNCHANGED consola
    BY <1>4 DEF HiloNew, NewDespierta, NewDuerme, Admitir, HiloExec, ExecDespierta,
                ExecDuerme, TomarCpu, Despachar, Cpu, CpuRecibe, CpuLocal, CpuConsulta,
                CpuEntrega, CpuRespuesta, restoCpu, vars
  <2> QED BY <1>1, <2>1
<1>5. ASSUME NEW p \in Procesos,
             \/ Desalojado(p) \/ EjecutarIO(p) \/ Transferir(p) \/ PedirSegmento(p)
             \/ Finalizar(p) \/ TerminarIO(p)
      PROVE  UNCHANGED consola
  BY <1>5 DEF Desalojado, EjecutarIO, Transferir, PedirSegmento, Finalizar, TerminarIO
<1>6. ASSUME NEW p \in Procesos, EjecutarWait(p) \/ EjecutarSignal(p)
      PROVE  UNCHANGED consola
  <2>1. Actual(p).param \in Recursos
    BY <1>6, PidePorRecurso DEF RepartoInv
  <2> QED BY <1>6, <2>1 DEF EjecutarWait, EjecutarSignal
<1>7. CASE Notificar
  <2>1. /\ atiende.fase = "notificar"
        /\ consola' = [consola EXCEPT ![atiende.pid] = "finalizada"]
    BY <1>7 DEF Notificar
  <2>2. atiende.pid \in Procesos /\ consola[atiende.pid] = "activa"
    BY <2>1 DEF RepartoInv, Reparto, SaleUnVivo, ConversacionesInv, TypeOK, AtiendeLibre
  <2> QED BY <1>2, <2>1, <2>2
<1>8. CASE SinMemoria
  <2>1. atiende.pid \in Procesos /\ Sale(atiende.pid)
    BY <1>8, RepartoResultado
  <2>2. consola[atiende.pid] = "activa"
    BY <2>1 DEF Sale, RepartoInv, Reparto, Todos, Nombres, Vivos
  <2> QED BY <1>2, <1>8, <2>1, <2>2 DEF SinMemoria
<1>9. CASE \/ CreacionExitosa \/ RealizarCompactacion \/ Compactar
           \/ Desbloqueado \/ FileSystem \/ Memoria
           \/ \E r \in Recursos : IniciarRecurso(r)
  <2>1. UNCHANGED consola
    BY <1>9 DEF CreacionExitosa, RealizarCompactacion, Compactar, Desbloqueado,
                FileSystem, Memoria, IniciarRecurso, RecursoDespierta, RecursoSaca
  <2> QED BY <1>1, <2>1
<1> QED BY <1>1, <1>3, <1>4, <1>5, <1>6, <1>7, <1>8, <1>9
        DEF Next, DeConsolas, AtenderCpu

-----------------------------------------------------------------------------
(* The movements, as changes of the state of one process.                      *)

LEMMA EstadoQuieto ==
    ASSUME Antes, Despues, UNCHANGED Fuera, Quieto
    PROVE  UNCHANGED Estados
<1> SUFFICES ASSUME NEW q \in Procesos PROVE EstadoDe(q)' = EstadoDe(q)
  BY DEF Estados
<1>1. UNCHANGED <<Fuera, Vivos, Cajas>>
  BY DEF Quieto
<1>2. q \in Vivos => \E a \in Nombres : q \in Cajas[a]
  BY DEF Antes, RepartoInv, Reparto, Todos
<1> QED BY <1>1, <1>2 DEF Antes, Despues, EstadoSegun

LEMMA EstadoMueve ==
    ASSUME Antes, Despues, UNCHANGED Fuera, NEW p \in Procesos,
           NEW a \in Nombres, NEW b \in Nombres, Mueve(p, a, b)
    PROVE  /\ Estados[p] = Nombre[a]
           /\ Estados' = [Estados EXCEPT ![p] = Nombre[b]]
<1>1. EstadoDe(p) = Nombre[a] /\ EstadoDe(p)' = Nombre[b]
  BY DEF Antes, Despues, EstadoSegun, Mueve, Suma
<1>2. ASSUME NEW q \in Procesos \ {p} PROVE EstadoDe(q)' = EstadoDe(q)
  <2>1. \A c \in Nombres : q \in Cajas'[c] <=> q \in Cajas[c]
    BY DEF Mueve, Suma, Antes
  <2>2. UNCHANGED <<Fuera, Vivos>>
    BY DEF Mueve
  <2>3. q \in Vivos => \E c \in Nombres : q \in Cajas[c]
    BY DEF Antes, RepartoInv, Reparto, Todos
  <2> QED BY <2>1, <2>2, <2>3 DEF Antes, Despues, EstadoSegun
<1> QED BY <1>1, <1>2 DEF Estados

LEMMA EstadoEntra ==
    ASSUME Antes, Despues, NEW p \in Procesos, Conectar(p)
    PROVE  /\ Estados[p] = "fuera"
           /\ Estados' = [Estados EXCEPT ![p] = "new"]
<1>0. Entra(p)
  BY RepartoConectar DEF Antes
<1>1. consola \in [Procesos -> {"fuera", "activa", "terminada", "finalizada"}]
  BY DEF Antes, RepartoInv, ConversacionesInv, TypeOK
<1>2. p \in Fuera /\ Fuera' = Fuera \ {p}
  BY <1>1 DEF Conectar, Fuera
<1>3. EstadoDe(p) = "fuera" /\ EstadoDe(p)' = "new"
  <2>1. "nuevo" \in Nombres /\ Nombre["nuevo"] = "new"
    BY DEF Nombres, Nombre
  <2>2. p \in Cajas'["nuevo"]
    BY <1>0 DEF Entra
  <2> QED BY <1>2, <2>1, <2>2 DEF Antes, Despues, EstadoSegun
<1>4. ASSUME NEW q \in Procesos \ {p} PROVE EstadoDe(q)' = EstadoDe(q)
  <2>1. \A c \in Nombres : q \in Cajas'[c] <=> q \in Cajas[c]
    BY <1>0 DEF Entra
  <2>2. (q \in Vivos' <=> q \in Vivos) /\ (q \in Fuera' <=> q \in Fuera)
    BY <1>0, <1>2 DEF Entra
  <2>3. q \in Vivos => \E c \in Nombres : q \in Cajas[c]
    BY DEF Antes, RepartoInv, Reparto, Todos
  <2> QED BY <2>1, <2>2, <2>3 DEF Antes, Despues, EstadoSegun
<1> QED BY <1>3, <1>4 DEF Estados

LEMMA EstadoSale ==
    ASSUME Antes, Despues, UNCHANGED Fuera, NEW p \in Procesos, Sale(p)
    PROVE  /\ Estados[p] = "exec"
           /\ Estados' = [Estados EXCEPT ![p] = "exit"]
<1>0. "turno" \in Nombres /\ Nombre["turno"] = "exec"
  BY DEF Nombres, Nombre
<1>1. p \in Cajas["turno"] /\ p \in Vivos /\ p \notin Vivos' /\ p \notin Fuera
  <2>1. p \in Cajas["turno"] /\ p \in Vivos /\ p \notin Vivos'
    BY <1>0 DEF Sale, Antes, RepartoInv, Reparto, Todos
  <2> QED BY <2>1 DEF Vivos, Fuera
<1>2. EstadoDe(p) = "exec" /\ EstadoDe(p)' = "exit"
  BY <1>0, <1>1 DEF Antes, Despues, EstadoSegun
<1>3. ASSUME NEW q \in Procesos \ {p} PROVE EstadoDe(q)' = EstadoDe(q)
  <2>1. \A c \in Nombres : q \in Cajas'[c] <=> q \in Cajas[c]
    BY DEF Sale
  <2>2. (q \in Vivos' <=> q \in Vivos) /\ UNCHANGED Fuera
    BY DEF Sale
  <2>3. q \in Vivos => \E c \in Nombres : q \in Cajas[c]
    BY DEF Antes, RepartoInv, Reparto, Todos
  <2> QED BY <2>1, <2>2, <2>3 DEF Antes, Despues, EstadoSegun
<1> QED BY <1>2, <1>3 DEF Estados

\* Away from the resources nobody changes what it waits for.
LEMMA RecursosIguales ==
    ASSUME UNCHANGED <<instancias, colaRecurso>> PROVE UNCHANGED <<Esperas, Libres>>
BY DEF Esperas, Libres, EsperaDe, EnCola, Sitios

-----------------------------------------------------------------------------
(* The sets of CicloDeVida.                                                    *)

\* A list in which nobody appears twice is as long as the set of its elements.
LEMMA CuantosEsperan ==
    ASSUME NEW S, NEW s \in Seq(S), SinRepetir(s)
    PROVE  Cardinality(Elementos(s)) = Len(s)
<1>1. DOMAIN s = 1 .. Len(s) /\ Len(s) \in Nat
  BY LenProperties
<1>2. s \in [1 .. Len(s) -> Elementos(s)]
  BY <1>1, LenProperties, IsASeq DEF Elementos
<1>3. s \in Bijection(1 .. Len(s), Elementos(s))
  BY <1>1, <1>2 DEF Bijection, Injection, Surjection, SinRepetir, Elementos, IsInjective
<1>4. ExistsBijection(1 .. Len(s), Elementos(s))
  BY <1>3 DEF ExistsBijection
<1> QED BY <1>1, <1>4, FS_CountingElements

\* The instance has an operator Cardinality of its own.
LEMMA MismoCardinal == ASSUME NEW S PROVE Ciclo!Cardinality(S) = Cardinality(S)
BY DEF Ciclo!Cardinality, Cardinality

LEMMA EnExec ==
    ASSUME Antes PROVE Ciclo!En("exec") = EnTurno
<1>1. ASSUME NEW p \in Procesos PROVE EstadoDe(p) = "exec" <=> p \in EnTurno
  <2>1. p \in Vivos => \E a \in Nombres : p \in Cajas[a]
    BY DEF Antes, RepartoInv, Reparto, Todos
  <2>2. \A a \in Nombres : Nombre[a] = "exec" <=> a = "turno"
    BY DEF Nombre, Nombres
  <2>3. "turno" \in Nombres /\ Cajas["turno"] = EnTurno
    BY DEF Nombres, Cajas
  <2> QED BY <2>1, <2>2, <2>3 DEF Antes, EstadoSegun
<1> QED BY <1>1 DEF Ciclo!En, EnTurno

LEMMA EnMemoria ==
    ASSUME Antes
    PROVE  Ciclo!En("ready") \union Ciclo!En("exec") \union Ciclo!En("block") = Admitidos
<1>1. ASSUME NEW p \in Procesos
      PROVE  EstadoDe(p) \in {"ready", "exec", "block"} <=> p \in Vivos /\ p \notin Cajas["nuevo"]
  <2>1. p \in Vivos <=> \E a \in Nombres : p \in Cajas[a]
    BY DEF Antes, RepartoInv, Reparto, Todos
  <2>2. \A a \in Nombres : Nombre[a] \in {"ready", "exec", "block"} <=> a # "nuevo"
    BY DEF Nombre, Nombres
  <2>3. \A a, b \in Nombres : p \in Cajas[a] /\ p \in Cajas[b] => a = b
    BY DEF Antes, RepartoInv, Reparto, Aparte
  <2>4. "nuevo" \in Nombres
    BY DEF Nombres
  <2> QED BY <2>1, <2>2, <2>3, <2>4 DEF Antes, EstadoSegun
<1>2. Vivos \subseteq Procesos
  BY DEF Vivos
<1> QED BY <1>1, <1>2, AdmitidosSon DEF Ciclo!En

LEMMA EnEspera ==
    ASSUME Antes, NEW r \in Recursos
    PROVE  Ciclo!Cardinality(Ciclo!Esperando(r)) = Len(colaRecurso[r])
<1>1. TypeOK /\ SinRepetir(colaRecurso[r])
  BY DEF Antes, RepartoInv, ConversacionesInv, Reparto, SinRepetidos
<1>2. colaRecurso[r] \in Seq(Procesos) /\ Elementos(colaRecurso[r]) \subseteq Procesos
  BY <1>1, Cantidades
<1>3. Ciclo!Esperando(r) = {p \in Procesos : EsperaDe(p) = r}
  BY DEF Ciclo!Esperando, EsperaDe
<1>4. Ciclo!Esperando(r) = Elementos(colaRecurso[r])
  BY <1>2, <1>3 DEF Antes, EsperaSegun
<1> QED BY <1>1, <1>2, <1>4, CuantosEsperan, MismoCardinal

-----------------------------------------------------------------------------
(* Every step is a step of CicloDeVida or none.                                *)

\* Waiting for nothing: no process outside the queues of the resources is.
LEMMA NoEspera ==
    ASSUME Antes, NEW p \in Procesos, NEW a \in Nombres \ {"recurso"}, p \in Cajas[a]
    PROVE  Esperas[p] = Nadie
<1>1. "recurso" \in Nombres /\ Cajas["recurso"] = EnColas
  BY DEF Nombres, Cajas
<1>2. p \notin EnColas
  BY <1>1 DEF Antes, RepartoInv, Reparto, Aparte
<1> QED BY <1>2 DEF EnColas, Antes, EsperaSegun, Esperas

\* The consoles and de_new_a_ready.
LEMMA CicloConectar ==
    ASSUME Antes, Despues, NEW p \in Procesos, Conectar(p) PROVE Ciclo!Llegar(p)
<1>1. UNCHANGED <<Esperas, Libres>>
  BY RecursosIguales DEF Conectar, recursos
<1> QED BY <1>1, EstadoEntra DEF Ciclo!Llegar, Ciclo!Pasar, Estados, Esperas, EsperaDe, Libres

LEMMA CicloAdmitir ==
    ASSUME Antes, Despues, UNCHANGED Fuera, Admitir
    PROVE  \E p \in Procesos : Ciclo!Admitir(p)
<1>1. UNCHANGED <<Esperas, Libres>>
  BY RecursosIguales DEF Admitir, recursos
<1>2. PICK p \in Procesos : Mueve(p, "nuevo", "listo")
  BY RepartoAdmitir DEF Antes
<1>3. Estados[p] = "new" /\ Estados' = [Estados EXCEPT ![p] = "ready"]
  BY <1>2, EstadoMueve DEF Nombres, Nombre
<1>4. Cardinality(Admitidos) < Grado
  <2>1. IsFiniteSet(Admitidos) /\ semMulti + Cardinality(Admitidos) = Grado
    BY DEF Antes, GradoInv, GradoRespetado
  <2>2. Cardinality(Admitidos) \in Nat /\ semMulti \in Nat /\ semMulti > 0
    BY <2>1, FS_CardinalityType
       DEF Antes, RepartoInv, ConversacionesInv, TypeOK, Admitir
  <2> QED BY <2>1, <2>2
<1>5. Ciclo!Cardinality(Ciclo!En("ready") \union Ciclo!En("exec") \union Ciclo!En("block"))
        < Grado
  BY <1>4, EnMemoria, MismoCardinal
<1> QED BY <1>1, <1>3, <1>5
        DEF Ciclo!Admitir, Ciclo!Pasar, Estados, Esperas, EsperaDe, Libres

LEMMA CicloDespachar ==
    ASSUME Antes, Despues, UNCHANGED Fuera, Despachar
    PROVE  \E p \in Procesos : Ciclo!Ejecutar(p)
<1>1. UNCHANGED <<Esperas, Libres>>
  BY RecursosIguales DEF Despachar, recursos
<1>2. PICK p \in Procesos : Mueve(p, "listo", "turno")
  BY RepartoDespachar DEF Antes, Despues
<1>3. Estados[p] = "ready" /\ Estados' = [Estados EXCEPT ![p] = "exec"]
  BY <1>2, EstadoMueve DEF Nombres, Nombre
<1>4. Ciclo!En("exec") = {}
  BY EnExec, RepartoDespachar DEF Antes, Despues
<1> QED BY <1>1, <1>3, <1>4
        DEF Ciclo!Ejecutar, Ciclo!Pasar, Estados, Esperas, EsperaDe, Libres

\* The process on the CPU goes back to READY, blocks or ends.
LEMMA CicloDeja ==
    ASSUME Antes, Despues, UNCHANGED Fuera, NEW p \in Procesos,
           Desalojado(p) \/ EjecutarIO(p) \/ Transferir(p) \/ Finalizar(p)
    PROVE  Ciclo!Ceder(p) \/ Ciclo!Bloquear(p) \/ Ciclo!Terminar(p)
<1>1. UNCHANGED <<Esperas, Libres>>
  BY RecursosIguales DEF Desalojado, EjecutarIO, Transferir, Finalizar, recursos
<1>2. \/ Mueve(p, "turno", "listo") \/ Mueve(p, "turno", "io") \/ Mueve(p, "turno", "ida")
      \/ Sale(p)
  BY RepartoDesalojado, RepartoEjecutarIO, RepartoTransferir, RepartoFinalizar
     DEF Antes, Despues
<1>3. /\ Estados[p] = "exec"
      /\ \E e \in {"ready", "block", "exit"} : Estados' = [Estados EXCEPT ![p] = e]
  BY <1>2, EstadoMueve, EstadoSale DEF Nombres, Nombre
<1> QED BY <1>1, <1>3 DEF Ciclo!Ceder, Ciclo!Bloquear, Ciclo!Terminar, Ciclo!Pasar, Estados,
                          Esperas, EsperaDe, Libres

\* The memory has no room: the process ends.
LEMMA CicloSinMemoria ==
    ASSUME Antes, Despues, UNCHANGED Fuera, SinMemoria
    PROVE  \E p \in Procesos : Ciclo!Terminar(p)
<1>1. UNCHANGED <<Esperas, Libres>>
  BY RecursosIguales DEF SinMemoria, Resultado, recursos
<1>2. PICK p \in Procesos : Sale(p)
  BY RepartoResultado DEF Antes, Despues
<1>3. Estados[p] = "exec" /\ Estados' = [Estados EXCEPT ![p] = "exit"]
  BY <1>2, EstadoSale
<1> QED BY <1>1, <1>3 DEF Ciclo!Terminar, Ciclo!Pasar, Estados, Esperas, EsperaDe, Libres

\* The I/O and the file system put a process back in READY.
LEMMA CicloVuelve ==
    ASSUME Antes, Despues, UNCHANGED Fuera,
           Desbloqueado \/ \E p \in Procesos : TerminarIO(p)
    PROVE  \E p \in Procesos : Ciclo!Desbloquear(p)
<1>1. UNCHANGED <<Esperas, Libres>>
  BY RecursosIguales DEF Desbloqueado, TerminarIO, recursos
<1>2. PICK p \in Procesos, a \in {"io", "vuelta"} : Mueve(p, a, "listo")
  BY RepartoDesbloqueado, RepartoTerminarIO DEF Antes
<1>3. /\ Estados[p] = "block" /\ Estados' = [Estados EXCEPT ![p] = "ready"]
      /\ p \in Cajas[a] /\ a \in Nombres \ {"recurso"}
  BY <1>2, EstadoMueve DEF Nombres, Nombre, Mueve
<1>4. Esperas[p] = Nadie
  BY <1>3, NoEspera
<1> QED BY <1>1, <1>3, <1>4
        DEF Ciclo!Desbloquear, Ciclo!Pasar, Estados, Esperas, EsperaDe, Libres

\* The file system serves a transfer: the process is as blocked as before.
LEMMA CicloFileSystem ==
    ASSUME Antes, Despues, UNCHANGED Fuera, FileSystem PROVE UNCHANGED Ciclo!vars
<1>1. UNCHANGED <<Esperas, Libres>>
  BY RecursosIguales DEF FileSystem, recursos
<1>2. PICK p \in Procesos : Mueve(p, "ida", "vuelta")
  BY RepartoFileSystem DEF Antes
<1>3. Estados[p] = "block" /\ Estados' = [Estados EXCEPT ![p] = "block"]
  BY <1>2, EstadoMueve DEF Nombres, Nombre
<1>4. UNCHANGED Estados
  BY <1>3 DEF Estados
<1> QED BY <1>1, <1>4 DEF Ciclo!vars, Estados, Esperas, EsperaDe, Libres

\* ejecutar_wait: a unit is left over, or the process waits.
LEMMA CicloWait ==
    ASSUME RecursosConocidos, Antes, Despues, UNCHANGED Fuera, NEW p \in Procesos,
           EjecutarWait(p)
    PROVE  \E r \in Recursos : Ciclo!Tomar(p, r) \/ Ciclo!Esperar(p, r)
<1>0. ConversacionesInv /\ Reparto /\ TypeOK /\ TurnoSegun /\ TurnoSegun' /\ RepartoInv
  BY DEF Antes, Despues, RepartoInv, ConversacionesInv
<1>1. PICK r \in Recursos : r = Actual(p).param
  BY <1>0, PidePorRecurso
<1>2. /\ \A q \in Recursos : p \notin Elementos(colaRecurso[q])
      /\ instancias'[r] = instancias[r] - 1
      /\ \A q \in Recursos \ {r} : UNCHANGED <<instancias[q], colaRecurso[q]>>
      /\ instancias[r] > 0 => UNCHANGED colaRecurso[r]
      /\ instancias[r] <= 0 => colaRecurso'[r] = Append(colaRecurso[r], p)
  BY <1>0, <1>1, EfectoWait
<1>3. /\ instancias[r] \in Int /\ colaRecurso[r] \in Seq(Procesos)
      /\ Len(colaRecurso[r]) \in Nat
      /\ \A q \in Recursos : Libres[q] = instancias[q] + Len(colaRecurso[q])
      /\ \A q \in Recursos : Libres'[q] = instancias'[q] + Len(colaRecurso'[q])
  BY <1>0, Cantidades DEF Libres
<1>4. Ciclo!Cardinality(Ciclo!Esperando(r)) = Len(colaRecurso[r])
  BY EnEspera
<1>5. SinUnidad(r) <=> instancias[r] <= 0
  BY <1>3 DEF SinUnidad
<1>6. CASE instancias[r] > 0
  <2>1. Quieto
    BY <1>0, <1>1, <1>3, <1>5, <1>6, RepartoWait
  <2>2. UNCHANGED Estados
    BY <2>1, EstadoQuieto
  <2>3. p \in EnTurno
    BY <1>0, TurnoLlega DEF EjecutarWait
  <2>4. Estados[p] = "exec"
    BY <2>3, EnExec DEF Ciclo!En, Estados
  <2>5. UNCHANGED colaRecurso
    <3>1. \A q \in Recursos : colaRecurso'[q] = colaRecurso[q]
      BY <1>2, <1>6
    <3>2. colaRecurso \in [Recursos -> Seq(Procesos)]
            /\ colaRecurso' \in [Recursos -> Seq(Procesos)]
      BY DEF Antes, Despues, RepartoInv, ConversacionesInv, TypeOK
    <3> QED BY <3>1, <3>2
  <2>6. UNCHANGED Esperas
    BY <2>5 DEF Esperas, EsperaDe, EnCola, Sitios
  <2>7. Libres' = [Libres EXCEPT ![r] = @ - 1]
    <3>1. \A q \in Recursos : Libres'[q] = IF q = r THEN Libres[q] - 1 ELSE Libres[q]
      BY <1>2, <1>3, <2>5
    <3> QED BY <3>1 DEF Libres
  <2>8. Libres[r] > Ciclo!Cardinality(Ciclo!Esperando(r))
    BY <1>3, <1>4, <1>6
  <2>9. Ciclo!Tomar(p, r)
    BY <2>2, <2>4, <2>6, <2>7, <2>8 DEF Ciclo!Tomar, Estados, Esperas, EsperaDe, Libres
  <2> QED BY <2>9
<1>7. CASE instancias[r] <= 0
  <2>1. Mueve(p, "turno", "recurso")
    BY <1>0, <1>1, <1>5, <1>7, RepartoWait
  <2>2. Estados[p] = "exec" /\ Estados' = [Estados EXCEPT ![p] = "block"]
    BY <2>1, EstadoMueve DEF Nombres, Nombre
  <2>3. /\ Elementos(Append(colaRecurso[r], p)) = Elementos(colaRecurso[r]) \union {p}
        /\ Len(Append(colaRecurso[r], p)) = Len(colaRecurso[r]) + 1
    BY <1>3, ElementosDeAppend
  <2>4. UNCHANGED Libres
    <3>1. Libres'[r] = Libres[r]
      BY <1>2, <1>3, <1>7, <2>3
    <3>2. \A q \in Recursos \ {r} : Libres'[q] = Libres[q]
      BY <1>2, <1>3
    <3> QED BY <3>1, <3>2 DEF Libres
  <2>5. Esperas' = [Esperas EXCEPT ![p] = r]
    <3>1. p \in Elementos(colaRecurso[r])'
      BY <1>2, <1>7, <2>3 DEF Elementos
    <3>2. EsperaDe(p)' = r
      BY <3>1 DEF Despues, EsperaSegun
    <3>3. ASSUME NEW q \in Procesos \ {p} PROVE EsperaDe(q)' = EsperaDe(q)
      <4>1. \A s \in Recursos :
                q \in Elementos(colaRecurso[s])' <=> q \in Elementos(colaRecurso[s])
        <5>1. \A s \in Recursos \ {r} : Elementos(colaRecurso[s])' = Elementos(colaRecurso[s])
          BY <1>2 DEF Elementos
        <5>2. Elementos(colaRecurso[r])' = Elementos(colaRecurso[r]) \union {p}
          BY <1>2, <1>7, <2>3 DEF Elementos
        <5> QED BY <5>1, <5>2
      <4>2. CASE \E s \in Recursos : q \in Elementos(colaRecurso[s])
        BY <4>1, <4>2 DEF Antes, Despues, EsperaSegun
      <4>3. CASE \A s \in Recursos : q \notin Elementos(colaRecurso[s])
        BY <4>1, <4>3 DEF Antes, Despues, EsperaSegun
      <4> QED BY <4>2, <4>3
    <3> QED BY <3>2, <3>3 DEF Esperas
  <2>6. Libres[r] <= Ciclo!Cardinality(Ciclo!Esperando(r))
    BY <1>3, <1>4, <1>7
  <2>7. Ciclo!Esperar(p, r)
    BY <2>2, <2>4, <2>5, <2>6
       DEF Ciclo!Esperar, Ciclo!Pasar, Estados, Esperas, EsperaDe, Libres
  <2> QED BY <2>7
<1> QED BY <1>3, <1>6, <1>7

\* ejecutar_signal.
LEMMA CicloSignal ==
    ASSUME RecursosConocidos, Antes, Despues, UNCHANGED Fuera, NEW p \in Procesos,
           EjecutarSignal(p)
    PROVE  \E r \in Recursos : Ciclo!Soltar(p, r)
<1>0. ConversacionesInv /\ Reparto /\ TypeOK /\ TurnoSegun /\ TurnoSegun' /\ RepartoInv
  BY DEF Antes, Despues, RepartoInv, ConversacionesInv
<1>1. PICK r \in Recursos : r = Actual(p).param
  BY <1>0, PidePorRecurso
<1>2. /\ UNCHANGED colaRecurso
      /\ instancias'[r] = instancias[r] + 1
      /\ \A q \in Recursos \ {r} : UNCHANGED instancias[q]
  BY <1>0, <1>1, EfectoSignal
<1>3. UNCHANGED Estados
  BY <1>0, RepartoSignal, EstadoQuieto
<1>4. Estados[p] = "exec"
  <2>1. p \in EnTurno
    BY <1>0, TurnoLlega DEF EjecutarSignal
  <2> QED BY <2>1, EnExec DEF Ciclo!En, Estados
<1>5. UNCHANGED Esperas
  BY <1>2 DEF Esperas, EsperaDe, EnCola, Sitios
<1>6. Libres' = [Libres EXCEPT ![r] = @ + 1]
  <2>1. /\ instancias[r] \in Int /\ Len(colaRecurso[r]) \in Nat
        /\ \A q \in Recursos : Libres[q] = instancias[q] + Len(colaRecurso[q])
        /\ \A q \in Recursos : Libres'[q] = instancias'[q] + Len(colaRecurso[q])
    BY <1>0, <1>2, Cantidades DEF Libres
  <2>2. \A q \in Recursos : Libres'[q] = IF q = r THEN Libres[q] + 1 ELSE Libres[q]
    BY <1>2, <2>1
  <2> QED BY <2>2 DEF Libres
<1>7. Ciclo!Soltar(p, r)
  BY <1>3, <1>4, <1>5, <1>6 DEF Ciclo!Soltar, Estados, Esperas, EsperaDe, Libres
<1> QED BY <1>7

\* The thread of a resource gives a unit to the first that waits.
LEMMA CicloSaca ==
    ASSUME Antes, Despues, UNCHANGED Fuera, EsperasJustas, NEW r \in Recursos,
           RecursoSaca(r)
    PROVE  \E p \in Procesos : Ciclo!Conceder(p, r)
<1>0. Reparto /\ TypeOK /\ RepartoInv
  BY DEF Antes, RepartoInv, ConversacionesInv
<1>1. PICK p : p = Head(colaRecurso[r])
  OBVIOUS
<1>2. /\ colaRecurso[r] # <<>>
      /\ p \in Procesos /\ p \in Elementos(colaRecurso[r])
      /\ UNCHANGED instancias
      /\ EnCamino(r) >= 1
      /\ Len(colaRecurso'[r]) = Len(colaRecurso[r]) - 1
      /\ Elementos(colaRecurso[r])' = Elementos(colaRecurso[r]) \ {p}
      /\ \A q \in Recursos \ {r} :
            UNCHANGED colaRecurso[q] /\ p \notin Elementos(colaRecurso[q])
  BY <1>0, <1>1, EfectoSaca, Cantidades
<1>3. Mueve(p, "recurso", "listo")
  BY <1>0, <1>1, <1>2, RepartoSaca
<1>4. Estados[p] = "block" /\ Estados' = [Estados EXCEPT ![p] = "ready"]
  BY <1>2, <1>3, EstadoMueve DEF Nombres, Nombre
<1>5. Esperas[p] = r /\ Esperas' = [Esperas EXCEPT ![p] = Nadie]
  <2>1. /\ \A s \in Recursos \ {r} : Elementos(colaRecurso[s])' = Elementos(colaRecurso[s])
    BY <1>2 DEF Elementos
  <2>2. EsperaDe(p) = r
    BY <1>2 DEF Antes, EsperaSegun
  <2>3. EsperaDe(p)' = Nadie
    <3>1. \A s \in Recursos : p \notin Elementos(colaRecurso[s])'
      BY <1>2, <2>1
    <3> QED BY <1>2, <3>1 DEF Despues, EsperaSegun
  <2>4. ASSUME NEW q \in Procesos \ {p} PROVE EsperaDe(q)' = EsperaDe(q)
    <3>1. \A s \in Recursos :
              q \in Elementos(colaRecurso[s])' <=> q \in Elementos(colaRecurso[s])
      BY <1>2, <2>1
    <3>2. CASE \E s \in Recursos : q \in Elementos(colaRecurso[s])
      BY <3>1, <3>2 DEF Antes, Despues, EsperaSegun
    <3>3. CASE \A s \in Recursos : q \notin Elementos(colaRecurso[s])
      BY <3>1, <3>3 DEF Antes, Despues, EsperaSegun
    <3> QED BY <3>2, <3>3
  <2> QED BY <1>2, <2>2, <2>3, <2>4 DEF Esperas
<1>6. Libres[r] > 0 /\ Libres' = [Libres EXCEPT ![r] = @ - 1]
  <2>1. /\ instancias[r] \in Int /\ Len(colaRecurso[r]) \in Nat /\ EnCamino(r) \in Nat
        /\ Len(colaRecurso[r]) = EnCamino(r)
              + IF instancias[r] < 0 THEN -instancias[r] ELSE 0
        /\ \A q \in Recursos : Libres[q] = instancias[q] + Len(colaRecurso[q])
        /\ \A q \in Recursos : Libres'[q] = instancias[q] + Len(colaRecurso'[q])
    BY <1>0, <1>2, Cantidades DEF Libres, EsperasJustas
  <2>2. Libres[r] > 0 /\ Libres'[r] = Libres[r] - 1
    <3>1. /\ Libres[r] = instancias[r] + Len(colaRecurso[r])
          /\ Libres'[r] = instancias[r] + (Len(colaRecurso[r]) - 1)
      BY <1>2, <2>1
    <3>2. instancias[r] + Len(colaRecurso[r]) > 0
      BY <1>2, <2>1
    <3> QED BY <2>1, <3>1, <3>2
  <2>3. \A q \in Recursos \ {r} : Libres'[q] = Libres[q]
    BY <1>2, <2>1
  <2> QED BY <2>2, <2>3 DEF Libres
<1>7. Ciclo!Conceder(p, r)
  BY <1>4, <1>5, <1>6
     DEF Ciclo!Conceder, Ciclo!Pasar, Estados, Esperas, EsperaDe, Libres
<1> QED BY <1>2, <1>7

\* The steps that move nobody.
LEMMA CicloQuieto ==
    ASSUME Antes, Despues, UNCHANGED Fuera, Quieto, UNCHANGED <<instancias, colaRecurso>>
    PROVE  UNCHANGED Ciclo!vars
BY EstadoQuieto, RecursosIguales DEF Ciclo!vars, Estados, Esperas, EsperaDe, Libres

LEMMA CicloPaso ==
    ASSUME RecursosConocidos, Antes, Despues, EsperasJustas, [Next]_vars
    PROVE  Ciclo!Next \/ UNCHANGED Ciclo!vars
<1>0. RepartoInv /\ TurnoSegun /\ TurnoSegun'
  BY DEF Antes, Despues
<1>1. UNCHANGED Fuera \/ \E p \in Procesos : Conectar(p)
  BY <1>0, ConsolaPaso DEF Antes
<1>2. CASE \E p \in Procesos : Conectar(p)
  BY <1>2, CicloConectar DEF Ciclo!Next
<1>3. ASSUME UNCHANGED Fuera, Next \/ UNCHANGED vars
      PROVE  Ciclo!Next \/ UNCHANGED Ciclo!vars
  <2>1. CASE Admitir \/ Despachar \/ SinMemoria \/ Desbloqueado
             \/ \E p \in Procesos : TerminarIO(p)
    BY <1>3, <2>1, CicloAdmitir, CicloDespachar, CicloSinMemoria, CicloVuelve
       DEF Ciclo!Next
  <2>2. CASE FileSystem
    BY <1>3, <2>2, CicloFileSystem
  <2>3. ASSUME NEW p \in Procesos,
               Desalojado(p) \/ EjecutarIO(p) \/ Transferir(p) \/ Finalizar(p)
        PROVE  Ciclo!Next
    BY <1>3, <2>3, CicloDeja DEF Ciclo!Next
  <2>4. ASSUME NEW p \in Procesos, EjecutarWait(p) \/ EjecutarSignal(p)
        PROVE  Ciclo!Next
    BY <1>3, <2>4, CicloWait, CicloSignal DEF Ciclo!Next
  <2>5. ASSUME NEW r \in Recursos, RecursoSaca(r) PROVE Ciclo!Next
    BY <1>3, <2>5, CicloSaca DEF Ciclo!Next
  <2>6. CASE \/ NewDespierta \/ NewDuerme \/ ExecDespierta \/ ExecDuerme \/ TomarCpu
             \/ Memoria
             \/ \E r \in Recursos : RecursoDespierta(r)
             \/ UNCHANGED vars
    <3>1. Quieto
      BY <1>0, <2>6, RepartoHilos
    <3>2. UNCHANGED <<instancias, colaRecurso>>
      BY <2>6 DEF NewDespierta, NewDuerme, ExecDespierta, ExecDuerme, TomarCpu, Memoria,
                  RecursoDespierta, vars, recursos
    <3> QED BY <1>3, <3>1, <3>2, CicloQuieto
  <2>7. CASE Cpu \/ Notificar \/ \E p \in Procesos : PedirSegmento(p)
    <3>1. Quieto
      BY <1>0, <2>7, RepartoCpu, RepartoNotificar, RepartoPedir
    <3>2. UNCHANGED <<instancias, colaRecurso>>
      BY <2>7 DEF Cpu, CpuRecibe, CpuLocal, CpuConsulta, CpuEntrega, CpuRespuesta,
                  restoCpu, Notificar, PedirSegmento, recursos
    <3> QED BY <1>3, <3>1, <3>2, CicloQuieto
  <2>8. CASE CreacionExitosa \/ RealizarCompactacion \/ Compactar
    <3>1. ~SinMemoria
      BY <2>8 DEF CreacionExitosa, RealizarCompactacion, Compactar, SinMemoria, Resultado
    <3>2. Quieto
      BY <1>0, <2>8, <3>1, RepartoResultado
    <3>3. UNCHANGED <<instancias, colaRecurso>>
      BY <2>8 DEF CreacionExitosa, RealizarCompactacion, Compactar, Resultado, recursos
    <3> QED BY <1>3, <3>2, <3>3, CicloQuieto
  <2>9. CASE \E p \in Procesos : Conectar(p)
    BY <1>2, <2>9
  <2> QED BY <1>3, <2>1, <2>2, <2>3, <2>4, <2>5, <2>6, <2>7, <2>8, <2>9
          DEF Next, DeConsolas, HiloNew, HiloExec, AtenderCpu, IniciarRecurso
<1> QED BY <1>1, <1>2, <1>3

LEMMA CicloInicial == Init => Ciclo!Init
<1> SUFFICES ASSUME Init PROVE Ciclo!Init
  OBVIOUS
<1>1. \A r \in Recursos : colaRecurso[r] = <<>> /\ Len(colaRecurso[r]) = 0
  BY EmptySeq DEF Init
<1>2. \A p \in Procesos : \A r \in Recursos : ~EnCola(p, r)
  BY <1>1, EmptySeq DEF EnCola, Sitios
<1>3. \A p \in Procesos : EstadoDe(p) = "fuera"
  <2> SUFFICES ASSUME NEW p \in Procesos PROVE EstadoDe(p) = "fuera"
    OBVIOUS
  <2>1. /\ consola[p] = "fuera" /\ ~Saliendo(p)
        /\ Sitios(nuevos, p, "new") = {} /\ Sitios(listos, p, "ready") = {}
        /\ p \notin enIO
        /\ Sitios(aFs, p, "aFs") \union Sitios(deFs, p, "deFs") = {}
    BY EmptySeq DEF Init, Saliendo, AtiendeLibre, Sitios
  <2> QED BY <1>2, <2>1 DEF EstadoDe
<1>4. \A r \in Recursos : instancias[r] + Len(colaRecurso[r]) = Instancias[r]
  BY <1>1, InstanciasAssumption DEF Init
<1> QED BY <1>2, <1>3, <1>4, InstanciasAssumption DEF Ciclo!Init

-----------------------------------------------------------------------------
(* What holds at both ends of every step.                                      *)

TurnoYEspera == TurnoSegun /\ EsperaSegun

LEMMA TurnosYEsperas == RepartoInv => TurnoYEspera
<1> SUFFICES ASSUME RepartoInv PROVE TurnoYEspera
  OBVIOUS
<1>1. TypeOK /\ Dialogo /\ ColasAparte
  BY DEF RepartoInv, ConversacionesInv, Reparto
<1> QED BY <1>1, TurnoDe, EsperaEs DEF TurnoYEspera

LEMMA TerminadasPaso ==
    RecursosConocidos /\ RepartoInv /\ RepartoInv' /\ SinTerminada /\ [Next]_vars
        => SinTerminada'
<1> SUFFICES ASSUME RecursosConocidos, RepartoInv, RepartoInv', SinTerminada, [Next]_vars
             PROVE  SinTerminada'
  OBVIOUS
<1>1. TurnoYEspera'
  BY TurnosYEsperas, PTL
<1>2. TurnoSegun /\ TurnoSegun'
  BY <1>1, TurnosYEsperas DEF TurnoYEspera
<1> QED BY <1>2, ConsolaPaso

LEMMA TerminadasSiempre == RecursosConocidos => (Spec => []SinTerminada)
<1> SUFFICES ASSUME RecursosConocidos PROVE Spec => []SinTerminada
  OBVIOUS
<1>1. Init => SinTerminada
  BY DEF Init, SinTerminada
<1>2. RepartoInv /\ RepartoInv' /\ SinTerminada /\ [Next]_vars => SinTerminada'
  BY TerminadasPaso
<1> QED BY <1>1, <1>2, RepartoSiempre, PTL DEF Spec

\* The kernel implements CicloDeVida: whatever the order of the six threads, the
\* CPU, the memory and the consoles, each process goes through new, ready, exec,
\* block and exit as the log of states says, sem_multiprogramacion admits no
\* more than its value, and a unit of a resource passes from hand to hand, never
\* to two processes at a time.  This is so under FIFO.
THEOREM CicloCorrecto ==
    RecursosConocidos /\ HayUnaUnidad /\ Algoritmo = "FIFO" => (Spec => CicloCumplido)
<1> SUFFICES ASSUME RecursosConocidos, HayUnaUnidad, Algoritmo = "FIFO"
             PROVE  Spec => CicloCumplido
  OBVIOUS
<1>1. RepartoInv /\ RepartoInv' /\ GradoInv /\ SinTerminada /\ SinTerminada'
          /\ EsperasJustas /\ [Next]_vars
        => [Ciclo!Next]_(Ciclo!vars)
  <2> SUFFICES ASSUME RepartoInv, RepartoInv', GradoInv, SinTerminada, SinTerminada',
                      EsperasJustas, [Next]_vars
               PROVE  Ciclo!Next \/ UNCHANGED Ciclo!vars
    OBVIOUS
  <2>1. TurnoYEspera /\ TurnoYEspera'
    <3>1. TurnoYEspera'
      BY TurnosYEsperas, PTL
    <3> QED BY <3>1, TurnosYEsperas
  <2>2. EstadoSegun /\ EstadoSegun'
    <3>1. EstadoSegun'
      BY EstadoEs, PTL
    <3> QED BY <3>1, EstadoEs
  <2>3. Antes /\ Despues
    BY <2>1, <2>2 DEF Antes, Despues, TurnoYEspera
  <2> QED BY <2>3, CicloPaso
<1>2. Init => Ciclo!Init
  BY CicloInicial
<1>3. Spec => []RepartoInv /\ []GradoInv /\ []SinTerminada /\ []EsperasJustas
  BY RepartoSiempre, GradoSiempre, TerminadasSiempre, EsperasCorrectas
<1> QED BY <1>1, <1>2, <1>3, PTL DEF Spec, CicloCumplido, Ciclo!Spec
===============================================================================
