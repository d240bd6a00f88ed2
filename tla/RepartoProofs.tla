---------------------------- MODULE RepartoProofs ----------------------------
(* Where the processes are: the queues, the messages, the CPU and the threads  *)
(* share them out, and every step takes one process from one of these places   *)
(* to another, for any number of processes, resources and any programs.  Under *)
(* HRRN a push that falls in the sort of the ready list may leave one out.     *)
EXTENDS PlanificadorProofs

-----------------------------------------------------------------------------
(* Lists in which nobody appears twice.                                        *)

SinRepetir(s) == \A i, j \in DOMAIN s : s[i] = s[j] => i = j

\* A newcomer at the end of the list.
LEMMA SinRepetirAppend ==
    ASSUME NEW S, NEW s \in Seq(S), NEW x \in S, SinRepetir(s), x \notin Elementos(s)
    PROVE  SinRepetir(Append(s, x))
<1>1. /\ Len(s) \in Nat /\ DOMAIN s = 1 .. Len(s)
      /\ DOMAIN Append(s, x) = (1 .. Len(s)) \union {Len(s) + 1}
      /\ \A i \in 1 .. Len(s) : Append(s, x)[i] = s[i]
      /\ Append(s, x)[Len(s) + 1] = x
  BY LenProperties, AppendProperties
<1> QED BY <1>1 DEF SinRepetir, Elementos

\* The head leaves the list for good.
LEMMA SinRepetirTail ==
    ASSUME NEW S, NEW s \in Seq(S), s # <<>>, SinRepetir(s)
    PROVE  /\ Head(s) \in Elementos(s) /\ Head(s) \in S /\ Tail(s) \in Seq(S)
           /\ Elementos(Tail(s)) = Elementos(s) \ {Head(s)}
           /\ SinRepetir(Tail(s))
<1>1. /\ Len(s) \in Nat \ {0} /\ DOMAIN s = 1 .. Len(s)
      /\ Head(s) = s[1] /\ Head(s) \in S
      /\ Tail(s) \in Seq(S) /\ Len(Tail(s)) = Len(s) - 1
      /\ \A i \in 1 .. Len(s) - 1 : Tail(s)[i] = s[i + 1]
  BY Sacar, LenProperties
<1>2. DOMAIN Tail(s) = 1 .. Len(s) - 1
  BY <1>1, LenProperties
<1>3. Elementos(s) = {Head(s)} \union Elementos(Tail(s))
  BY ElementosDeTail
<1>4. Head(s) \notin Elementos(Tail(s))
  <2> SUFFICES ASSUME NEW i \in 1 .. Len(s) - 1 PROVE s[1] # s[i + 1]
    BY <1>1, <1>2 DEF Elementos
  <2> QED BY <1>1 DEF SinRepetir
<1>5. SinRepetir(Tail(s))
  BY SMTT(30), <1>1, <1>2 DEF SinRepetir
<1> QED BY <1>1, <1>3, <1>4, <1>5

\* The elements that Quitar leaves, place by place.
LEMMA QuitarLugares ==
    ASSUME NEW S, NEW s \in Seq(S), NEW i \in DOMAIN s
    PROVE  /\ DOMAIN s = 1 .. Len(s) /\ Len(s) \in Nat
           /\ DOMAIN Quitar(s, i) = 1 .. Len(s) - 1
           /\ \A j \in 1 .. Len(s) - 1 :
                 Quitar(s, i)[j] = IF j < i THEN s[j] ELSE s[j + 1]
<1>1. /\ DOMAIN s = 1 .. Len(s) /\ Len(s) \in Nat
      /\ \A j \in 1 .. Len(s) : s[j] \in S
  BY LenProperties, ElementOfSeq
<1> DEFINE a == SubSeq(s, 1, i - 1)
           b == SubSeq(s, i + 1, Len(s))
<1>2. /\ a \in Seq(S) /\ Len(a) = i - 1
      /\ \A j \in 1 .. i - 1 : a[j] = s[j]
  BY <1>1, SubSeqProperties
<1>3. /\ b \in Seq(S) /\ Len(b) = Len(s) - i
      /\ \A j \in 1 .. Len(s) - i : b[j] = s[i + j]
  BY <1>1, SubSeqProperties
<1>0. Quitar(s, i) = a \o b
  BY DEF Quitar
<1> HIDE DEF a, b
<1>4. /\ a \o b \in Seq(S)
      /\ Len(a \o b) = Len(s) - 1
      /\ \A j \in 1 .. Len(a) : (a \o b)[j] = a[j]
      /\ \A j \in 1 .. Len(b) : (a \o b)[Len(a) + j] = b[j]
  <2>1. /\ a \o b \in Seq(S)
        /\ Len(a \o b) = Len(a) + Len(b)
        /\ \A j \in 1 .. Len(a) + Len(b) :
              (a \o b)[j] = IF j <= Len(a) THEN a[j] ELSE b[j - Len(a)]
    BY <1>2, <1>3, ConcatProperties
  <2>2. Len(a) \in Nat /\ Len(b) \in Nat
    BY <1>2, <1>3, LenProperties
  <2>3. Len(a \o b) = Len(s) - 1
    BY <1>1, <1>2, <1>3, <2>1
  <2>4. \A j \in 1 .. Len(a) : (a \o b)[j] = a[j]
    BY ONLY <2>1, <2>2
  <2>5. ASSUME NEW j \in 1 .. Len(b) PROVE (a \o b)[Len(a) + j] = b[j]
    <3>1. /\ Len(a) + j \in 1 .. Len(a) + Len(b) /\ ~(Len(a) + j <= Len(a))
          /\ Len(a) + j - Len(a) = j
      BY ONLY <2>2, <2>5
    <3> QED BY ONLY <2>1, <3>1
  <2> QED BY <2>1, <2>3, <2>4, <2>5
<1>5. DOMAIN (a \o b) = 1 .. Len(s) - 1
  BY <1>4, LenProperties
<1>6. ASSUME NEW j \in 1 .. Len(s) - 1
      PROVE  (a \o b)[j] = IF j < i THEN s[j] ELSE s[j + 1]
  <2>1. CASE j < i
    BY <1>1, <1>2, <1>4, <2>1
  <2>2. CASE ~(j < i)
    <3>1. j - i + 1 \in 1 .. Len(s) - i /\ (i - 1) + (j - i + 1) = j
          /\ i + (j - i + 1) = j + 1
      BY <1>1, <2>2
    <3>2. b[j - i + 1] = s[j + 1]
      BY <1>3, <3>1
    <3>3. (a \o b)[Len(a) + (j - i + 1)] = b[j - i + 1]
      BY <1>3, <1>4, <3>1
    <3> QED BY <1>2, <2>2, <3>1, <3>2, <3>3
  <2> QED BY <2>1, <2>2
<1> QED BY <1>0, <1>1, <1>4, <1>5, <1>6

\* Whoever leaves from the middle of the list leaves it for good.
LEMMA SinRepetirQuitar ==
    ASSUME NEW S, NEW s \in Seq(S), NEW i \in DOMAIN s, SinRepetir(s)
    PROVE  /\ s[i] \in S /\ s[i] \in Elementos(s)
           /\ Elementos(Quitar(s, i)) = Elementos(s) \ {s[i]}
           /\ SinRepetir(Quitar(s, i))
<1> DEFINE q == Quitar(s, i)
<1>1. /\ DOMAIN s = 1 .. Len(s) /\ Len(s) \in Nat
      /\ DOMAIN q = 1 .. Len(s) - 1
      /\ \A j \in 1 .. Len(s) - 1 : q[j] = IF j < i THEN s[j] ELSE s[j + 1]
  BY QuitarLugares
<1>2. \A j \in 1 .. Len(s) : s[j] \in S
  BY <1>1, ElementOfSeq
<1> HIDE DEF q
<1>3. Elementos(q) \subseteq Elementos(s) \ {s[i]}
  <2> SUFFICES ASSUME NEW j \in 1 .. Len(s) - 1
               PROVE  q[j] \in Elementos(s) /\ q[j] # s[i]
    BY <1>1 DEF Elementos
  <2> QED BY <1>1 DEF Elementos, SinRepetir
<1>4. Elementos(s) \ {s[i]} \subseteq Elementos(q)
  <2> SUFFICES ASSUME NEW j \in 1 .. Len(s), s[j] # s[i] PROVE s[j] \in Elementos(q)
    BY <1>1 DEF Elementos
  <2>1. CASE j < i
    BY <1>1, <2>1 DEF Elementos
  <2>2. CASE j > i
    <3>1. j - 1 \in 1 .. Len(s) - 1 /\ q[j - 1] = s[j]
      BY <1>1, <2>2
    <3> QED BY <1>1, <3>1 DEF Elementos
  <2> QED BY <1>1, <2>1, <2>2
<1>5. SinRepetir(q)
  <2> DEFINE salta(j) == IF j < i THEN j ELSE j + 1
  <2>1. \A j \in 1 .. Len(s) - 1 : salta(j) \in DOMAIN s /\ q[j] = s[salta(j)]
    BY <1>1
  <2>2. \A j, k \in 1 .. Len(s) - 1 : salta(j) = salta(k) => j = k
    BY <1>1
  <2> HIDE DEF salta
  <2>3. \A j, k \in 1 .. Len(s) - 1 : q[j] = q[k] => salta(j) = salta(k)
    BY <2>1 DEF SinRepetir
  <2>4. \A j, k \in 1 .. Len(s) - 1 : q[j] = q[k] => j = k
    BY <2>2, <2>3
  <2> QED BY <1>1, <2>4 DEF SinRepetir
<1> QED BY <1>1, <1>2, <1>3, <1>4, <1>5 DEF Elementos, q

\* The places of an element in a list: one, or none.
LEMMA UnSitio ==
    ASSUME NEW S, NEW s \in Seq(S), SinRepetir(s), NEW x, NEW n
    PROVE  /\ x \notin Elementos(s) => Sitios(s, x, n) = {}
           /\ x \in Elementos(s) => \E l : Sitios(s, x, n) = {l}
<1>1. x \notin Elementos(s) => Sitios(s, x, n) = {}
  BY DEF Elementos, Sitios
<1>2. ASSUME x \in Elementos(s) PROVE \E l : Sitios(s, x, n) = {l}
  <2>1. PICK i \in DOMAIN s : s[i] = x
    BY <1>2 DEF Elementos
  <2>2. {j \in DOMAIN s : s[j] = x} = {i}
    BY <2>1 DEF SinRepetir
  <2>3. Sitios(s, x, n) = {<<n, i>>}
    BY <2>2 DEF Sitios
  <2> QED BY <2>3
<1> QED BY <1>1, <1>2

-----------------------------------------------------------------------------
(* The places.                                                                 *)

\* The process that has the right to run: on the CPU, or in the message that
\* takes it there or back.
EnTurno ==
    {p \in Procesos :
        \/ p = cpu.pid /\ ~Parando
        \/ \E i \in DOMAIN aCpu : EsDespacho(i) /\ aCpu[i].pid = p
        \/ \E i \in DOMAIN aKernel : EsEntrega(i) /\ aKernel[i].pid = p}

EnColas == UNION {Elementos(colaRecurso[r]) : r \in Recursos}

Nombres == {"nuevo", "listo", "recurso", "ida", "vuelta", "io", "turno"}
Cajas == [nuevo |-> Elementos(nuevos), listo |-> Elementos(listos),
          recurso |-> EnColas, ida |-> Elementos(aFs), vuelta |-> Elementos(deFs),
          io |-> enIO, turno |-> EnTurno]

\* The processes that were handed in and have not ended.
Vivos == {p \in Procesos : consola[p] = "activa" /\ ~Saliendo(p)}

SinRepetidos ==
    /\ SinRepetir(nuevos) /\ SinRepetir(listos)
    /\ SinRepetir(aFs) /\ SinRepetir(deFs)
    /\ \A r \in Recursos : SinRepetir(colaRecurso[r])

Aparte == \A a, b \in Nombres : a # b => Cajas[a] \intersect Cajas[b] = {}
Todos ==
    /\ UNION {Cajas[a] : a \in Nombres} \subseteq Vivos
    /\ Algoritmo = "FIFO" => Vivos \subseteq UNION {Cajas[a] : a \in Nombres}
ColasAparte ==
    \A r, q \in Recursos :
        r # q => Elementos(colaRecurso[r]) \intersect Elementos(colaRecurso[q]) = {}
SaleUnVivo == atiende.fase = "notificar" => consola[atiende.pid] = "activa"

\* The inductive invariant: the places share out the live processes, all of them
\* under FIFO.
Reparto == Aparte /\ Todos /\ ColasAparte /\ SinRepetidos /\ SaleUnVivo
RepartoInv == ConversacionesInv /\ Reparto

\* Who has the turn, read off the connection with the CPU.
TurnoSegun ==
    /\ cpu.estado = "ociosa" /\ aCpu = <<>> /\ aKernel = <<>> => EnTurno = {}
    /\ cpu.estado = "ociosa" /\ aCpu # <<>> => EnTurno = {aCpu[1].pid}
    /\ cpu.estado = "ociosa" /\ aKernel # <<>> => EnTurno = {aKernel[1].pid}
    /\ cpu.estado = "ejecutando" => EnTurno = {cpu.pid}
    /\ cpu.estado = "esperando" /\ aCpu = <<>> => EnTurno = {cpu.pid}
    /\ cpu.estado = "esperando" /\ Len(aCpu) = 1 /\ aCpu[1].op = Sigue[Pedida]
          => EnTurno = {cpu.pid}
    /\ cpu.estado = "esperando" /\ Len(aCpu) = 1 /\ aCpu[1].op = Para[Pedida]
          => EnTurno = {}
    /\ cpu.estado = "esperando" /\ Len(aCpu) = 2 => EnTurno = {aCpu[2].pid}

\* One process at a time has the turn.
LEMMA TurnoDe == TypeOK /\ Dialogo => TurnoSegun
<1> SUFFICES ASSUME TypeOK, Dialogo PROVE TurnoSegun
  OBVIOUS
<1> USE DEF FaseLibre, FaseDespacho, FaseEntrega, FaseCorre, FasePedido,
            FaseAnaliza, FaseSigue, FasePara, Vacios
<1>1. /\ DOMAIN aCpu = 1 .. Len(aCpu) /\ DOMAIN aKernel = 1 .. Len(aKernel)
      /\ Len(aCpu) \in Nat /\ (Len(aCpu) = 0 <=> aCpu = <<>>)
      /\ Len(aKernel) \in Nat /\ (Len(aKernel) = 0 <=> aKernel = <<>>)
      /\ \A i \in 1 .. Len(aCpu) : aCpu[i].pid \in Procesos
      /\ \A i \in 1 .. Len(aKernel) : aKernel[i].pid \in Procesos
      /\ aCpu # <<>> => Head(aCpu) = aCpu[1]
  <2>1. /\ \A i \in 1 .. Len(aCpu) : aCpu[i] \in AlCpu
        /\ \A i \in 1 .. Len(aKernel) : aKernel[i] \in AlKernel
    BY Canales, ElementOfSeq
  <2> QED BY <2>1, Canales, LenProperties, Sacar DEF AlCpu, AlKernel
<1>2. /\ cpu.estado = "ociosa" => cpu.pid \notin Procesos
      /\ cpu.estado \in {"ejecutando", "esperando"} => cpu.pid \in Procesos
  BY ProcesosAssumption DEF TypeOK, CpuOciosa
<1>3. CASE FaseLibre
  <2>1. EnTurno = {}
    BY <1>1, <1>2, <1>3 DEF EnTurno
  <2> QED BY <1>1, <1>3, <2>1 DEF TurnoSegun
<1>4. CASE FaseDespacho
  <2>1. EsDespacho(1)
    BY <1>4 DEF EsDespacho
  <2>2. EnTurno = {aCpu[1].pid}
    BY <1>1, <1>2, <1>4, <2>1 DEF EnTurno
  <2> QED BY <1>1, <1>4, <2>2 DEF TurnoSegun
<1>5. CASE FaseEntrega
  <2>1. EnTurno = {aKernel[1].pid}
    BY <1>1, <1>2, <1>5 DEF EnTurno
  <2> QED BY <1>1, <1>5, <2>1 DEF TurnoSegun
<1>6. CASE FaseCorre
  <2>1. ~Parando
    BY <1>6 DEF Parando
  <2>2. EnTurno = {cpu.pid}
    BY <1>1, <1>2, <1>6, <2>1 DEF EnTurno
  <2> QED BY <1>1, <1>6, <2>2 DEF TurnoSegun
<1>7. CASE FasePedido
  <2>1. ~EsEntrega(1)
    BY <1>7 DEF EsEntrega, Mensaje, OperacionDe, SinRespuesta, ConRespuesta, Dialogo
  <2>2. ~Parando
    BY <1>7 DEF Parando
  <2>3. EnTurno = {cpu.pid}
    BY <1>1, <1>2, <1>7, <2>1, <2>2 DEF EnTurno
  <2> QED BY <1>1, <1>7, <2>3 DEF TurnoSegun
<1>8. CASE FaseAnaliza
  <2>1. ~Parando
    BY <1>8 DEF Parando
  <2>2. EnTurno = {cpu.pid}
    BY <1>1, <1>2, <1>8, <2>1 DEF EnTurno
  <2> QED BY <1>1, <1>8, <2>2 DEF TurnoSegun
<1>9. CASE FaseSigue
  <2>1. Para[Pedida] # Sigue[Pedida]
    BY <1>9 DEF Para, Sigue, ConRespuesta, Dialogo
  <2>2. ~Parando /\ ~EsDespacho(1)
    BY <1>1, <1>9, <2>1 DEF Parando, EsDespacho, Pedida
  <2>3. EnTurno = {cpu.pid}
    BY <1>1, <1>2, <1>9, <2>2 DEF EnTurno
  <2> QED BY <1>1, <1>9, <2>1, <2>3 DEF TurnoSegun
<1>10. CASE FasePara
  <2>1. Parando /\ ~EsDespacho(1) /\ (Len(aCpu) = 2 => EsDespacho(2))
    BY <1>1, <1>10 DEF Parando, Pedida, EsDespacho
  <2>2. Para[Pedida] # Sigue[Pedida]
    BY <1>10 DEF Para, Sigue, ConRespuesta, Dialogo
  <2>3. CASE Len(aCpu) = 1
    <3>1. EnTurno = {}
      BY <1>1, <1>10, <2>1, <2>3 DEF EnTurno
    <3> QED BY <1>1, <1>10, <2>2, <2>3, <3>1 DEF TurnoSegun
  <2>4. CASE Len(aCpu) = 2
    <3>1. EnTurno = {aCpu[2].pid}
      BY <1>1, <1>10, <2>1, <2>4 DEF EnTurno
    <3> QED BY <1>1, <1>10, <2>4, <3>1 DEF TurnoSegun
  <2> QED BY <1>10, <2>3, <2>4
<1> QED BY <1>3, <1>4, <1>5, <1>6, <1>7, <1>8, <1>9, <1>10 DEF Dialogo

-----------------------------------------------------------------------------
(* The movements.  Every step of the system is one of them.                    *)

\* No process changes place.
Quieto == UNCHANGED <<Cajas, Vivos, semMulti>>

\* A place that held x holds y, with p, unless p or another was left out by the
\* sort of HRRN.
Suma(x, y, p) == y \subseteq x \union {p} /\ (Algoritmo = "FIFO" => y = x \union {p})

\* Process p goes from place a to place b; whoever leaves NEW takes a slot, and
\* nobody goes back to it.
Mueve(p, a, b) ==
    /\ a # b /\ b # "nuevo" /\ p \in Cajas[a]
    /\ Cajas'[a] = Cajas[a] \ {p} /\ Suma(Cajas[b], Cajas'[b], p)
    /\ \A c \in Nombres \ {a, b} : Cajas'[c] = Cajas[c]
    /\ UNCHANGED Vivos
    /\ semMulti' = IF a = "nuevo" THEN semMulti - 1 ELSE semMulti

\* Process p is handed in.
Entra(p) ==
    /\ p \notin Vivos /\ Vivos' = Vivos \union {p}
    /\ Cajas'.nuevo = Cajas.nuevo \union {p}
    /\ \A c \in Nombres \ {"nuevo"} : Cajas'[c] = Cajas[c]
    /\ UNCHANGED semMulti

\* Process p, which had the turn, ends and gives its slot back.
Sale(p) ==
    /\ p \in Cajas.turno /\ Vivos' = Vivos \ {p}
    /\ Cajas'.turno = Cajas.turno \ {p}
    /\ \A c \in Nombres \ {"turno"} : Cajas'[c] = Cajas[c]
    /\ semMulti' = semMulti + 1

Movimiento ==
    \/ Quieto
    \/ \E p \in Procesos : Entra(p) \/ Sale(p) \/ \E a, b \in Nombres : Mueve(p, a, b)

\* A movement leaves the live processes shared out.
LEMMA MovimientoReparte ==
    ASSUME Aparte, Todos, Movimiento
    PROVE  Aparte' /\ Todos'
<1>1. CASE Quieto
  BY <1>1 DEF Quieto, Aparte, Todos
<1>2. ASSUME NEW p \in Procesos, Entra(p) PROVE Aparte' /\ Todos'
  BY <1>2 DEF Entra, Aparte, Todos, Nombres
<1>3. ASSUME NEW p \in Procesos, Sale(p) PROVE Aparte' /\ Todos'
  BY <1>3 DEF Sale, Aparte, Todos, Nombres
<1>4. ASSUME NEW p \in Procesos, NEW a \in Nombres, NEW b \in Nombres, Mueve(p, a, b)
      PROVE  Aparte' /\ Todos'
  <2>1. Aparte'
    <3> SUFFICES ASSUME NEW c \in Nombres, NEW d \in Nombres, c # d
                 PROVE  Cajas'[c] \intersect Cajas'[d] = {}
      BY DEF Aparte
    <3> QED BY <1>4 DEF Mueve, Suma, Aparte
  <2>2. Todos'
    <3>1. \A c \in Nombres : c \notin {a, b} => Cajas'[c] = Cajas[c]
      BY <1>4 DEF Mueve
    <3>2. /\ Cajas'[a] = Cajas[a] \ {p} /\ Suma(Cajas[b], Cajas'[b], p)
          /\ p \in Cajas[a] /\ a # b /\ UNCHANGED Vivos
      BY <1>4 DEF Mueve
    <3>3. ASSUME Algoritmo = "FIFO", NEW x, NEW c \in Nombres, x \in Cajas[c]
          PROVE  \E d \in Nombres : x \in Cajas'[d]
      BY <3>1, <3>2, <3>3 DEF Suma
    <3>4. ASSUME NEW x, NEW c \in Nombres, x \in Cajas'[c]
          PROVE  \E d \in Nombres : x \in Cajas[d]
      BY <3>1, <3>2, <3>4 DEF Suma
    <3> QED BY <3>2, <3>3, <3>4 DEF Todos
  <2> QED BY <2>1, <2>2
<1> QED BY <1>1, <1>2, <1>3, <1>4 DEF Movimiento

\* The turn does not change hands in the steps that leave the CPU alone.
LEMMA TurnoQuieto ==
    ASSUME UNCHANGED <<cpu, pc, aCpu, aKernel>> PROVE UNCHANGED EnTurno
BY DEF EnTurno, Parando, EsDespacho, EsEntrega, Actual

\* Who is alive depends on the consoles and on atender_cpu.
LEMMA VivosQuietos ==
    ASSUME UNCHANGED <<consola, atiende>>
    PROVE  UNCHANGED Vivos /\ (SaleUnVivo => SaleUnVivo')
BY DEF Vivos, Saliendo, SaleUnVivo

\* The steps that move nobody.
LEMMA SinMovimiento ==
    ASSUME RepartoInv,
           UNCHANGED <<nuevos, listos, colaRecurso, aFs, deFs, enIO, EnTurno, Vivos,
                       semMulti>>,
           SaleUnVivo'
    PROVE  Quieto /\ Reparto'
<1>1. UNCHANGED Cajas
  BY DEF Cajas, EnColas
<1>2. ColasAparte' /\ SinRepetidos'
  BY DEF RepartoInv, Reparto, ColasAparte, SinRepetidos
<1> QED BY <1>1, <1>2 DEF Quieto, RepartoInv, Reparto, Aparte, Todos

\* agregar_a_cola_ready, called with a process taken from somewhere else.
LEMMA AlReady ==
    ASSUME RepartoInv, NEW p \in Procesos, NEW a \in Nombres, a # "listo",
           p \in Cajas[a], AgregarAColaReady(p)
    PROVE  SinRepetir(listos') /\ Suma(Elementos(listos), Elementos(listos'), p)
<1>1. listos \in Seq(Procesos) /\ SinRepetir(listos)
  BY DEF RepartoInv, ConversacionesInv, TypeOK, Reparto, SinRepetidos
<1>2. p \notin Elementos(listos)
  BY DEF RepartoInv, Reparto, Aparte, Nombres, Cajas
<1> DEFINE s == Append(listos, p)
<1>3. /\ s \in Seq(Procesos) /\ SinRepetir(s)
      /\ Elementos(s) = Elementos(listos) \union {p}
  BY <1>1, <1>2, SinRepetirAppend, ElementosDeAppend, AppendProperties
<1>4. \/ listos' = s
      \/ Algoritmo = "HRRN" /\ \E i \in DOMAIN s : listos' = Quitar(s, i)
  BY DEF AgregarAColaReady, ConUnoMas, Ordenando
<1> HIDE DEF s
<1>5. ASSUME NEW i \in DOMAIN s, Algoritmo = "HRRN", listos' = Quitar(s, i)
      PROVE  SinRepetir(listos') /\ Suma(Elementos(listos), Elementos(listos'), p)
  BY <1>3, <1>5, SinRepetirQuitar DEF Suma
<1> QED BY <1>3, <1>4, <1>5 DEF Suma

\* A console hands in its process.
LEMMA RepartoConectar ==
    ASSUME RepartoInv, NEW p \in Procesos, Conectar(p)
    PROVE  Entra(p) /\ ColasAparte' /\ SinRepetidos' /\ SaleUnVivo'
<1>1. /\ nuevos \in Seq(Procesos) /\ SinRepetir(nuevos)
      /\ consola \in [Procesos -> {"fuera", "activa", "terminada", "finalizada"}]
  BY DEF RepartoInv, ConversacionesInv, TypeOK, Reparto, SinRepetidos
<1>2. /\ consola[p] = "fuera" /\ consola' = [consola EXCEPT ![p] = "activa"]
      /\ nuevos' = Append(nuevos, p)
      /\ UNCHANGED <<listos, colaRecurso, aFs, deFs, enIO, semMulti, atiende>>
      /\ UNCHANGED <<cpu, pc, aCpu, aKernel>>
  BY DEF Conectar, AgregarAColaNew, recursos, canalFs, laCpu
<1>3. p \notin Vivos /\ ~Saliendo(p)
  BY <1>2 DEF Vivos, RepartoInv, Reparto, SaleUnVivo, Saliendo
<1>4. Vivos' = Vivos \union {p} /\ SaleUnVivo'
  BY <1>1, <1>2, <1>3 DEF Vivos, Saliendo, RepartoInv, Reparto, SaleUnVivo
<1>5. p \notin Cajas.nuevo
  BY <1>3 DEF RepartoInv, Reparto, Todos, Nombres
<1>6. SinRepetir(nuevos') /\ Elementos(nuevos') = Elementos(nuevos) \union {p}
  BY <1>1, <1>2, <1>5, SinRepetirAppend, ElementosDeAppend DEF Cajas
<1>7. UNCHANGED <<EnTurno, EnColas>>
  BY <1>2, TurnoQuieto DEF EnColas
<1>8. Entra(p)
  BY <1>2, <1>3, <1>4, <1>6, <1>7 DEF Entra, Cajas, Nombres
<1>9. ColasAparte' /\ SinRepetidos'
  BY <1>2, <1>6 DEF RepartoInv, Reparto, ColasAparte, SinRepetidos
<1> QED BY <1>4, <1>8, <1>9

\* de_new_a_ready admits the head of NEW.
LEMMA RepartoAdmitir ==
    ASSUME RepartoInv, Admitir
    PROVE  /\ Head(nuevos) \in Procesos /\ Mueve(Head(nuevos), "nuevo", "listo")
           /\ ColasAparte' /\ SinRepetidos' /\ SaleUnVivo'
<1> DEFINE p == Head(nuevos)
<1>1. nuevos \in Seq(Procesos) /\ SinRepetir(nuevos)
  BY DEF RepartoInv, ConversacionesInv, TypeOK, Reparto, SinRepetidos
<1>2. /\ nuevos # <<>> /\ nuevos' = Tail(nuevos) /\ AgregarAColaReady(p)
      /\ semMulti' = semMulti - 1
      /\ UNCHANGED <<colaRecurso, aFs, deFs, enIO, atiende, consola>>
      /\ UNCHANGED <<cpu, pc, aCpu, aKernel>>
  BY DEF Admitir, recursos, canalFs, laCpu
<1>3. /\ p \in Procesos /\ p \in Elementos(nuevos) /\ SinRepetir(nuevos')
      /\ Elementos(nuevos') = Elementos(nuevos) \ {p}
  BY <1>1, <1>2, SinRepetirTail
<1> HIDE DEF p
<1>4. SinRepetir(listos') /\ Suma(Elementos(listos), Elementos(listos'), p)
  BY <1>2, <1>3, AlReady DEF Cajas, Nombres
<1>5. UNCHANGED <<EnTurno, EnColas, Vivos>> /\ SaleUnVivo'
  BY <1>2, TurnoQuieto, VivosQuietos DEF EnColas, RepartoInv, Reparto
<1>6. Mueve(p, "nuevo", "listo")
  BY <1>2, <1>3, <1>4, <1>5 DEF Mueve, Suma, Cajas, Nombres
<1>7. ColasAparte' /\ SinRepetidos'
  BY <1>2, <1>3, <1>4 DEF RepartoInv, Reparto, ColasAparte, SinRepetidos
<1> QED BY <1>3, <1>5, <1>6, <1>7 DEF p

\* The end of an I/O.
LEMMA RepartoTerminarIO ==
    ASSUME RepartoInv, NEW p \in Procesos, TerminarIO(p)
    PROVE  Mueve(p, "io", "listo") /\ ColasAparte' /\ SinRepetidos' /\ SaleUnVivo'
<1>1. /\ p \in enIO /\ enIO' = enIO \ {p} /\ AgregarAColaReady(p)
      /\ UNCHANGED <<nuevos, colaRecurso, aFs, deFs, atiende, consola, semMulti>>
      /\ UNCHANGED <<cpu, pc, aCpu, aKernel>>
  BY DEF TerminarIO, recursos, canalFs, laCpu
<1>2. SinRepetir(listos') /\ Suma(Elementos(listos), Elementos(listos'), p)
  BY <1>1, AlReady DEF Cajas, Nombres
<1>3. UNCHANGED <<EnTurno, EnColas, Vivos>> /\ SaleUnVivo'
  BY <1>1, TurnoQuieto, VivosQuietos DEF EnColas, RepartoInv, Reparto
<1>4. Mueve(p, "io", "listo")
  BY <1>1, <1>2, <1>3 DEF Mueve, Suma, Cajas, Nombres
<1>5. ColasAparte' /\ SinRepetidos'
  BY <1>1, <1>2 DEF RepartoInv, Reparto, ColasAparte, SinRepetidos
<1> QED BY <1>3, <1>4, <1>5

\* The answer of the file system.
LEMMA RepartoDesbloqueado ==
    ASSUME RepartoInv, Desbloqueado
    PROVE  /\ Head(deFs) \in Procesos /\ Mueve(Head(deFs), "vuelta", "listo")
           /\ ColasAparte' /\ SinRepetidos' /\ SaleUnVivo'
<1> DEFINE p == Head(deFs)
<1>1. deFs \in Seq(Procesos) /\ SinRepetir(deFs)
  BY DEF RepartoInv, ConversacionesInv, TypeOK, Reparto, SinRepetidos
<1>2. /\ deFs # <<>> /\ deFs' = Tail(deFs) /\ AgregarAColaReady(p)
      /\ UNCHANGED <<nuevos, colaRecurso, aFs, enIO, atiende, consola, semMulti>>
      /\ UNCHANGED <<cpu, pc, aCpu, aKernel>>
  BY DEF Desbloqueado, recursos, laCpu
<1>3. /\ p \in Procesos /\ p \in Elementos(deFs) /\ SinRepetir(deFs')
      /\ Elementos(deFs') = Elementos(deFs) \ {p}
  BY <1>1, <1>2, SinRepetirTail
<1> HIDE DEF p
<1>4. SinRepetir(listos') /\ Suma(Elementos(listos), Elementos(listos'), p)
  BY <1>2, <1>3, AlReady DEF Cajas, Nombres
<1>5. UNCHANGED <<EnTurno, EnColas, Vivos>> /\ SaleUnVivo'
  BY <1>2, TurnoQuieto, VivosQuietos DEF EnColas, RepartoInv, Reparto
<1>6. Mueve(p, "vuelta", "listo")
  BY <1>2, <1>3, <1>4, <1>5 DEF Mueve, Suma, Cajas, Nombres
<1>7. ColasAparte' /\ SinRepetidos'
  BY <1>2, <1>3, <1>4 DEF RepartoInv, Reparto, ColasAparte, SinRepetidos
<1> QED BY <1>3, <1>5, <1>6, <1>7 DEF p

\* The file system answers the first transfer.
LEMMA RepartoFileSystem ==
    ASSUME RepartoInv, FileSystem
    PROVE  /\ Head(aFs) \in Procesos /\ Mueve(Head(aFs), "ida", "vuelta")
           /\ ColasAparte' /\ SinRepetidos' /\ SaleUnVivo'
<1> DEFINE p == Head(aFs)
<1>1. /\ aFs \in Seq(Procesos) /\ SinRepetir(aFs)
      /\ deFs \in Seq(Procesos) /\ SinRepetir(deFs)
  BY DEF RepartoInv, ConversacionesInv, TypeOK, Reparto, SinRepetidos
<1>2. /\ aFs # <<>> /\ aFs' = Tail(aFs) /\ deFs' = Append(deFs, p)
      /\ UNCHANGED <<nuevos, listos, colaRecurso, enIO, atiende, consola, semMulti>>
      /\ UNCHANGED <<cpu, pc, aCpu, aKernel>>
  BY DEF FileSystem, recursos, laCpu, planif, semaforos
<1>3. /\ p \in Procesos /\ p \in Elementos(aFs) /\ SinRepetir(aFs')
      /\ Elementos(aFs') = Elementos(aFs) \ {p}
  BY <1>1, <1>2, SinRepetirTail
<1> HIDE DEF p
<1>4. p \notin Elementos(deFs)
  BY <1>3 DEF RepartoInv, Reparto, Aparte, Nombres, Cajas
<1>5. SinRepetir(deFs') /\ Elementos(deFs') = Elementos(deFs) \union {p}
  BY <1>1, <1>2, <1>3, <1>4, SinRepetirAppend, ElementosDeAppend
<1>6. UNCHANGED <<EnTurno, EnColas, Vivos>> /\ SaleUnVivo'
  BY <1>2, TurnoQuieto, VivosQuietos DEF EnColas, RepartoInv, Reparto
<1>7. Mueve(p, "ida", "vuelta")
  BY <1>2, <1>3, <1>5, <1>6 DEF Mueve, Suma, Cajas, Nombres
<1>8. ColasAparte' /\ SinRepetidos'
  BY <1>2, <1>3, <1>5 DEF RepartoInv, Reparto, ColasAparte, SinRepetidos
<1> QED BY <1>3, <1>6, <1>7, <1>8 DEF p

\* The thread of a resource takes the head of its queue, unless it is empty.
LEMMA RepartoSaca ==
    ASSUME RepartoInv, NEW r \in Recursos, RecursoSaca(r)
    PROVE  \/ colaRecurso[r] = <<>> /\ Quieto /\ Reparto'
           \/ /\ colaRecurso[r] # <<>> /\ Head(colaRecurso[r]) \in Procesos
              /\ Mueve(Head(colaRecurso[r]), "recurso", "listo")
              /\ ColasAparte' /\ SinRepetidos' /\ SaleUnVivo'
<1> DEFINE p == Head(colaRecurso[r])
<1>1. /\ colaRecurso \in [Recursos -> Seq(Procesos)] /\ SinRepetir(colaRecurso[r])
      /\ colaRecurso[r] \in Seq(Procesos)
  BY DEF RepartoInv, ConversacionesInv, TypeOK, Reparto, SinRepetidos
<1>2. UNCHANGED <<nuevos, aFs, deFs, enIO, atiende, consola, semMulti>>
      /\ UNCHANGED <<cpu, pc, aCpu, aKernel>>
  BY DEF RecursoSaca, canalFs, laCpu
<1>3. UNCHANGED <<EnTurno, Vivos>> /\ SaleUnVivo'
  BY <1>2, TurnoQuieto, VivosQuietos DEF RepartoInv, Reparto
<1>4. CASE colaRecurso[r] = <<>>
  <2>1. UNCHANGED <<colaRecurso, listos>>
    BY <1>4 DEF RecursoSaca
  <2> QED BY <1>2, <1>3, <1>4, <2>1, SinMovimiento
<1>5. CASE colaRecurso[r] # <<>>
  <2>1. colaRecurso' = [colaRecurso EXCEPT ![r] = Tail(@)] /\ AgregarAColaReady(p)
    BY <1>5 DEF RecursoSaca
  <2>2. /\ p \in Procesos /\ p \in Elementos(colaRecurso[r])
        /\ SinRepetir(Tail(colaRecurso[r]))
        /\ Elementos(Tail(colaRecurso[r])) = Elementos(colaRecurso[r]) \ {p}
    BY <1>1, <1>5, SinRepetirTail
  <2> HIDE DEF p
  <2>3. /\ SinRepetir(colaRecurso'[r])
        /\ Elementos(colaRecurso'[r]) = Elementos(colaRecurso[r]) \ {p}
        /\ \A q \in Recursos \ {r} : colaRecurso'[q] = colaRecurso[q]
    BY <1>1, <2>1, <2>2
  <2>4. ColasAparte'
    BY <2>3 DEF RepartoInv, Reparto, ColasAparte
  <2>5. EnColas' = EnColas \ {p} /\ p \in EnColas
    <3>1. \A q \in Recursos \ {r} : p \notin Elementos(colaRecurso[q])
      BY <2>2 DEF RepartoInv, Reparto, ColasAparte
    <3>2. \A q \in Recursos : Elementos(colaRecurso'[q]) = Elementos(colaRecurso[q]) \ {p}
      BY <2>3, <3>1
    <3> QED BY <2>2, <3>2 DEF EnColas
  <2>6. SinRepetir(listos') /\ Suma(Elementos(listos), Elementos(listos'), p)
    BY <2>1, <2>2, <2>5, AlReady DEF Cajas, Nombres
  <2>7. Mueve(p, "recurso", "listo")
    BY <1>2, <1>3, <2>5, <2>6 DEF Mueve, Suma, Cajas, Nombres
  <2>8. SinRepetidos'
    BY <1>2, <2>3, <2>6 DEF RepartoInv, Reparto, SinRepetidos
  <2> QED BY <1>3, <1>5, <2>2, <2>4, <2>7, <2>8 DEF p
<1> QED BY <1>4, <1>5

\* The threads that only count or sleep, and the memory.
LEMMA RepartoHilos ==
    ASSUME RepartoInv,
           \/ NewDespierta \/ NewDuerme \/ ExecDespierta \/ ExecDuerme \/ TomarCpu
           \/ Memoria
           \/ \E r \in Recursos : RecursoDespierta(r)
           \/ UNCHANGED vars
    PROVE  Quieto /\ Reparto'
<1> USE DEF recursos, laCpu, planif, semaforos, canalFs
<1> DEFINE Igual == /\ UNCHANGED <<nuevos, listos, colaRecurso, aFs, deFs, enIO, consola>>
                    /\ UNCHANGED <<atiende, semMulti, cpu, pc, aCpu, aKernel>>
<1>1. ASSUME NewDespierta \/ NewDuerme \/ ExecDespierta \/ ExecDuerme \/ TomarCpu
      PROVE  Igual
  BY <1>1 DEF NewDespierta, NewDuerme, ExecDespierta, ExecDuerme, TomarCpu
<1>2. ASSUME Memoria PROVE Igual
  BY <1>2 DEF Memoria
<1>3. ASSUME NEW r \in Recursos, RecursoDespierta(r) PROVE Igual
  BY <1>3 DEF RecursoDespierta
<1>4. ASSUME UNCHANGED vars PROVE Igual
  BY <1>4 DEF vars
<1>5. Igual
  BY <1>1, <1>2, <1>3, <1>4
<1>6. UNCHANGED <<EnTurno, Vivos>> /\ SaleUnVivo'
  BY <1>5, TurnoQuieto, VivosQuietos DEF RepartoInv, Reparto
<1> QED BY <1>5, <1>6, SinMovimiento

-----------------------------------------------------------------------------
(* The turn.                                                                   *)

USE DEF Analizando, Vacios, FaseLibre, FaseDespacho, FaseEntrega, FaseCorre,
        FasePedido, FaseAnaliza, FaseSigue, FasePara

\* What the CPU does leaves the turn with the same process.
LEMMA TurnoCpu ==
    ASSUME ConversacionesInv, TurnoSegun, TurnoSegun', Cpu
    PROVE  UNCHANGED EnTurno
<1>0. /\ aCpu \in Seq(AlCpu) /\ aKernel \in Seq(AlKernel) /\ TypeOK /\ Dialogo
      /\ Len(aCpu) \in Nat /\ (Len(aCpu) = 0 <=> aCpu = <<>>)
      /\ Len(aKernel) \in Nat /\ (Len(aKernel) = 0 <=> aKernel = <<>>)
      /\ aCpu # <<>> => Head(aCpu) = aCpu[1]
  BY Canales, Sacar DEF ConversacionesInv
<1>1. CASE CpuRecibe
  <2>1. /\ cpu.estado = "ociosa" /\ aCpu # <<>>
        /\ Head(aCpu).op = "EJECUTAR" => cpu' = [estado |-> "ejecutando", pid |-> Head(aCpu).pid]
    BY <1>1 DEF CpuRecibe
  <2>2. aCpu[1].op = "EJECUTAR"
    BY <1>0, <2>1 DEF Dialogo
  <2>3. cpu'.estado = "ejecutando" /\ cpu'.pid = aCpu[1].pid
    BY <1>0, <2>1, <2>2
  <2>4. EnTurno = {aCpu[1].pid}
    BY <2>1 DEF TurnoSegun
  <2>5. EnTurno' = {cpu'.pid}
    BY <2>3 DEF TurnoSegun
  <2> QED BY <2>3, <2>4, <2>5
<1>2. ASSUME NEW p \in Procesos, CpuLocal(p) PROVE UNCHANGED EnTurno
  BY <1>2 DEF CpuLocal, Corriendo, TurnoSegun
<1>3. ASSUME NEW p \in Procesos, CpuConsulta(p) PROVE UNCHANGED EnTurno
  <2>1. /\ cpu = [estado |-> "ejecutando", pid |-> p] /\ UNCHANGED aCpu
        /\ cpu' = [cpu EXCEPT !.estado = "esperando"]
    BY <1>3 DEF CpuConsulta, Corriendo
  <2>2. aCpu = <<>>
    BY <1>0, <2>1 DEF Dialogo
  <2> QED BY <2>1, <2>2 DEF TurnoSegun
<1>4. ASSUME NEW p \in Procesos, CpuEntrega(p) PROVE UNCHANGED EnTurno
  <2> DEFINE m == Mensaje(OperacionDe[Siguiente(p).nombre], p)
  <2>1. /\ cpu = [estado |-> "ejecutando", pid |-> p] /\ UNCHANGED aCpu
        /\ cpu' = CpuOciosa /\ aKernel' = Append(aKernel, m)
        /\ m \in AlKernel /\ m.pid = p
    BY <1>4 DEF CpuEntrega, Corriendo, AlKernel, Mensaje
  <2> HIDE DEF m
  <2>2. aCpu = <<>> /\ aKernel = <<>> /\ Len(aKernel) = 0
    BY <1>0, <2>1 DEF Dialogo
  <2>3. aKernel'[1] = m /\ Len(aKernel') = 1 /\ aKernel' \in Seq(AlKernel)
    BY <1>0, <2>1, <2>2, AppendProperties
  <2>4. aKernel' # <<>>
    BY <2>3, Sacar
  <2> QED BY <2>1, <2>2, <2>3, <2>4 DEF TurnoSegun, CpuOciosa
<1>5. ASSUME NEW p \in Procesos, CpuRespuesta(p) PROVE UNCHANGED EnTurno
  <2>1. /\ cpu = [estado |-> "esperando", pid |-> p] /\ aCpu # <<>>
        /\ aCpu' = Tail(aCpu) /\ UNCHANGED aKernel
        /\ Head(aCpu).op = Sigue[Pedida] => cpu' = [cpu EXCEPT !.estado = "ejecutando"]
        /\ Head(aCpu).op = Para[Pedida] /\ Para[Pedida] # Sigue[Pedida] => cpu' = CpuOciosa
    BY <1>5 DEF CpuRespuesta, Pedida
  <2>2. /\ Para[Pedida] # Sigue[Pedida]
        /\ FaseSigue \/ FasePara
    BY <1>0, <2>1 DEF Para, Sigue, ConRespuesta, Dialogo
  <2>3. /\ aCpu' \in Seq(AlCpu) /\ Len(aCpu') = Len(aCpu) - 1
        /\ \A i \in 1 .. Len(aCpu) - 1 : aCpu'[i] = aCpu[i + 1]
    BY <1>0, <2>1, Sacar
  <2>4. CASE FaseSigue
    BY <1>0, <2>1, <2>4 DEF TurnoSegun
  <2>5. CASE FasePara /\ Len(aCpu) = 1
    <3>1. aCpu' = <<>> /\ aKernel' = <<>>
      BY <2>1, <2>3, <2>5, Sacar
    <3>2. cpu'.estado = "ociosa"
      BY <1>0, <2>1, <2>2, <2>5 DEF CpuOciosa
    <3>3. EnTurno' = {}
      BY <3>1, <3>2 DEF TurnoSegun
    <3>4. EnTurno = {}
      BY <2>5 DEF TurnoSegun
    <3> QED BY <3>3, <3>4
  <2>6. CASE FasePara /\ Len(aCpu) = 2
    <3>1. aCpu' # <<>> /\ aCpu'[1] = aCpu[2]
      <4>1. Len(aCpu') = 1 /\ aCpu' \in Seq(AlCpu)
        BY <2>3, <2>6
      <4>2. aCpu' # <<>>
        BY ONLY <4>1, EmptySeq
      <4>3. aCpu'[1] = aCpu[2]
        BY <2>3, <2>6
      <4> QED BY <4>2, <4>3
    <3>2. cpu'.estado = "ociosa"
      BY <1>0, <2>1, <2>2, <2>6 DEF CpuOciosa
    <3>3. EnTurno' = {aCpu'[1].pid}
      BY <3>1, <3>2 DEF TurnoSegun
    <3>4. EnTurno = {aCpu[2].pid}
      BY <2>6 DEF TurnoSegun
    <3> QED BY <3>1, <3>3, <3>4
  <2> QED BY <2>2, <2>4, <2>5, <2>6
<1> QED BY <1>1, <1>2, <1>3, <1>4, <1>5 DEF Cpu

\* The steps of the CPU move nobody.
LEMMA RepartoCpu ==
    ASSUME RepartoInv, TurnoSegun, TurnoSegun', Cpu PROVE Quieto /\ Reparto'
<1>1. /\ UNCHANGED <<nuevos, listos, colaRecurso, aFs, deFs, enIO, consola>>
      /\ UNCHANGED <<atiende, semMulti>>
  BY DEF Cpu, CpuRecibe, CpuLocal, CpuConsulta, CpuEntrega, CpuRespuesta, restoCpu,
         recursos, planif, semaforos, canalFs
<1>2. UNCHANGED EnTurno
  BY TurnoCpu DEF RepartoInv
<1>3. UNCHANGED Vivos /\ SaleUnVivo'
  BY <1>1, VivosQuietos DEF RepartoInv, Reparto
<1> QED BY <1>1, <1>2, <1>3, SinMovimiento

\* The dispatcher gives the turn to the process it takes from READY.
LEMMA RepartoDespachar ==
    ASSUME RepartoInv, TurnoSegun, TurnoSegun', Despachar
    PROVE  /\ EnTurno = {}
           /\ \E p \in Procesos : Mueve(p, "listo", "turno")
           /\ ColasAparte' /\ SinRepetidos' /\ SaleUnVivo'
<1>0. /\ TypeOK /\ Dialogo /\ listos \in Seq(Procesos) /\ SinRepetir(listos)
      /\ aCpu \in Seq(AlCpu) /\ Len(aCpu) \in Nat /\ (Len(aCpu) = 0 <=> aCpu = <<>>)
  BY Canales DEF RepartoInv, ConversacionesInv, TypeOK, Reparto, SinRepetidos
<1>1. PICK i \in DOMAIN listos :
        listos' = Quitar(listos, i) /\ aCpu' = Append(aCpu, Mensaje("EJECUTAR", listos[i]))
  BY DEF Despachar
<1> DEFINE p == listos[i]
<1>2. /\ p \in Procesos /\ p \in Elementos(listos) /\ SinRepetir(listos')
      /\ Elementos(listos') = Elementos(listos) \ {p}
  BY <1>0, <1>1, SinRepetirQuitar
<1>3. /\ UNCHANGED <<nuevos, colaRecurso, aFs, deFs, enIO, consola, atiende, semMulti>>
      /\ UNCHANGED <<cpu, pc, aKernel>> /\ Permiso = 1
  <2>1. hiloExec = "elige" /\ semHabilitar \in Nat
    BY <1>0 DEF Despachar, TypeOK
  <2> QED BY <1>0, <2>1 DEF Despachar, recursos, canalFs, laCpu, semaforos, Permiso, Dialogo
<1> HIDE DEF p
<1>4. Mensaje("EJECUTAR", p) \in AlCpu
  BY <1>2 DEF AlCpu, Mensaje
<1>5. /\ Len(aCpu') = Len(aCpu) + 1 /\ aCpu'[Len(aCpu) + 1].pid = p
      /\ aCpu' \in Seq(AlCpu)
  BY <1>0, <1>1, <1>4, AppendProperties DEF p, Mensaje
<1>6. aCpu' # <<>>
  BY <1>0, <1>5, Sacar
<1>7. ASSUME FaseLibre PROVE EnTurno = {} /\ EnTurno' = {p}
  <2>1. EnTurno = {}
    BY <1>7 DEF TurnoSegun
  <2>2. EnTurno' = {aCpu'[1].pid}
    BY <1>3, <1>6, <1>7 DEF TurnoSegun
  <2> QED BY <1>0, <1>5, <1>7, <2>1, <2>2
<1>8. ASSUME FasePara PROVE EnTurno = {} /\ EnTurno' = {p}
  <2>1. Len(aCpu) = 1
    BY <1>3, <1>8
  <2>2. EnTurno = {}
    BY <1>8, <2>1 DEF TurnoSegun
  <2>3. Len(aCpu') = 2 /\ cpu'.estado = "esperando"
    BY <1>3, <1>5, <1>8, <2>1
  <2>4. EnTurno' = {aCpu'[2].pid}
    BY <2>3 DEF TurnoSegun
  <2> QED BY <1>5, <2>1, <2>2, <2>4
<1>9. EnTurno = {} /\ EnTurno' = {p}
  BY <1>0, <1>3, <1>7, <1>8 DEF Dialogo
<1>10. UNCHANGED <<EnColas, Vivos>> /\ SaleUnVivo'
  BY <1>3, VivosQuietos DEF EnColas, RepartoInv, Reparto
<1>11. Mueve(p, "listo", "turno")
  BY <1>2, <1>3, <1>9, <1>10 DEF Mueve, Suma, Cajas, Nombres
<1>12. ColasAparte' /\ SinRepetidos'
  BY <1>2, <1>3 DEF RepartoInv, Reparto, ColasAparte, SinRepetidos
<1> QED BY <1>2, <1>9, <1>10, <1>11, <1>12

\* A request comes from the process that has the turn.
LEMMA TurnoLlega ==
    ASSUME ConversacionesInv, TurnoSegun, NEW op, NEW p \in Procesos, Llega(op, p)
    PROVE  /\ FaseEntrega \/ FasePedido
           /\ EnTurno = {p} /\ aCpu = <<>> /\ aKernel' = <<>>
           /\ FaseEntrega => op \in {OperacionDe[n] : n \in SinRespuesta}
           /\ FasePedido => op = OperacionDe[Pedida] /\ p = cpu.pid
<1>1. /\ FaseEntrega \/ FasePedido
      /\ aKernel' = <<>>
      /\ FaseEntrega => op \in {OperacionDe[n] : n \in SinRespuesta}
      /\ FasePedido => op = OperacionDe[Pedida] /\ p = cpu.pid
  BY DialogoLlega DEF DialogoInv, ConversacionesInv
<1>2. aKernel # <<>> /\ aKernel[1].pid = p
  BY Canales, Sacar DEF Llega, Mensaje, ConversacionesInv
<1>3. EnTurno = {p}
  BY <1>1, <1>2 DEF TurnoSegun
<1> QED BY <1>1, <1>3

\* The answer to the CPU decides whether the turn stays or is given up.
LEMMA TurnoResponde ==
    ASSUME TypeOK, TurnoSegun', cpu.estado = "esperando", aCpu = <<>>,
           NEW p \in Procesos, NEW op, Responder(op, p),
           op \in {"EJECUTAR", "CONTINUAR", "DETENER", "FINALIZAR", "RESULT_0",
                   "RESULT_1"},
           UNCHANGED <<cpu, pc>>
    PROVE  /\ op = Sigue[Pedida] => EnTurno' = {cpu.pid}
           /\ op = Para[Pedida] => EnTurno' = {}
<1>1. Len(aCpu') = 1 /\ aCpu'[1].op = op
  BY UnaRespuesta
<1>2. Pedida' = Pedida /\ cpu'.estado = "esperando"
  BY DEF Pedida, Actual
<1> QED BY <1>1, <1>2 DEF TurnoSegun

\* DESALOJADO: back to READY.
LEMMA RepartoDesalojado ==
    ASSUME RepartoInv, TurnoSegun, TurnoSegun', NEW p \in Procesos, Desalojado(p)
    PROVE  Mueve(p, "turno", "listo") /\ ColasAparte' /\ SinRepetidos' /\ SaleUnVivo'
<1>1. /\ Llega("DESALOJADO", p) /\ AgregarAColaReady(p)
      /\ UNCHANGED <<nuevos, colaRecurso, aFs, deFs, enIO, consola, atiende, semMulti>>
      /\ UNCHANGED <<cpu, pc, aCpu>>
  BY DEF Desalojado, recursos, canalFs, laCpu
<1>2. FaseEntrega /\ EnTurno = {p} /\ aCpu = <<>> /\ aKernel' = <<>>
  BY <1>1, TurnoLlega DEF RepartoInv, OperacionDe, ConRespuesta, ConversacionesInv, Dialogo
<1>3. EnTurno' = {}
  BY <1>1, <1>2 DEF TurnoSegun
<1>4. SinRepetir(listos') /\ Suma(Elementos(listos), Elementos(listos'), p)
  BY <1>1, <1>2, AlReady DEF Cajas, Nombres
<1>5. UNCHANGED <<EnColas, Vivos>> /\ SaleUnVivo'
  BY <1>1, VivosQuietos DEF EnColas, RepartoInv, Reparto
<1>6. Mueve(p, "turno", "listo")
  BY <1>1, <1>2, <1>3, <1>4, <1>5 DEF Mueve, Suma, Cajas, Nombres
<1>7. ColasAparte' /\ SinRepetidos'
  BY <1>1, <1>4 DEF RepartoInv, Reparto, ColasAparte, SinRepetidos
<1> QED BY <1>5, <1>6, <1>7

\* EJECUTAR_IO: the process goes to sleep in a thread of its own.
LEMMA RepartoEjecutarIO ==
    ASSUME RepartoInv, TurnoSegun, TurnoSegun', NEW p \in Procesos, EjecutarIO(p)
    PROVE  Mueve(p, "turno", "io") /\ ColasAparte' /\ SinRepetidos' /\ SaleUnVivo'
<1>1. /\ Llega("EJECUTAR_IO", p) /\ enIO' = enIO \union {p}
      /\ UNCHANGED <<nuevos, listos, colaRecurso, aFs, deFs, consola, atiende, semMulti>>
      /\ UNCHANGED <<cpu, pc, aCpu>>
  BY DEF EjecutarIO, recursos, canalFs, laCpu, planif
<1>2. FaseEntrega /\ EnTurno = {p} /\ aCpu = <<>> /\ aKernel' = <<>>
  BY <1>1, TurnoLlega DEF RepartoInv, OperacionDe, ConRespuesta, ConversacionesInv, Dialogo
<1>3. EnTurno' = {}
  BY <1>1, <1>2 DEF TurnoSegun
<1>4. UNCHANGED <<EnColas, Vivos>> /\ SaleUnVivo'
  BY <1>1, VivosQuietos DEF EnColas, RepartoInv, Reparto
<1>5. Mueve(p, "turno", "io")
  BY <1>1, <1>2, <1>3, <1>4 DEF Mueve, Suma, Cajas, Nombres
<1>6. ColasAparte' /\ SinRepetidos'
  BY <1>1 DEF RepartoInv, Reparto, ColasAparte, SinRepetidos
<1> QED BY <1>4, <1>5, <1>6

\* FINALIZAR, SEG_FAULT: the process is nowhere from then on.
LEMMA RepartoFinalizar ==
    ASSUME RepartoInv, TurnoSegun, TurnoSegun', NEW p \in Procesos, Finalizar(p)
    PROVE  Sale(p) /\ ColasAparte' /\ SinRepetidos' /\ SaleUnVivo'
<1>1. /\ \E op \in {"FINALIZAR", "SEG_FAULT"} : Llega(op, p)
      /\ atiende = AtiendeLibre /\ atiende' = [fase |-> "notificar", pid |-> p]
      /\ UNCHANGED <<nuevos, listos, colaRecurso, aFs, deFs, enIO, consola>>
      /\ UNCHANGED <<cpu, pc, aCpu>> /\ semMulti' = semMulti + 1
  BY DEF Finalizar, Llega, recursos, canalFs, laCpu, planif, PostMulti
<1>2. FaseEntrega /\ EnTurno = {p} /\ aCpu = <<>> /\ aKernel' = <<>>
  BY <1>1, TurnoLlega DEF RepartoInv, OperacionDe, ConRespuesta, ConversacionesInv, Dialogo
<1>3. EnTurno' = {}
  BY <1>1, <1>2 DEF TurnoSegun
<1>4. p \in Vivos
  BY <1>2 DEF RepartoInv, Reparto, Todos, Cajas, Nombres
<1>5. Vivos' = Vivos \ {p} /\ SaleUnVivo' /\ UNCHANGED EnColas
  BY <1>1, <1>4 DEF Vivos, Saliendo, SaleUnVivo, AtiendeLibre, EnColas
<1>6. Sale(p)
  BY <1>1, <1>2, <1>3, <1>5 DEF Sale, Cajas, Nombres
<1>7. ColasAparte' /\ SinRepetidos'
  BY <1>1 DEF RepartoInv, Reparto, ColasAparte, SinRepetidos
<1> QED BY <1>5, <1>6, <1>7

\* Whoever asks for a resource is on the CPU, and the resource exists.
LEMMA PidePorRecurso ==
    ASSUME ConversacionesInv, RecursosConocidos, NEW p \in Procesos,
           EjecutarWait(p) \/ EjecutarSignal(p)
    PROVE  /\ FasePedido /\ p = cpu.pid /\ pc[p] \in 1 .. Len(Programa[p])
           /\ Actual(p).param \in Recursos
           /\ EjecutarWait(p) => Actual(p).nombre = "WAIT"
           /\ EjecutarSignal(p) => Actual(p).nombre = "SIGNAL"
<1>1. /\ EjecutarWait(p) => Llega("EJECUTAR_WAIT", p)
      /\ EjecutarSignal(p) => Llega("EJECUTAR_SIGNAL", p)
  BY DEF EjecutarWait, EjecutarSignal
<1>2. ASSUME NEW op \in {"EJECUTAR_WAIT", "EJECUTAR_SIGNAL"}, Llega(op, p)
      PROVE  /\ FasePedido /\ op = OperacionDe[Pedida] /\ p = cpu.pid
             /\ pc[p] \in 1 .. Len(Programa[p])
             /\ Actual(p).nombre = IF op = "EJECUTAR_WAIT" THEN "WAIT" ELSE "SIGNAL"
  <2>1. op \notin {OperacionDe[n] : n \in SinRespuesta}
    BY DEF OperacionDe, SinRespuesta
  <2>2. FasePedido /\ op = OperacionDe[Pedida] /\ p = cpu.pid
    BY <1>2, <2>1, DialogoLlega DEF DialogoInv, ConversacionesInv
  <2> QED BY <2>2 DEF OperacionDe, ConRespuesta, Pedida, ConversacionesInv, Dialogo
<1>3. /\ FasePedido /\ p = cpu.pid /\ pc[p] \in 1 .. Len(Programa[p])
      /\ Actual(p).nombre \in {"WAIT", "SIGNAL"}
  BY <1>1, <1>2
<1>4. Actual(p).param \in Recursos
  BY <1>3, ProgramaAssumption DEF RecursosConocidos, Actual, ConParametro
<1> QED BY <1>1, <1>2, <1>3, <1>4

\* ejecutar_wait: the process goes on, or it goes to the queue of the resource.
LEMMA RepartoWait ==
    ASSUME RepartoInv, RecursosConocidos, TurnoSegun, TurnoSegun', NEW p \in Procesos,
           EjecutarWait(p)
    PROVE  /\ ~SinUnidad(Actual(p).param) => Quieto /\ Reparto'
           /\ SinUnidad(Actual(p).param) =>
                 /\ Mueve(p, "turno", "recurso")
                 /\ ColasAparte' /\ SinRepetidos' /\ SaleUnVivo'
<1> DEFINE r == Actual(p).param
<1>1. /\ FasePedido /\ p = cpu.pid /\ Pedida = "WAIT" /\ r \in Recursos
      /\ TypeOK /\ EnTurno = {p}
  BY PidePorRecurso, TurnoLlega DEF RepartoInv, ConversacionesInv, Pedida, EjecutarWait
<1>2. /\ UNCHANGED <<nuevos, listos, aFs, deFs, enIO, atiende, semMulti, consola>>
      /\ UNCHANGED <<cpu, pc>>
      /\ ~SinUnidad(r) => Responder("CONTINUAR", p) /\ UNCHANGED colaRecurso
      /\ SinUnidad(r) => /\ Responder("DETENER", p)
                         /\ colaRecurso' = [colaRecurso EXCEPT ![r] = Append(@, p)]
  BY <1>1 DEF EjecutarWait, restoRecurso, planif, laCpu, canalFs
<1>3. UNCHANGED Vivos /\ SaleUnVivo'
  BY <1>2, VivosQuietos DEF RepartoInv, Reparto
<1> HIDE DEF r
<1>4. ASSUME ~SinUnidad(r) PROVE Quieto /\ Reparto'
  <2>1. EnTurno' = {p}
    BY <1>1, <1>2, <1>4, TurnoResponde DEF Sigue
  <2> QED BY <1>1, <1>2, <1>3, <1>4, <2>1, SinMovimiento
<1>5. ASSUME SinUnidad(r)
      PROVE  /\ Mueve(p, "turno", "recurso")
             /\ ColasAparte' /\ SinRepetidos' /\ SaleUnVivo'
  <2>1. EnTurno' = {}
    BY <1>1, <1>2, <1>5, TurnoResponde DEF Para
  <2>2. p \notin EnColas
    BY <1>1 DEF RepartoInv, Reparto, Aparte, Cajas, Nombres
  <2>3. /\ \A q \in Recursos : p \notin Elementos(colaRecurso[q])
        /\ colaRecurso[r] \in Seq(Procesos) /\ SinRepetir(colaRecurso[r])
    BY <1>1, <2>2 DEF EnColas, RepartoInv, Reparto, SinRepetidos, TypeOK
  <2>4. /\ SinRepetir(colaRecurso'[r])
        /\ Elementos(colaRecurso'[r]) = Elementos(colaRecurso[r]) \union {p}
        /\ \A q \in Recursos \ {r} : colaRecurso'[q] = colaRecurso[q]
    <3>1. /\ colaRecurso'[r] = Append(colaRecurso[r], p)
          /\ \A q \in Recursos \ {r} : colaRecurso'[q] = colaRecurso[q]
      BY <1>1, <1>2, <1>5 DEF TypeOK
    <3> QED BY <1>1, <2>3, <3>1, SinRepetirAppend, ElementosDeAppend
  <2>5. EnColas' = EnColas \union {p}
    <3>1. \A q \in Recursos : q # r => Elementos(colaRecurso'[q]) = Elementos(colaRecurso[q])
      BY <2>4
    <3> QED BY <1>1, <2>4, <3>1 DEF EnColas
  <2>6. ColasAparte'
    BY <2>3, <2>4 DEF RepartoInv, Reparto, ColasAparte
  <2>7. SinRepetidos'
    BY <1>2, <2>4 DEF RepartoInv, Reparto, SinRepetidos
  <2>8. Mueve(p, "turno", "recurso")
    BY <1>1, <1>2, <1>3, <2>1, <2>5 DEF Mueve, Suma, Cajas, Nombres
  <2> QED BY <1>3, <2>6, <2>7, <2>8
<1> QED BY <1>4, <1>5 DEF r

\* LEER_ARCHIVO and the like: the process goes with its request to the file
\* system.
LEMMA RepartoTransferir ==
    ASSUME RepartoInv, TurnoSegun, TurnoSegun', NEW p \in Procesos, Transferir(p)
    PROVE  Mueve(p, "turno", "ida") /\ ColasAparte' /\ SinRepetidos' /\ SaleUnVivo'
<1>1. /\ Llega("LEER_ARCHIVO", p) /\ Responder("DETENER", p) /\ aFs' = Append(aFs, p)
      /\ UNCHANGED <<nuevos, listos, colaRecurso, deFs, enIO, consola, atiende, semMulti>>
      /\ UNCHANGED <<cpu, pc>>
  BY DEF Transferir, recursos, laCpu, planif
<1>2. /\ FasePedido /\ EnTurno = {p} /\ aCpu = <<>> /\ "LEER_ARCHIVO" = OperacionDe[Pedida]
      /\ TypeOK
  BY <1>1, TurnoLlega DEF RepartoInv, OperacionDe, SinRespuesta, ConversacionesInv
<1>3. Pedida = "F_READ"
  BY <1>2 DEF OperacionDe, ConRespuesta, RepartoInv, ConversacionesInv, Dialogo
<1>4. EnTurno' = {}
  BY <1>1, <1>2, <1>3, TurnoResponde DEF Para
<1>5. p \notin Elementos(aFs) /\ SinRepetir(aFs) /\ aFs \in Seq(Procesos)
  BY <1>2 DEF RepartoInv, Reparto, Aparte, Cajas, Nombres, SinRepetidos, TypeOK
<1>6. SinRepetir(aFs') /\ Elementos(aFs') = Elementos(aFs) \union {p}
  BY <1>1, <1>5, SinRepetirAppend, ElementosDeAppend
<1>7. UNCHANGED <<EnColas, Vivos>> /\ SaleUnVivo'
  BY <1>1, VivosQuietos DEF EnColas, RepartoInv, Reparto
<1>8. Mueve(p, "turno", "ida")
  BY <1>1, <1>2, <1>4, <1>6, <1>7 DEF Mueve, Suma, Cajas, Nombres
<1>9. ColasAparte' /\ SinRepetidos'
  BY <1>1, <1>6 DEF RepartoInv, Reparto, ColasAparte, SinRepetidos
<1> QED BY <1>7, <1>8, <1>9

\* Without anything to move but the turn, which stays where it was.
LEMMA SinSoltar ==
    ASSUME RepartoInv, UNCHANGED <<consola, planif, colaRecurso, enIO, canalFs>>,
           UNCHANGED <<semMulti, EnTurno>>,
           \/ UNCHANGED atiende
           \/ atiende.fase # "notificar" /\ atiende'.fase # "notificar"
    PROVE  Quieto /\ Reparto'
<1>1. \A p \in Procesos : Saliendo(p)' = Saliendo(p)
  <2>1. \A p \in Procesos : /\ Saliendo(p) => atiende.fase = "notificar"
                            /\ Saliendo(p)' => atiende'.fase = "notificar"
    BY DEF Saliendo
  <2> QED BY <2>1 DEF Saliendo
<1>2. UNCHANGED Vivos /\ SaleUnVivo'
  BY <1>1 DEF Vivos, SaleUnVivo, RepartoInv, Reparto
<1> QED BY <1>2, SinMovimiento DEF planif, canalFs

\* ejecutar_signal moves nobody by itself.
LEMMA RepartoSignal ==
    ASSUME RepartoInv, RecursosConocidos, TurnoSegun, TurnoSegun', NEW p \in Procesos,
           EjecutarSignal(p)
    PROVE  Quieto /\ Reparto'
<1>1. /\ FasePedido /\ p = cpu.pid /\ Pedida = "SIGNAL" /\ Actual(p).param \in Recursos
      /\ TypeOK /\ EnTurno = {p}
  BY PidePorRecurso, TurnoLlega DEF RepartoInv, ConversacionesInv, Pedida, EjecutarSignal
<1>2. /\ UNCHANGED <<consola, planif, colaRecurso, enIO, canalFs, semMulti, atiende>>
      /\ UNCHANGED <<cpu, pc>> /\ Responder("RESULT_1", p)
  BY <1>1 DEF EjecutarSignal, restoRecurso, laCpu
<1>3. EnTurno' = {p}
  BY <1>1, <1>2, TurnoResponde DEF Sigue
<1> QED BY <1>1, <1>2, <1>3, SinSoltar

\* CREAR_SEGMENTO, ELIMINAR_SEGMENTO: the CPU keeps the process meanwhile.
LEMMA RepartoPedir ==
    ASSUME RepartoInv, TurnoSegun, TurnoSegun', NEW p \in Procesos, PedirSegmento(p)
    PROVE  Quieto /\ Reparto'
<1>1. PICK op \in {"CREAR_SEGMENTO", "ELIMINAR_SEGMENTO"} : Llega(op, p)
  BY DEF PedirSegmento
<1>2. FasePedido /\ EnTurno = {p} /\ p = cpu.pid
  BY <1>1, TurnoLlega DEF RepartoInv, OperacionDe, SinRespuesta
<1>3. /\ UNCHANGED <<consola, planif, colaRecurso, enIO, canalFs, semMulti>>
      /\ UNCHANGED <<cpu, pc, aCpu>>
      /\ atiende.fase = "recibir" /\ atiende'.fase = "analizar"
  BY <1>1 DEF PedirSegmento, Llega, AtiendeLibre, recursos, semaforos, laCpu
<1>4. EnTurno' = {p}
  BY <1>2, <1>3 DEF TurnoSegun
<1> QED BY <1>2, <1>3, <1>4, SinSoltar

\* The end is told to the memory and the console: the process had already gone.
LEMMA RepartoNotificar ==
    ASSUME RepartoInv, Notificar
    PROVE  Quieto /\ Reparto'
<1>1. /\ atiende.fase = "notificar" /\ atiende' = AtiendeLibre
      /\ consola' = [consola EXCEPT ![atiende.pid] = "finalizada"]
      /\ UNCHANGED <<nuevos, listos, colaRecurso, aFs, deFs, enIO, semMulti>>
      /\ UNCHANGED <<cpu, pc, aCpu, aKernel>>
  BY DEF Notificar, recursos, semaforos, laCpu, planif, canalFs
<1>2. /\ atiende.pid \in Procesos /\ atiende = [fase |-> "notificar", pid |-> atiende.pid]
      /\ consola \in [Procesos -> {"fuera", "activa", "terminada", "finalizada"}]
  BY <1>1 DEF RepartoInv, ConversacionesInv, TypeOK, AtiendeLibre
<1>3. UNCHANGED Vivos /\ SaleUnVivo'
  <2>1. \A p \in Procesos : (Saliendo(p) <=> p = atiende.pid) /\ ~Saliendo(p)'
    BY <1>1, <1>2 DEF Saliendo, AtiendeLibre
  <2>2. \A p \in Procesos : consola'[p] = IF p = atiende.pid THEN "finalizada" ELSE consola[p]
    BY <1>1, <1>2
  <2> QED BY <1>1, <2>1, <2>2 DEF Vivos, SaleUnVivo, AtiendeLibre
<1> QED BY <1>1, <1>3, TurnoQuieto, SinMovimiento

\* The answers of the memory: the process goes on, or ends for lack of memory.
LEMMA RepartoResultado ==
    ASSUME RepartoInv, TurnoSegun, TurnoSegun',
           \/ CreacionExitosa \/ RealizarCompactacion \/ Compactar \/ SinMemoria
    PROVE  /\ ~SinMemoria => Quieto /\ Reparto'
           /\ SinMemoria => /\ atiende.pid \in Procesos /\ Sale(atiende.pid)
                            /\ ColasAparte' /\ SinRepetidos' /\ SaleUnVivo'
<1>0. TypeOK /\ Dialogo /\ ConversacionMemoria
  BY DEF RepartoInv, ConversacionesInv
<1>1. /\ Analizando /\ UNCHANGED <<cpu, pc, planif, colaRecurso, enIO, canalFs>>
  BY DEF CreacionExitosa, RealizarCompactacion, Compactar, SinMemoria, Resultado, laCpu,
         recursos
<1>2. /\ FaseAnaliza /\ atiende.pid \in Procesos /\ EnTurno = {atiende.pid}
      /\ atiende = [fase |-> "analizar", pid |-> atiende.pid]
  BY <1>0, <1>1 DEF Dialogo, TypeOK, AtiendeLibre, TurnoSegun
<1>3. ASSUME RealizarCompactacion \/ Compactar PROVE Quieto /\ Reparto'
  <2>1. UNCHANGED <<aCpu, aKernel, atiende, semMulti, consola>>
    BY <1>3 DEF RealizarCompactacion, Compactar, Resultado
  <2> QED BY <1>1, <2>1, TurnoQuieto, SinSoltar
<1>4. ASSUME CreacionExitosa PROVE Quieto /\ Reparto'
  <2>1. /\ Responder("EJECUTAR", atiende.pid) /\ atiende' = AtiendeLibre
        /\ UNCHANGED <<consola, semMulti>>
    BY <1>4 DEF CreacionExitosa
  <2>2. EnTurno' = {cpu.pid}
    BY <1>0, <1>1, <1>2, <2>1, TurnoResponde DEF Sigue
  <2> QED BY <1>1, <1>2, <2>1, <2>2, SinSoltar DEF AtiendeLibre
<1>5. ASSUME SinMemoria
      PROVE  /\ Sale(atiende.pid) /\ ColasAparte' /\ SinRepetidos' /\ SaleUnVivo'
  <2> DEFINE p == atiende.pid
  <2>1. /\ Responder("FINALIZAR", p) /\ atiende' = AtiendeLibre
        /\ consola' = [consola EXCEPT ![p] = "finalizada"]
        /\ semMulti' = semMulti + 1 /\ Resultado("SIN_MEMORIA")
    BY <1>5 DEF SinMemoria, PostMulti
  <2>2. Pedida = "CREATE_SEGMENT"
    <3>1. Len(deMemoria) = 1 /\ deMemoria[1] = "SIN_MEMORIA" /\ deMemoria # <<>>
      BY <1>0, <1>1, <2>1, CanalesMemoria, Sacar DEF ConversacionMemoria, Resultado
    <3>2. Actual(p).nombre # "DELETE_SEGMENT"
      BY <1>0, <1>1, <3>1 DEF ConversacionMemoria
    <3> QED BY <1>2, <3>2 DEF Pedida
  <2>3. EnTurno' = {}
    BY <1>0, <1>1, <1>2, <2>1, <2>2, TurnoResponde DEF Para
  <2>4. p \in Vivos
    BY <1>2 DEF RepartoInv, Reparto, Todos, Cajas, Nombres
  <2>5. \A q \in Procesos : ~Saliendo(q) /\ ~Saliendo(q)'
    BY <1>2, <2>1 DEF Saliendo, AtiendeLibre
  <2>6. Vivos' = Vivos \ {p} /\ SaleUnVivo' /\ UNCHANGED EnColas
    BY <1>0, <1>1, <1>2, <2>1, <2>4, <2>5
       DEF Vivos, SaleUnVivo, AtiendeLibre, EnColas, TypeOK
  <2>7. Sale(p)
    BY <1>1, <1>2, <2>1, <2>3, <2>6 DEF Sale, Cajas, Nombres, planif, canalFs
  <2>8. ColasAparte' /\ SinRepetidos'
    BY <1>1 DEF RepartoInv, Reparto, ColasAparte, SinRepetidos, planif, canalFs
  <2> QED BY <2>6, <2>7, <2>8
<1>6. ~(SinMemoria /\ (CreacionExitosa \/ RealizarCompactacion \/ Compactar))
  BY DEF SinMemoria, CreacionExitosa, RealizarCompactacion, Compactar, Resultado
<1> QED BY <1>2, <1>3, <1>4, <1>5, <1>6

-----------------------------------------------------------------------------
(* Every step is a movement.                                                   *)

LEMMA RepartoPaso ==
    RecursosConocidos /\ RepartoInv /\ TypeOK' /\ Dialogo' /\ [Next]_vars
        => Movimiento /\ Reparto'
<1> SUFFICES ASSUME RecursosConocidos, RepartoInv, TypeOK', Dialogo', [Next]_vars
             PROVE  Movimiento /\ Reparto'
  OBVIOUS
<1>0. TurnoSegun /\ TurnoSegun'
  <2>1. TypeOK /\ Dialogo
    BY DEF RepartoInv, ConversacionesInv
  <2>2. TypeOK' /\ Dialogo' => TurnoSegun'
    BY TurnoDe, PTL
  <2> QED BY <2>1, <2>2, TurnoDe
<1>1. ASSUME Quieto /\ Reparto' PROVE Movimiento /\ Reparto'
  BY <1>1 DEF Movimiento
<1>2. ASSUME \E p \in Procesos :
                Entra(p) \/ Sale(p) \/ \E a, b \in Nombres : Mueve(p, a, b),
             ColasAparte', SinRepetidos', SaleUnVivo'
      PROVE  Movimiento /\ Reparto'
  <2>1. Movimiento
    BY <1>2 DEF Movimiento
  <2>2. Aparte' /\ Todos'
    BY <2>1, MovimientoReparte DEF RepartoInv, Reparto
  <2> QED BY <1>2, <2>1, <2>2 DEF Reparto
<1>3. /\ {"nuevo", "listo", "recurso", "ida", "vuelta", "io", "turno"} \subseteq Nombres
  BY DEF Nombres
<1>4. ASSUME NEW p \in Procesos, Conectar(p) \/ TerminarIO(p)
      PROVE  Movimiento /\ Reparto'
  BY <1>2, <1>3, <1>4, RepartoConectar, RepartoTerminarIO
<1>5. CASE Admitir \/ Desbloqueado \/ FileSystem
  BY <1>2, <1>3, <1>5, RepartoAdmitir, RepartoDesbloqueado, RepartoFileSystem
<1>6. ASSUME NEW r \in Recursos, RecursoSaca(r) PROVE Movimiento /\ Reparto'
  BY <1>1, <1>2, <1>3, <1>6, RepartoSaca
<1>7. CASE \/ NewDespierta \/ NewDuerme \/ ExecDespierta \/ ExecDuerme \/ TomarCpu
           \/ Memoria
           \/ \E r \in Recursos : RecursoDespierta(r)
           \/ UNCHANGED vars
  BY <1>1, <1>7, RepartoHilos
<1>8. CASE Cpu
  BY <1>0, <1>1, <1>8, RepartoCpu
<1>9. CASE Despachar
  BY <1>0, <1>2, <1>3, <1>9, RepartoDespachar
<1>10. ASSUME NEW p \in Procesos,
              Desalojado(p) \/ EjecutarIO(p) \/ Finalizar(p) \/ Transferir(p)
       PROVE  Movimiento /\ Reparto'
  BY <1>0, <1>2, <1>3, <1>10, RepartoDesalojado, RepartoEjecutarIO, RepartoFinalizar,
     RepartoTransferir
<1>11. ASSUME NEW p \in Procesos, EjecutarWait(p) PROVE Movimiento /\ Reparto'
  BY <1>0, <1>1, <1>2, <1>3, <1>11, RepartoWait
<1>12. ASSUME NEW p \in Procesos, EjecutarSignal(p) \/ PedirSegmento(p)
       PROVE  Movimiento /\ Reparto'
  BY <1>0, <1>1, <1>12, RepartoSignal, RepartoPedir
<1>13. CASE Notificar
  BY <1>1, <1>13, RepartoNotificar
<1>14. CASE CreacionExitosa \/ RealizarCompactacion \/ Compactar \/ SinMemoria
  BY <1>0, <1>1, <1>2, <1>14, RepartoResultado
<1> QED BY <1>4, <1>5, <1>6, <1>7, <1>8, <1>9, <1>10, <1>11, <1>12, <1>13, <1>14
        DEF Next, DeConsolas, HiloNew, HiloExec, AtenderCpu, IniciarRecurso

\* Nobody is anywhere at the beginning.
LEMMA RepartoInicial == Init => Reparto
<1> SUFFICES ASSUME Init PROVE Reparto
  OBVIOUS
<1>1. /\ DOMAIN nuevos = {} /\ DOMAIN listos = {} /\ DOMAIN aFs = {} /\ DOMAIN deFs = {}
      /\ DOMAIN aCpu = {} /\ DOMAIN aKernel = {}
      /\ \A r \in Recursos : DOMAIN colaRecurso[r] = {}
  BY EmptySeq DEF Init
<1>2. EnTurno = {}
  BY <1>1, ProcesosAssumption DEF Init, EnTurno, CpuOciosa
<1>3. Vivos = {}
  BY DEF Init, Vivos
<1>4. EnColas = {}
  BY <1>1 DEF EnColas, Elementos
<1>5. \A a \in Nombres : Cajas[a] = {}
  BY <1>1, <1>2, <1>4 DEF Nombres, Cajas, Elementos, Init
<1>6. Aparte /\ Todos
  BY <1>3, <1>5 DEF Aparte, Todos
<1>7. ColasAparte /\ SinRepetidos /\ SaleUnVivo
  BY <1>1 DEF ColasAparte, SinRepetidos, SinRepetir, Elementos, SaleUnVivo, Init,
              AtiendeLibre
<1> QED BY <1>6, <1>7 DEF Reparto

-----------------------------------------------------------------------------
(* What the movements keep.                                                    *)

\* The last three places that Lugares looks at.
LugaresTurno(p) ==
    UNION {{<<"cpu", 1>> : q \in {cpu.pid} \intersect IF Parando THEN {} ELSE {p}},
           {<<"aCpu", i>> : i \in {j \in DOMAIN aCpu : EsDespacho(j) /\ aCpu[j].pid = p}},
           {<<"aKernel", i>> : i \in {j \in DOMAIN aKernel :
                                      EsEntrega(j) /\ aKernel[j].pid = p}}}

\* The process that has the turn is in one of them, once.
LEMMA UnTurno ==
    ASSUME TypeOK, Dialogo, NEW p \in Procesos
    PROVE  /\ p \notin EnTurno => LugaresTurno(p) = {}
           /\ p \in EnTurno => \E l : LugaresTurno(p) = {l}
<1> DEFINE C == {<<"cpu", 1>> : q \in {cpu.pid} \intersect IF Parando THEN {} ELSE {p}}
           X == {j \in DOMAIN aCpu : EsDespacho(j) /\ aCpu[j].pid = p}
           K == {j \in DOMAIN aKernel : EsEntrega(j) /\ aKernel[j].pid = p}
<1>1. LugaresTurno(p) = C \union {<<"aCpu", i>> : i \in X} \union {<<"aKernel", i>> : i \in K}
  BY DEF LugaresTurno
<1>2. /\ C = IF p = cpu.pid /\ ~Parando THEN {<<"cpu", 1>>} ELSE {}
      /\ p \in EnTurno <=> \/ p = cpu.pid /\ ~Parando
                           \/ X # {} \/ K # {}
  BY DEF EnTurno
<1>3. /\ DOMAIN aCpu = 1 .. Len(aCpu) /\ DOMAIN aKernel = 1 .. Len(aKernel)
      /\ Len(aCpu) \in Nat /\ (Len(aCpu) = 0 <=> aCpu = <<>>)
      /\ Len(aKernel) \in Nat /\ (Len(aKernel) = 0 <=> aKernel = <<>>)
      /\ aCpu # <<>> => Head(aCpu) = aCpu[1]
      /\ cpu.estado = "ociosa" => cpu.pid # p
  BY Canales, LenProperties, Sacar, ProcesosAssumption DEF TypeOK, CpuOciosa
<1>4. ASSUME p \in EnTurno PROVE \E l : LugaresTurno(p) = {l}
  <2> HIDE DEF C, X, K
  <2>1. ASSUME X = {}, K = {} PROVE \E l : LugaresTurno(p) = {l}
    <3>1. C = {<<"cpu", 1>>}
      BY <1>2, <1>4, <2>1
    <3>2. LugaresTurno(p) = {<<"cpu", 1>>}
      BY <1>1, <2>1, <3>1
    <3> QED BY <3>2
  <2>2. ASSUME C = {}, K = {}, NEW i, X \subseteq {i} PROVE \E l : LugaresTurno(p) = {l}
    <3>1. X = {i}
      BY <1>2, <1>4, <2>2
    <3>2. LugaresTurno(p) = {<<"aCpu", i>>}
      BY <1>1, <2>2, <3>1
    <3> QED BY <3>2
  <2>3. ASSUME C = {}, X = {}, NEW i, K \subseteq {i} PROVE \E l : LugaresTurno(p) = {l}
    <3>1. K = {i}
      BY <1>2, <1>4, <2>3
    <3>2. LugaresTurno(p) = {<<"aKernel", i>>}
      BY <1>1, <2>3, <3>1
    <3> QED BY <3>2
  <2>4. CASE cpu.estado = "ociosa" /\ aKernel = <<>>
    <3>1. C = {} /\ K = {} /\ X \subseteq {1}
      BY <1>2, <1>3, <2>4 DEF Dialogo, X, K
    <3> QED BY <2>2, <3>1
  <2>5. CASE cpu.estado = "ociosa" /\ aKernel # <<>>
    <3>1. C = {} /\ X = {} /\ K \subseteq {1}
      BY <1>2, <1>3, <2>5 DEF Dialogo, X, K
    <3> QED BY <2>3, <3>1
  <2>6. CASE FaseCorre \/ FaseAnaliza
    BY <1>3, <2>1, <2>6 DEF X, K
  <2>7. CASE FasePedido
    <3>1. ~EsEntrega(1)
      BY <2>7 DEF EsEntrega, Mensaje, OperacionDe, SinRespuesta, ConRespuesta, Dialogo
    <3> QED BY <1>3, <2>1, <2>7, <3>1 DEF X, K
  <2>8. CASE FaseSigue
    <3>1. X = {} /\ K = {}
      BY <1>3, <2>8 DEF EsDespacho, X, K
    <3> QED BY <2>1, <3>1
  <2>9. CASE FasePara
    <3>1. Parando /\ ~EsDespacho(1)
      BY <1>3, <2>9 DEF Parando, Pedida, EsDespacho
    <3>2. C = {} /\ K = {} /\ X \subseteq {2}
      BY <1>2, <1>3, <2>9, <3>1 DEF X, K
    <3> QED BY <2>2, <3>2
  <2> QED BY <2>4, <2>5, <2>6, <2>7, <2>8, <2>9 DEF Dialogo
<1> QED BY <1>1, <1>2, <1>4

\* Being shared out, a process is in one of the places that Lugares looks at,
\* once, if it lives, and in none otherwise.
LEMMA DeUnaCaja ==
    ASSUME RepartoInv, Algoritmo = "FIFO", NEW p \in Procesos
    PROVE  Cardinality(Lugares(p)) = IF p \in Vivos THEN 1 ELSE 0
<1> DEFINE S == [nuevo |-> Sitios(nuevos, p, "new"), listo |-> Sitios(listos, p, "ready"),
                 recurso |-> UNION {Sitios(colaRecurso[r], p, r) : r \in Recursos},
                 ida |-> Sitios(aFs, p, "aFs"), vuelta |-> Sitios(deFs, p, "deFs"),
                 io |-> {<<"io", 1>> : q \in enIO \intersect {p}},
                 turno |-> LugaresTurno(p)]
           Bien(a) == /\ p \notin Cajas[a] => S[a] = {}
                      /\ p \in Cajas[a] => \E l : S[a] = {l}
<1>1. Lugares(p) = UNION {S[a] : a \in Nombres}
  BY DEF Lugares, LugaresTurno, Nombres
<1>2. /\ nuevos \in Seq(Procesos) /\ listos \in Seq(Procesos)
      /\ aFs \in Seq(Procesos) /\ deFs \in Seq(Procesos)
      /\ \A r \in Recursos : colaRecurso[r] \in Seq(Procesos)
      /\ SinRepetidos
  BY DEF RepartoInv, ConversacionesInv, TypeOK, Reparto
<1>3. Bien("nuevo") /\ Bien("listo") /\ Bien("ida") /\ Bien("vuelta")
  BY <1>2, UnSitio DEF Cajas, SinRepetidos
<1>4. Bien("io")
  BY DEF Cajas
<1>5. Bien("turno")
  BY UnTurno DEF Cajas, RepartoInv, ConversacionesInv
<1>6. Bien("recurso")
  <2>1. \A r \in Recursos : /\ p \notin Elementos(colaRecurso[r])
                                 => Sitios(colaRecurso[r], p, r) = {}
                            /\ p \in Elementos(colaRecurso[r])
                                 => \E l : Sitios(colaRecurso[r], p, r) = {l}
    BY <1>2, UnSitio DEF SinRepetidos
  <2>2. CASE p \notin EnColas
    <3>1. \A r \in Recursos : Sitios(colaRecurso[r], p, r) = {}
      BY <2>1, <2>2 DEF EnColas
    <3> QED BY <2>2, <3>1 DEF Cajas
  <2>3. CASE p \in EnColas
    <3>1. PICK r \in Recursos : p \in Elementos(colaRecurso[r])
      BY <2>3 DEF EnColas
    <3>2. \A q \in Recursos \ {r} : p \notin Elementos(colaRecurso[q])
      BY <3>1 DEF RepartoInv, Reparto, ColasAparte
    <3>3. UNION {Sitios(colaRecurso[q], p, q) : q \in Recursos} = Sitios(colaRecurso[r], p, r)
      BY <2>1, <3>2
    <3> QED BY <2>1, <2>3, <3>1, <3>3 DEF Cajas
  <2> QED BY <2>2, <2>3
<1>7. \A a \in Nombres : Bien(a)
  BY <1>3, <1>4, <1>5, <1>6 DEF Nombres
<1> HIDE DEF S
<1>8. CASE p \notin Vivos
  <2>1. \A a \in Nombres : S[a] = {}
    BY <1>7, <1>8 DEF RepartoInv, Reparto, Todos
  <2>2. Lugares(p) = {}
    BY <1>1, <2>1
  <2> QED BY <1>8, <2>2, FS_EmptySet
<1>9. CASE p \in Vivos
  <2>1. PICK a \in Nombres : p \in Cajas[a]
    BY <1>9 DEF RepartoInv, Reparto, Todos
  <2>2. \A b \in Nombres \ {a} : S[b] = {}
    BY <1>7, <2>1 DEF RepartoInv, Reparto, Aparte
  <2>3. PICK l : S[a] = {l}
    BY <1>7, <2>1
  <2>4. Lugares(p) = {l}
    BY <1>1, <2>2, <2>3
  <2> QED BY <1>9, <2>4, FS_Singleton
<1> QED BY <1>8, <1>9

\* The inductive invariant of the places.
LEMMA RepartoSiempre == RecursosConocidos => (Spec => []RepartoInv)
<1> SUFFICES ASSUME RecursosConocidos PROVE Spec => []RepartoInv
  OBVIOUS
<1>1. ConversacionesInv /\ ConversacionesInv' /\ Reparto /\ [Next]_vars => Reparto'
  BY RepartoPaso DEF RepartoInv, ConversacionesInv
<1> QED BY <1>1, RepartoInicial, ConversacionesSiempre, PTL DEF Spec, RepartoInv

\* No process is ever lost or duplicated by the six threads that pass PCBs
\* around: between its admission and its end it is in exactly one queue, message
\* or thread, or on the CPU, and once it ended it is nowhere.  This is so under
\* FIFO; the sort of HRRN races with the pushes.
THEOREM UnSoloLugarCorrecto ==
    RecursosConocidos /\ Algoritmo = "FIFO" => (Spec => []UnSoloLugar)
<1> SUFFICES ASSUME RecursosConocidos, Algoritmo = "FIFO" PROVE Spec => []UnSoloLugar
  OBVIOUS
<1>1. RepartoInv => UnSoloLugar
  BY DeUnaCaja DEF UnSoloLugar, Vivos
<1> QED BY <1>1, RepartoSiempre, PTL

-----------------------------------------------------------------------------
(* sem_multiprogramacion.                                                      *)

\* The processes that hold a slot are the live ones that left NEW.
LEMMA AdmitidosSon == Admitidos = Vivos \ Cajas.nuevo
<1>1. ASSUME NEW p PROVE Sitios(nuevos, p, "new") = {} <=> p \notin Elementos(nuevos)
  BY DEF Sitios, Elementos
<1> QED BY <1>1 DEF Admitidos, Vivos, Cajas

GradoInv == IsFiniteSet(Admitidos) /\ GradoRespetado

\* A movement takes a slot when a process leaves NEW and gives it back when the
\* process ends.
LEMMA GradoPaso == RepartoInv /\ GradoInv /\ Movimiento => GradoInv'
<1> SUFFICES ASSUME RepartoInv, GradoInv, Movimiento PROVE GradoInv'
  OBVIOUS
<1> DEFINE A == Admitidos
           n == Cardinality(A)
<1>1. Admitidos = Vivos \ Cajas.nuevo /\ Admitidos' = Vivos' \ Cajas'.nuevo
  <2>1. (Admitidos = Vivos \ Cajas.nuevo)'
    BY AdmitidosSon, PTL
  <2> QED BY <2>1, AdmitidosSon
<1>2. IsFiniteSet(A) /\ n \in Nat /\ semMulti \in Nat /\ semMulti + n = Grado
  BY FS_CardinalityType
     DEF GradoInv, GradoRespetado, RepartoInv, ConversacionesInv, TypeOK
<1>3. "nuevo" \in Nombres /\ "turno" \in Nombres
  BY DEF Nombres
<1>4. /\ \A a \in Nombres : Cajas[a] \subseteq Vivos
      /\ \A a \in Nombres \ {"nuevo"} : Cajas[a] \intersect Cajas.nuevo = {}
  BY <1>3 DEF RepartoInv, Reparto, Todos, Aparte
<1>5. ASSUME Admitidos' = A, semMulti' = semMulti PROVE GradoInv'
  BY <1>2, <1>5 DEF GradoInv, GradoRespetado
<1>6. CASE Quieto
  BY <1>1, <1>5, <1>6 DEF Quieto
<1>7. ASSUME NEW p \in Procesos, Entra(p) PROVE GradoInv'
  BY <1>1, <1>5, <1>7 DEF Entra
<1>8. ASSUME NEW p \in Procesos, Sale(p) PROVE GradoInv'
  <2>1. p \in A /\ Admitidos' = A \ {p} /\ semMulti' = semMulti + 1
    BY <1>1, <1>3, <1>4, <1>8 DEF Sale
  <2>2. IsFiniteSet(A \ {p}) /\ Cardinality(A \ {p}) = n - 1
    BY <1>2, <2>1, FS_RemoveElement
  <2> HIDE DEF A, n
  <2> QED BY <1>2, <2>1, <2>2 DEF GradoInv, GradoRespetado
<1>9. ASSUME NEW p \in Procesos, NEW a \in Nombres, NEW b \in Nombres, Mueve(p, a, b)
      PROVE  GradoInv'
  <2>1. /\ p \in Cajas[a] /\ Vivos' = Vivos /\ p \in Vivos
        /\ a # "nuevo" => Cajas'.nuevo = Cajas.nuevo /\ semMulti' = semMulti
        /\ a = "nuevo" => Cajas'.nuevo = Cajas.nuevo \ {p} /\ semMulti' = semMulti - 1
    BY <1>3, <1>4, <1>9 DEF Mueve
  <2>2. CASE a # "nuevo"
    BY <1>1, <1>5, <2>1, <2>2
  <2>3. CASE a = "nuevo"
    <3>1. p \notin A /\ Admitidos' = A \union {p}
      BY <1>1, <2>1, <2>3
    <3>2. IsFiniteSet(A \union {p}) /\ Cardinality(A \union {p}) = n + 1
      BY <1>2, <3>1, FS_AddElement
    <3> HIDE DEF A, n
    <3> QED BY <1>2, <2>1, <2>3, <3>1, <3>2 DEF GradoInv, GradoRespetado
  <2> QED BY <2>2, <2>3
<1> QED BY <1>6, <1>7, <1>8, <1>9 DEF Movimiento

LEMMA GradoSiempre == RecursosConocidos => (Spec => []GradoInv)
<1> SUFFICES ASSUME RecursosConocidos PROVE Spec => []GradoInv
  OBVIOUS
<1>1. Init => GradoInv
  <2> SUFFICES ASSUME Init PROVE GradoInv
    OBVIOUS
  <2>1. Admitidos = {}
    BY DEF Init, Admitidos
  <2> QED BY <2>1, FS_EmptySet, GradoAssumption DEF Init, GradoInv, GradoRespetado
<1>2. RepartoInv /\ RepartoInv' /\ GradoInv /\ [Next]_vars => GradoInv'
  BY RepartoPaso, GradoPaso DEF RepartoInv, ConversacionesInv
<1> QED BY <1>1, <1>2, RepartoSiempre, PTL DEF Spec

\* Never more than GRADO_MAX_MULTIPROGRAMACION processes are admitted, and a
\* slot is free exactly when sem_multiprogramacion says so, whichever of the
\* three ends (EXIT, a segmentation fault, no memory) a process comes to.
THEOREM GradoCorrecto == RecursosConocidos => (Spec => []GradoRespetado)
<1>1. GradoInv => GradoRespetado
  BY DEF GradoInv
<1> QED BY <1>1, GradoSiempre, PTL

-----------------------------------------------------------------------------
(* The segments of the processes that ended.                                   *)

Acabo(c) == c \in {"terminada", "finalizada"}

\* The request of a segment under way is for the process atender_cpu serves.
PedidoPropio ==
    \A m \in Elementos(aMemoria) : m.op = "CREAR_SEGMENTO" => m.pid = atiende.pid
Liberada ==
    \A p \in duenios : Acabo(consola[p]) => Mensaje("FINALIZAR", p) \in Elementos(aMemoria)
LiberadaInv == PedidoPropio /\ Liberada

\* Out of analizar_resultado there are only notices in the connection.
LEMMA SoloAvisos ==
    ConversacionesInv /\ atiende.fase # "analizar" => PedidoPropio
<1> SUFFICES ASSUME ConversacionesInv, atiende.fase # "analizar" PROVE PedidoPropio
  OBVIOUS
<1>1. aMemoria \in Seq(AMemoria) /\ DOMAIN aMemoria = 1 .. Len(aMemoria)
  BY CanalesMemoria, LenProperties DEF ConversacionesInv
<1>2. \A i \in 1 .. Len(aMemoria) : Libera(aMemoria[i])
  BY DEF ConversacionesInv, ConversacionMemoria
<1> QED BY <1>1, <1>2 DEF PedidoPropio, Elementos, Libera

\* The steps that send nothing to the memory.
LEMMA LiberadaAjena ==
    ASSUME LiberadaInv, ConversacionesInv',
           UNCHANGED <<aMemoria, duenios>>,
           \A p \in duenios : Acabo(consola'[p]) => Acabo(consola[p]),
           \/ UNCHANGED atiende
           \/ atiende'.fase # "analizar"
    PROVE  LiberadaInv'
<1>1. PedidoPropio'
  <2>1. ConversacionesInv' /\ (atiende.fase # "analizar")' => PedidoPropio'
    BY SoloAvisos, PTL
  <2>2. UNCHANGED atiende => PedidoPropio'
    BY DEF LiberadaInv, PedidoPropio
  <2> QED BY <2>1, <2>2
<1> QED BY <1>1 DEF LiberadaInv, Liberada

\* A process the console is told about has its notice sent.
LEMMA LiberadaAviso ==
    ASSUME TypeOK, LiberadaInv, ConversacionesInv', NEW p \in Procesos,
           EliminarProceso(p), UNCHANGED duenios,
           consola' = [consola EXCEPT ![p] = "finalizada"],
           atiende' = AtiendeLibre
    PROVE  LiberadaInv'
<1>1. Mensaje("FINALIZAR", p) \in AMemoria
  BY DEF AMemoria, Mensaje
<1>2. Elementos(aMemoria') = Elementos(aMemoria) \union {Mensaje("FINALIZAR", p)}
  BY <1>1, CanalesMemoria, ElementosDeAppend DEF EliminarProceso
<1>3. PedidoPropio'
  <2>1. ConversacionesInv' /\ (atiende.fase # "analizar")' => PedidoPropio'
    BY SoloAvisos, PTL
  <2> QED BY <2>1 DEF AtiendeLibre
<1>4. \A q \in duenios : q # p => consola'[q] = consola[q]
  BY DEF TypeOK
<1>5. Liberada'
  BY <1>2, <1>4 DEF LiberadaInv, Liberada
<1> QED BY <1>3, <1>5 DEF LiberadaInv

\* The requests of atender_cpu to the memory.
LEMMA LiberadaPedido ==
    ASSUME ConversacionesInv, LiberadaInv, TurnoSegun,
           \/ \E p \in Procesos : PedirSegmento(p)
           \/ RealizarCompactacion \/ Compactar
    PROVE  LiberadaInv'
<1>0. TypeOK
  BY DEF ConversacionesInv
<1>1. UNCHANGED <<duenios, consola>>
  BY DEF PedirSegmento, RealizarCompactacion, Compactar, Resultado
<1>2. ASSUME NEW m \in AMemoria, aMemoria' = Append(aMemoria, m), PedidoPropio'
      PROVE  LiberadaInv'
  <2>1. Elementos(aMemoria') = Elementos(aMemoria) \union {m}
    BY <1>0, <1>2, CanalesMemoria, ElementosDeAppend
  <2> QED BY <1>1, <1>2, <2>1 DEF LiberadaInv, Liberada
<1>3. ASSUME NEW m \in AMemoria, aMemoria' = Append(aMemoria, m), PedidoPropio,
             UNCHANGED atiende, m.op = "CREAR_SEGMENTO" => m.pid = atiende.pid
      PROVE  PedidoPropio'
  <2>1. Elementos(aMemoria') = Elementos(aMemoria) \union {m}
    BY <1>0, <1>3, CanalesMemoria, ElementosDeAppend
  <2> QED BY <1>3, <2>1 DEF PedidoPropio
<1>4. ASSUME NEW p \in Procesos, PedirSegmento(p) PROVE LiberadaInv'
  <2>1. PICK op \in {"CREAR_SEGMENTO", "ELIMINAR_SEGMENTO"} :
            Llega(op, p) /\ aMemoria' = Append(aMemoria, Mensaje(op, p))
    BY <1>4 DEF PedirSegmento
  <2>2. Mensaje(op, p) \in AMemoria
    BY DEF AMemoria, Mensaje
  <2>3. atiende.fase # "analizar" /\ atiende'.pid = p
    BY <1>4, <2>1 DEF PedirSegmento, Llega, AtiendeLibre
  <2>4. \A m \in Elementos(aMemoria) : Libera(m)
    <3>1. DOMAIN aMemoria = 1 .. Len(aMemoria)
      BY <1>0, CanalesMemoria, LenProperties
    <3> QED BY <2>3, <3>1 DEF ConversacionesInv, ConversacionMemoria, Elementos
  <2>5. Elementos(aMemoria') = Elementos(aMemoria) \union {Mensaje(op, p)}
    BY <1>0, <2>1, <2>2, CanalesMemoria, ElementosDeAppend
  <2>6. PedidoPropio'
    BY <2>3, <2>4, <2>5 DEF PedidoPropio, Libera, Mensaje
  <2> QED BY <1>2, <2>1, <2>2, <2>6
<1>5. CASE RealizarCompactacion
  <2>1. /\ aMemoria' = Append(aMemoria, Orden) /\ UNCHANGED atiende
        /\ Orden \in AMemoria /\ Orden.op # "CREAR_SEGMENTO"
    BY <1>5 DEF RealizarCompactacion, Orden, AMemoria, Mensaje
  <2> QED BY <1>2, <1>3, <2>1 DEF LiberadaInv
<1>6. CASE Compactar
  <2> DEFINE m == Mensaje("CREAR_SEGMENTO", atiende.pid)
  <2>1. /\ aMemoria' = Append(aMemoria, m) /\ UNCHANGED atiende
        /\ m.pid = atiende.pid /\ atiende.pid \in Procesos
    BY <1>0, <1>6 DEF Compactar, Resultado, Mensaje, TypeOK, AtiendeLibre
  <2>2. m \in AMemoria
    BY <2>1 DEF AMemoria, Mensaje
  <2> HIDE DEF m
  <2> QED BY <1>2, <1>3, <2>1, <2>2 DEF LiberadaInv
<1> QED BY <1>4, <1>5, <1>6

\* The memory serves the requests in order.
LEMMA LiberadaMemoria ==
    ASSUME RepartoInv, TurnoSegun, LiberadaInv, Memoria
    PROVE  LiberadaInv'
<1> DEFINE m == Head(aMemoria)
<1>0. TypeOK /\ Dialogo /\ ConversacionMemoria
  BY DEF RepartoInv, ConversacionesInv
<1>1. /\ Elementos(aMemoria) = {m} \union Elementos(aMemoria')
      /\ Len(aMemoria) \in Nat \ {0} /\ m = aMemoria[1]
  BY <1>0, CanalesMemoria, ElementosDeTail, Sacar DEF Memoria
<1>2. /\ UNCHANGED <<consola, atiende>>
      /\ \/ m.op = "CREAR_SEGMENTO" /\ duenios' = duenios \union {m.pid}
         \/ m.op # "FINALIZAR" /\ duenios' \in {duenios, duenios \ {m.pid}}
         \/ m.op = "FINALIZAR" /\ duenios' = duenios \ {m.pid}
  BY DEF Memoria
<1>3. PedidoPropio'
  BY <1>1, <1>2 DEF LiberadaInv, PedidoPropio
<1>4. m.op = "CREAR_SEGMENTO" => ~Acabo(consola[m.pid])
  <2> SUFFICES ASSUME m.op = "CREAR_SEGMENTO" PROVE ~Acabo(consola[m.pid])
    OBVIOUS
  <2>1. m.pid = atiende.pid
    BY <1>1 DEF LiberadaInv, PedidoPropio
  <2>2. Analizando
    BY <1>1 DEF ConversacionMemoria, Libera, RepartoInv, ConversacionesInv
  <2>3. atiende.pid \in EnTurno
    BY <1>0, <2>2 DEF Dialogo, TurnoSegun
  <2>4. atiende.pid \in Vivos
    BY <2>3 DEF RepartoInv, Reparto, Todos, Cajas, Nombres
  <2> QED BY <2>1, <2>4 DEF Vivos, Acabo
<1>5. \A p : m = Mensaje("FINALIZAR", p) => m.op = "FINALIZAR" /\ m.pid = p
  BY DEF Mensaje
<1> HIDE DEF m
<1>6. Liberada'
  BY <1>1, <1>2, <1>4, <1>5 DEF LiberadaInv, Liberada
<1> QED BY <1>3, <1>6 DEF LiberadaInv

LEMMA LiberadaPaso ==
    RecursosConocidos /\ RepartoInv /\ ConversacionesInv' /\ LiberadaInv /\ [Next]_vars
        => LiberadaInv'
<1> SUFFICES ASSUME RecursosConocidos, RepartoInv, ConversacionesInv', LiberadaInv,
                    [Next]_vars
             PROVE  LiberadaInv'
  OBVIOUS
<1>0. ConversacionesInv /\ TypeOK /\ TurnoSegun
  BY TurnoDe DEF RepartoInv, ConversacionesInv
<1> USE DEF memoria
<1>1. ASSUME NEW p \in Procesos, Conectar(p) PROVE LiberadaInv'
  <2>1. UNCHANGED <<aMemoria, duenios, atiende>>
    BY <1>1 DEF Conectar
  <2>2. \A q \in Procesos : Acabo(consola'[q]) => Acabo(consola[q])
    BY <1>0, <1>1 DEF Conectar, Acabo, TypeOK
  <2> QED BY <1>0, <2>1, <2>2, LiberadaAjena DEF TypeOK
<1>2. ASSUME UNCHANGED <<aMemoria, duenios, consola, atiende>> PROVE LiberadaInv'
  BY <1>2, LiberadaAjena
<1>3. CASE HiloNew \/ HiloExec \/ Cpu \/ Desbloqueado \/ FileSystem \/ UNCHANGED vars
  BY <1>2, <1>3 DEF HiloNew, NewDespierta, NewDuerme, Admitir, HiloExec, ExecDespierta,
         ExecDuerme, TomarCpu, Despachar, Cpu, CpuRecibe, CpuLocal, CpuConsulta, CpuEntrega,
         CpuRespuesta, restoCpu, Desbloqueado, FileSystem, vars
<1>4. ASSUME NEW r \in Recursos, IniciarRecurso(r) PROVE LiberadaInv'
  BY <1>2, <1>4 DEF IniciarRecurso, RecursoDespierta, RecursoSaca
<1>5. ASSUME NEW p \in Procesos,
             TerminarIO(p) \/ Desalojado(p) \/ EjecutarIO(p) \/ Transferir(p)
      PROVE  LiberadaInv'
  BY <1>2, <1>5 DEF TerminarIO, Desalojado, EjecutarIO, Transferir
<1>6. ASSUME NEW p \in Procesos, EjecutarWait(p) \/ EjecutarSignal(p)
      PROVE  LiberadaInv'
  <2>1. Actual(p).param \in Recursos
    BY <1>0, <1>6, PidePorRecurso
  <2> QED BY <1>2, <1>6, <2>1 DEF EjecutarWait, EjecutarSignal, restoRecurso
<1>7. ASSUME NEW p \in Procesos, Finalizar(p) PROVE LiberadaInv'
  BY <1>7, LiberadaAjena DEF Finalizar
<1>8. CASE Notificar
  <2>1. atiende.pid \in Procesos
    BY <1>0, <1>8 DEF Notificar, TypeOK, AtiendeLibre
  <2> QED BY <1>0, <1>8, <2>1, LiberadaAviso DEF Notificar
<1>9. CASE CreacionExitosa
  BY <1>9, LiberadaAjena DEF CreacionExitosa, Resultado, AtiendeLibre
<1>10. CASE SinMemoria
  <2>1. atiende.pid \in Procesos
    BY <1>0, <1>10 DEF SinMemoria, Resultado, TypeOK, AtiendeLibre
  <2> QED BY <1>0, <1>10, <2>1, LiberadaAviso DEF SinMemoria, Resultado
<1>11. CASE RealizarCompactacion \/ Compactar \/ \E p \in Procesos : PedirSegmento(p)
  BY <1>0, <1>11, LiberadaPedido
<1>12. CASE Memoria
  BY <1>0, <1>12, LiberadaMemoria
<1> QED BY <1>1, <1>3, <1>4, <1>5, <1>6, <1>7, <1>8, <1>9, <1>10, <1>11, <1>12
        DEF Next, DeConsolas, AtenderCpu

\* A process whose console was told that it ended keeps no segments in the
\* memory, or the notice that frees them is already in the connection: no request
\* of that process can be behind it.
THEOREM LiberadaCorrecta == RecursosConocidos => (Spec => []MemoriaLiberada)
<1> SUFFICES ASSUME RecursosConocidos PROVE Spec => []MemoriaLiberada
  OBVIOUS
<1>1. Init => LiberadaInv
  <2> SUFFICES ASSUME Init PROVE LiberadaInv
    OBVIOUS
  <2>1. DOMAIN aMemoria = {} /\ duenios = {}
    BY EmptySeq DEF Init
  <2> QED BY <2>1 DEF LiberadaInv, PedidoPropio, Liberada, Elementos
<1>2. RepartoInv /\ RepartoInv' /\ LiberadaInv /\ [Next]_vars => LiberadaInv'
  BY LiberadaPaso DEF RepartoInv
<1>3. LiberadaInv => MemoriaLiberada
  BY DEF LiberadaInv, Liberada, MemoriaLiberada, Elementos, Acabo
<1> QED BY <1>1, <1>2, <1>3, RepartoSiempre, PTL DEF Spec

=============================================================================
