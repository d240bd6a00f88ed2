------------------------------ MODULE TablasProofs ------------------------------
(***************************************************************************)
(* Theorems about Tablas: the copies of the tables of segments that kernel *)
(* and CPU keep are those of the memory while the process that has the CPU *)
(* depends on them.  Nothing here rests on which hole the memory takes, on *)
(* how it joins holes or on where a compaction puts the segments: the      *)
(* argument is about which copy is written when.                           *)
(***************************************************************************)
EXTENDS Tablas, MemoriaProofs

-----------------------------------------------------------------------------
(* Lists whose elements do not matter.                                         *)

\* s is a list of n elements.
Lista(s, n) == s = [i \in 1 .. n |-> s[i]]

\* A list is a sequence of its own elements.
LEMMA ListaEsSeq ==
    ASSUME NEW s, NEW n \in Nat, Lista(s, n)
    PROVE  s \in Seq({s[i] : i \in 1 .. n}) /\ Len(s) = n /\ DOMAIN s = 1 .. n
<1> DEFINE S == {s[i] : i \in 1 .. n}
<1>1. DOMAIN s = 1 .. n /\ s \in [1 .. n -> S]
  BY DEF Lista
<1> HIDE DEF S
<1>2. s \in Seq(S)
  BY <1>1
<1> QED BY <1>1, <1>2, LenProperties DEF S

\* Append keeps what was in the list and adds one place.
LEMMA Agregado ==
    ASSUME NEW s, NEW n \in Nat, Lista(s, n), NEW e
    PROVE  /\ Lista(Append(s, e), n + 1)
           /\ \A i \in 1 .. n : Append(s, e)[i] = s[i]
           /\ Append(s, e)[n + 1] = e
<1> DEFINE S == {s[i] : i \in 1 .. n} \union {e}
<1>1. DOMAIN s = 1 .. n /\ s \in [1 .. n -> S]
  BY DEF Lista
<1> HIDE DEF S
<1>2. s \in Seq(S) /\ e \in S
  BY <1>1 DEF S
<1>3. Len(s) = n
  BY <1>1, <1>2, LenProperties
<1>4. /\ Append(s, e) \in Seq(S)
      /\ Len(Append(s, e)) = n + 1
      /\ \A i \in 1 .. n : Append(s, e)[i] = s[i]
      /\ Append(s, e)[n + 1] = e
  BY <1>2, <1>3, AppendProperties
<1>5. Append(s, e) \in [1 .. n + 1 -> S]
  BY <1>4, LenProperties
<1> QED BY <1>4, <1>5 DEF Lista

-----------------------------------------------------------------------------
(* The invariant.                                                              *)

Cambios == {"nada", "creada", "borrada", "revertida"}

\* Tables, copies and history name the same processes.
ListasSegun(n) ==
    /\ Lista(tabla, n) /\ Lista(pcb, n)
    /\ cambio \in [1 .. n -> Cambios]
    /\ vivos \subseteq 1 .. n
    /\ general = [i \in DOMAIN general |-> general[i]] /\ DOMAIN general \subseteq 1 .. n
Listas == \E n \in Nat : ListasSegun(n)

Pedidos(p) ==
    [paso : {"compactar", "otra vez"}, pid : {p}, id : Ids, tam : Tamanios]

\* Who has the CPU, who leaves, and whose request the memory has to answer.
Papeles ==
    /\ cpu \in vivos \union {0} /\ sale \in vivos \union {0}
    /\ cpu # 0 => cpu # sale
    /\ pedido # SinPedido => cpu # 0 /\ sale = 0 /\ pedido \in Pedidos(cpu)

\* The copy of a process is good, or the kernel has a good one to write over it:
\* a process whose last change is a creation has it in its PCB, and one without
\* changes since the last compaction has it in tabla_general, if it was there.
CopiaGuardada(p) ==
    /\ cambio[p] = "creada" => pcb[p] = tabla[p]
    /\ cambio[p] = "nada" =>
          /\ p \in DOMAIN general => general[p] = tabla[p]
          /\ p \notin DOMAIN general => pcb[p] = tabla[p]

\* Once an index without a value was used the model stops, and with it what is
\* known of those that wait.
Guardadas == sana => \A p \in vivos : CopiaGuardada(p)

\* The one that runs has the good copy in its PCB.
EnUso == Ejecutando /\ cambio[cpu] \in {"nada", "creada"} => pcb[cpu] = tabla[cpu]

CopiasInv == Listas /\ Papeles /\ Guardadas /\ EnUso

\* The invariant is what the property asks for.
LEMMA Traduce == CopiasInv => TraduccionFiel
<1> SUFFICES ASSUME CopiasInv, Ejecutando, cambio[cpu] \in {"nada", "creada"}
             PROVE  TraduceBien(cpu)
  BY DEF TraduccionFiel
<1>1. pcb[cpu] = tabla[cpu]
  BY DEF CopiasInv, EnUso
<1> QED BY <1>1 DEF TraduceBien, Direccion

-----------------------------------------------------------------------------
(* What the requests do to the tables.                                         *)

LEMMA NoHay == SinPedido.paso = "ninguno"
BY DEF SinPedido

\* The requests that the kernel makes for a process leave a table per process;
\* only creations and the two kinds of release touch one, that of the process.
LEMMA TrasCrear ==
    ASSUME NEW n \in Nat, Lista(tabla, n), NEW p \in 1 .. n,
           NEW id \in Ids, NEW tam \in Tamanios, CrearSegmento(p, id, tam)
    PROVE  /\ Lista(tabla', n) /\ UNCHANGED vivos /\ sana
           /\ \A q \in 1 .. n \ {p} : tabla'[q] = tabla[q]
           /\ tabla' = tabla \/ pedido' = SinPedido
           /\ pedido' # SinPedido => pedido' \in Pedidos(p)
           /\ negada' # 0 => tabla' = tabla \/ ~sana'
<1>1. ASSUME NEW i, NEW b, Agregar(p, i, b, tam)
      PROVE  Lista(tabla', n) /\ \A q \in 1 .. n \ {p} : tabla'[q] = tabla[q]
  BY <1>1 DEF Agregar, Lista
<1>2. UNCHANGED vivos /\ sana
  BY DEF CrearSegmento
<1>3. CASE HayHueco(p, id, tam)
  BY <1>1, <1>2, <1>3 DEF HayHueco
<1>4. CASE PideCompactar(p, id, tam)
  BY <1>2, <1>4 DEF PideCompactar, Pedidos
<1>5. CASE IndiceSinValor(p, id, tam)
  BY <1>1, <1>2, <1>5 DEF IndiceSinValor
<1>6. CASE SinMemoria(tam)
  BY <1>2, <1>6 DEF SinMemoria
<1> QED BY <1>3, <1>4, <1>5, <1>6 DEF CrearSegmento

-----------------------------------------------------------------------------
(* The steps.                                                                  *)

LEMMA CopiasInicio == InitTablas => CopiasInv
<1> SUFFICES ASSUME InitTablas PROVE CopiasInv
  OBVIOUS
<1>1. /\ tabla = <<>> /\ pcb = <<>> /\ cambio = <<>> /\ general = <<>>
      /\ vivos = {} /\ cpu = 0 /\ sale = 0 /\ pedido = SinPedido
  BY DEF InitTablas, Init
<1>2. ListasSegun(0)
  BY <1>1 DEF ListasSegun, Lista, Cambios
<1> QED BY <1>1, <1>2 DEF CopiasInv, Listas, Papeles, Guardadas, EnUso, Ejecutando

\* A process that arrives has its own table and no other's.
LEMMA CopiasCrearPcb == CopiasInv /\ CrearPcb => CopiasInv'
<1> SUFFICES ASSUME CopiasInv, CrearPcb PROVE CopiasInv'
  OBVIOUS
<1>1. PICK n \in Nat : ListasSegun(n)
  BY DEF CopiasInv, Listas
<1> DEFINE e == <<Segmento(0, 0, TamSegmento)>>
<1>2. /\ tabla' = Append(tabla, e) /\ pcb' = Append(pcb, e)
      /\ cambio' = Append(cambio, "nada")
      /\ vivos' = vivos \union {Len(tabla) + 1}
      /\ UNCHANGED <<general, cpu, sale, pedido, sana>>
  BY DEF CrearPcb, InicializarEstructura
<1> HIDE DEF e
<1>3. Lista(tabla, n) /\ Lista(pcb, n) /\ Lista(cambio, n) /\ Len(tabla) = n
  BY <1>1, ListaEsSeq DEF ListasSegun, Lista
<1>4. /\ Lista(tabla', n + 1) /\ Lista(pcb', n + 1) /\ Lista(cambio', n + 1)
      /\ \A i \in 1 .. n : tabla'[i] = tabla[i] /\ pcb'[i] = pcb[i] /\ cambio'[i] = cambio[i]
      /\ tabla'[n + 1] = e /\ pcb'[n + 1] = e /\ cambio'[n + 1] = "nada"
  <2>1. /\ Lista(tabla', n + 1) /\ tabla'[n + 1] = e
        /\ \A i \in 1 .. n : tabla'[i] = tabla[i]
    <3>1. Lista(tabla, n)
      BY <1>3
    <3>2. /\ Lista(Append(tabla, e), n + 1) /\ Append(tabla, e)[n + 1] = e
          /\ \A i \in 1 .. n : Append(tabla, e)[i] = tabla[i]
      BY ONLY n \in Nat, <3>1, Agregado DEF Lista
    <3> QED BY <1>2, <3>2
  <2>2. /\ Lista(pcb', n + 1) /\ pcb'[n + 1] = e
        /\ \A i \in 1 .. n : pcb'[i] = pcb[i]
    <3>1. Lista(pcb, n)
      BY <1>3
    <3>2. /\ Lista(Append(pcb, e), n + 1) /\ Append(pcb, e)[n + 1] = e
          /\ \A i \in 1 .. n : Append(pcb, e)[i] = pcb[i]
      BY ONLY n \in Nat, <3>1, Agregado DEF Lista
    <3> QED BY <1>2, <3>2
  <2>3. /\ Lista(cambio', n + 1) /\ cambio'[n + 1] = "nada"
        /\ \A i \in 1 .. n : cambio'[i] = cambio[i]
    <3>1. Lista(cambio, n)
      BY <1>3
    <3>2. /\ Lista(Append(cambio, "nada"), n + 1) /\ Append(cambio, "nada")[n + 1] = "nada"
          /\ \A i \in 1 .. n : Append(cambio, "nada")[i] = cambio[i]
      BY ONLY n \in Nat, <3>1, Agregado DEF Lista
    <3> QED BY <1>2, <3>2
  <2> QED BY <2>1, <2>2, <2>3
<1>5. vivos' = vivos \union {n + 1} /\ vivos \subseteq 1 .. n /\ DOMAIN general \subseteq 1 .. n
  BY <1>1, <1>2, <1>3 DEF ListasSegun
<1>6. ListasSegun(n + 1)'
  <2>1. \A i \in 1 .. n + 1 : cambio'[i] \in Cambios
    BY <1>1, <1>4 DEF ListasSegun, Cambios
  <2>2. cambio' \in [1 .. n + 1 -> Cambios]
    BY <1>4, <2>1 DEF Lista
  <2> QED BY <1>1, <1>2, <1>4, <1>5, <2>2 DEF ListasSegun
<1>7. Papeles'
  BY <1>2 DEF CopiasInv, Papeles
<1>8. Guardadas'
  <2> SUFFICES ASSUME sana, NEW p \in vivos' PROVE CopiaGuardada(p)'
    BY <1>2 DEF Guardadas
  <2>1. CASE p \in vivos
    <3>1. CopiaGuardada(p)
      BY <2>1 DEF CopiasInv, Guardadas
    <3>2. /\ tabla'[p] = tabla[p] /\ pcb'[p] = pcb[p] /\ cambio'[p] = cambio[p]
          /\ general' = general
      BY <1>2, <1>4, <1>5, <2>1
    <3> QED BY <3>1, <3>2 DEF CopiaGuardada
  <2>2. CASE p = n + 1
    <3>1. p \notin DOMAIN general /\ general' = general
      BY <1>2, <1>5, <2>2
    <3>2. cambio'[p] = "nada" /\ pcb'[p] = tabla'[p]
      BY <1>4, <2>2
    <3> QED BY <3>1, <3>2 DEF CopiaGuardada
  <2> QED BY <1>5, <2>1, <2>2
<1>9. EnUso'
  BY <1>2, <1>4, <1>5 DEF CopiasInv, Papeles, EnUso, Ejecutando
<1> QED BY <1>6, <1>7, <1>8, <1>9 DEF CopiasInv, Listas

\* The dispatch writes the last table received over the copy: nothing changed
\* since, or the history says so.
LEMMA CopiasDespachar ==
    ASSUME CopiasInv, NEW p \in vivos, Despachar(p)
    PROVE  CopiasInv'
<1>1. PICK n \in Nat : ListasSegun(n)
  BY DEF CopiasInv, Listas
<1>2. /\ sana /\ cpu = 0 /\ p # sale /\ cpu' = p
      /\ pcb' = [pcb EXCEPT ![p] = Actualizar(p)]
      /\ cambio' = IF p \in DOMAIN general /\ cambio[p] # "nada"
                   THEN [cambio EXCEPT ![p] = "revertida"] ELSE cambio
      /\ UNCHANGED <<tabla, vivos, pedido, sana, general, sale>>
  BY DEF Despachar, vars
<1>3. p \in 1 .. n /\ pedido = SinPedido
  BY <1>1, <1>2 DEF CopiasInv, Papeles, ListasSegun
<1>4. /\ Lista(pcb', n) /\ pcb'[p] = Actualizar(p)
      /\ \A q \in 1 .. n \ {p} : pcb'[q] = pcb[q] /\ cambio'[q] = cambio[q]
      /\ cambio' \in [1 .. n -> Cambios]
  <2>1. /\ Lista(pcb', n) /\ pcb'[p] = Actualizar(p)
        /\ \A q \in 1 .. n \ {p} : pcb'[q] = pcb[q]
    BY <1>1, <1>2, <1>3 DEF ListasSegun, Lista
  <2>2. /\ cambio' \in [1 .. n -> Cambios]
        /\ \A q \in 1 .. n \ {p} : cambio'[q] = cambio[q]
    BY <1>1, <1>2, <1>3 DEF ListasSegun, Cambios
  <2> QED BY <2>1, <2>2
<1>5. ListasSegun(n)'
  BY <1>1, <1>2, <1>4 DEF ListasSegun
<1>6. CopiaGuardada(p)' /\ (cambio'[p] \in {"nada", "creada"} => pcb'[p] = tabla[p])
  <2>1. CopiaGuardada(p)
    BY <1>2 DEF CopiasInv, Guardadas
  <2>2. cambio'[p] = IF p \in DOMAIN general /\ cambio[p] # "nada"
                     THEN "revertida" ELSE cambio[p]
    BY <1>1, <1>2, <1>3 DEF ListasSegun
  <2>3. pcb'[p] = IF p \in DOMAIN general THEN general[p] ELSE pcb[p]
    BY <1>4 DEF Actualizar
  <2> QED BY <1>2, <2>1, <2>2, <2>3 DEF CopiaGuardada
<1>7. Guardadas'
  <2> SUFFICES ASSUME NEW q \in vivos PROVE CopiaGuardada(q)'
    BY <1>2 DEF Guardadas
  <2>1. CASE q # p
    BY <1>1, <1>2, <1>4, <2>1 DEF CopiasInv, Guardadas, CopiaGuardada, ListasSegun
  <2> QED BY <1>6, <2>1
<1>8. EnUso'
  BY <1>2, <1>6 DEF EnUso
<1>9. Papeles'
  BY <1>2, <1>3 DEF CopiasInv, Papeles
<1> QED BY <1>5, <1>7, <1>8, <1>9 DEF CopiasInv, Listas

\* Leaving the CPU leaves everything else as it was.
LEMMA CopiasCeder == CopiasInv /\ Ceder => CopiasInv'
<1> SUFFICES ASSUME CopiasInv, Ceder PROVE CopiasInv'
  OBVIOUS
<1>1. cpu' = 0 /\ pedido = SinPedido /\ UNCHANGED <<vars, pcb, general, sale, cambio>>
  BY DEF Ceder
<1>2. Listas'
  BY <1>1 DEF CopiasInv, Listas, ListasSegun, vars
<1>3. Papeles' /\ EnUso'
  BY <1>1 DEF CopiasInv, Papeles, EnUso, Ejecutando, vars
<1>4. Guardadas'
  BY <1>1 DEF CopiasInv, Guardadas, CopiaGuardada, vars
<1> QED BY <1>2, <1>3, <1>4 DEF CopiasInv

\* A creation, for the first time or again: the table of the answer goes to the
\* PCB, and nothing else is said of the process then.
LEMMA CopiasCrear ==
    ASSUME CopiasInv, NEW p \in vivos, Crear(p)
    PROVE  CopiasInv'
<1>1. PICK n \in Nat : ListasSegun(n)
  BY DEF CopiasInv, Listas
<1>2. /\ cpu = p /\ sale = 0 /\ UNCHANGED general
      /\ p \in 1 .. n /\ p # 0
  BY <1>1 DEF Crear, ListasSegun
<1>3. \E id \in Ids, tam \in Tamanios : CrearSegmento(p, id, tam)
  <2>1. CASE Pedir(p)
    BY <2>1 DEF Pedir
  <2>2. CASE PedirDeNuevo
    <3>1. pedido.paso = "otra vez" /\ CrearSegmento(pedido.pid, pedido.id, pedido.tam)
      BY <2>2 DEF PedirDeNuevo
    <3>2. pedido \in Pedidos(p)
      BY <1>2, <3>1, NoHay DEF CopiasInv, Papeles
    <3> QED BY <3>1, <3>2 DEF Pedidos
  <2> QED BY <2>1, <2>2 DEF Crear
<1>4. /\ Lista(tabla', n) /\ UNCHANGED vivos /\ sana
      /\ \A q \in 1 .. n \ {p} : tabla'[q] = tabla[q]
      /\ tabla' = tabla \/ pedido' = SinPedido
      /\ pedido' # SinPedido => pedido' \in Pedidos(p)
      /\ negada' # 0 => tabla' = tabla \/ ~sana'
  BY <1>1, <1>2, <1>3, TrasCrear DEF ListasSegun
<1>5. ASSUME NEW q \in vivos, q # p, UNCHANGED <<pcb[q], cambio[q]>>
      PROVE  CopiaGuardada(q)'
  <2>1. CopiaGuardada(q) /\ tabla'[q] = tabla[q]
    BY <1>1, <1>4, <1>5 DEF CopiasInv, Guardadas, ListasSegun
  <2> QED BY <1>2, <1>5, <2>1 DEF CopiaGuardada
<1>6. CASE /\ pedido' = SinPedido /\ negada' = 0
           /\ pcb' = [pcb EXCEPT ![p] = TablaDelResultado(p)]
           /\ cambio' = [cambio EXCEPT ![p] = "creada"]
           /\ UNCHANGED <<cpu, sale>>
  <2>1. /\ Lista(pcb', n) /\ pcb'[p] = tabla'[p]
        /\ \A q \in 1 .. n \ {p} : pcb'[q] = pcb[q]
    BY <1>1, <1>2, <1>6 DEF ListasSegun, Lista, TablaDelResultado
  <2>2. /\ cambio' \in [1 .. n -> Cambios] /\ cambio'[p] = "creada"
        /\ \A q \in 1 .. n \ {p} : cambio'[q] = cambio[q]
    BY <1>1, <1>2, <1>6 DEF ListasSegun, Cambios
  <2>3. ListasSegun(n)'
    BY <1>1, <1>2, <1>4, <2>1, <2>2 DEF ListasSegun
  <2>4. Papeles' /\ EnUso'
    BY <1>2, <1>4, <1>6, <2>1 DEF CopiasInv, Papeles, EnUso
  <2>5. CopiaGuardada(p)'
    BY <2>1, <2>2 DEF CopiaGuardada
  <2>6. Guardadas'
    <3> SUFFICES ASSUME NEW q \in vivos PROVE CopiaGuardada(q)'
      BY <1>4 DEF Guardadas
    <3>1. q \in 1 .. n
      BY <1>1 DEF ListasSegun
    <3> QED BY <1>5, <2>1, <2>2, <2>5, <3>1
  <2> QED BY <2>3, <2>4, <2>6 DEF CopiasInv, Listas
<1>7. CASE /\ pedido' = SinPedido /\ negada' # 0
           /\ cpu' = 0 /\ sale' = p
           /\ UNCHANGED <<pcb, cambio>>
  <2>1. ListasSegun(n)'
    BY <1>1, <1>2, <1>4, <1>7 DEF ListasSegun
  <2>2. Papeles' /\ EnUso'
    BY <1>4, <1>7 DEF Papeles, EnUso, Ejecutando
  <2>3. ASSUME sana' PROVE CopiaGuardada(p)'
    <3>1. tabla' = tabla
      BY <1>4, <1>7, <2>3
    <3> QED BY <1>2, <1>4, <1>7, <3>1 DEF CopiasInv, Guardadas, CopiaGuardada
  <2>4. Guardadas'
    BY <1>4, <1>5, <1>7, <2>3 DEF Guardadas
  <2> QED BY <2>1, <2>2, <2>4 DEF CopiasInv, Listas
<1>8. CASE pedido' # SinPedido /\ UNCHANGED <<pcb, cpu, sale, cambio>>
  <2>1. UNCHANGED tabla
    BY <1>4, <1>8
  <2>2. ListasSegun(n)'
    BY <1>1, <1>2, <1>4, <1>8, <2>1 DEF ListasSegun
  <2>3. Papeles' /\ EnUso'
    BY <1>2, <1>4, <1>8 DEF CopiasInv, Papeles, EnUso, Ejecutando
  <2>4. Guardadas'
    BY <1>2, <1>4, <1>8, <2>1 DEF CopiasInv, Guardadas, CopiaGuardada
  <2> QED BY <2>2, <2>3, <2>4 DEF CopiasInv, Listas
<1> QED BY <1>6, <1>7, <1>8 DEF Crear

\* A compaction moves segments of every process, and the kernel takes all the
\* tables as they are left; the one that asked for it still waits.
LEMMA CopiasCompactar == CopiasInv /\ Compactar => CopiasInv'
<1> SUFFICES ASSUME CopiasInv, Compactar PROVE CopiasInv'
  OBVIOUS
<1>1. PICK n \in Nat : ListasSegun(n)
  BY DEF CopiasInv, Listas
<1>2. /\ tabla' = TablaCompactada /\ general' = tabla'
      /\ cambio' = [p \in DOMAIN cambio |-> "nada"]
      /\ pedido.paso = "compactar" /\ pedido' = [pedido EXCEPT !.paso = "otra vez"]
      /\ UNCHANGED <<vivos, pcb, cpu, sale, sana>>
  BY DEF Compactar, RealizarCompactacion, Recibir
<1>3. Lista(tabla', n) /\ Lista(general', n)
  <2>1. DOMAIN tabla = 1 .. n
    BY <1>1 DEF ListasSegun, Lista
  <2> QED BY <1>2, <2>1 DEF TablaCompactada, Lista
<1>4. cambio' \in [1 .. n -> Cambios] /\ \A p \in 1 .. n : cambio'[p] = "nada"
  BY <1>1, <1>2 DEF ListasSegun, Cambios
<1>5. ListasSegun(n)'
  BY <1>1, <1>2, <1>3, <1>4 DEF ListasSegun, Lista
<1>6. pedido # SinPedido /\ pedido' # SinPedido /\ pedido' \in Pedidos(cpu)
  <2>1. pedido \in Pedidos(cpu)
    BY <1>2, NoHay DEF CopiasInv, Papeles
  <2>2. pedido' \in Pedidos(cpu) /\ pedido'.paso = "otra vez"
    BY <1>2, <2>1 DEF Pedidos
  <2> QED BY <1>2, <2>2, NoHay
<1>7. Papeles' /\ EnUso'
  BY <1>2, <1>6 DEF CopiasInv, Papeles, EnUso, Ejecutando
<1>8. Guardadas'
  <2> SUFFICES ASSUME NEW p \in vivos PROVE CopiaGuardada(p)'
    BY <1>2 DEF Guardadas
  <2>1. p \in 1 .. n
    BY <1>1 DEF ListasSegun
  <2>2. cambio'[p] = "nada" /\ p \in DOMAIN general' /\ general'[p] = tabla'[p]
    BY <1>2, <1>3, <1>4, <2>1 DEF Lista
  <2> QED BY <2>2 DEF CopiaGuardada
<1> QED BY <1>5, <1>7, <1>8 DEF CopiasInv, Listas

\* A deletion makes the copy old, and says so.
LEMMA CopiasEliminar ==
    ASSUME CopiasInv, NEW p \in vivos, Eliminar(p)
    PROVE  CopiasInv'
<1>1. PICK n \in Nat : ListasSegun(n)
  BY DEF CopiasInv, Listas
<1>2. /\ cpu = p /\ p \in 1 .. n
      /\ \E segs : tabla' = [tabla EXCEPT ![p] = segs]
      /\ cambio' = [cambio EXCEPT ![p] = "borrada"]
      /\ UNCHANGED <<vivos, pedido, sana, pcb, general, cpu, sale>>
  BY <1>1 DEF Eliminar, EliminarSegmento, ListasSegun
<1>3. /\ Lista(tabla', n) /\ cambio' \in [1 .. n -> Cambios] /\ cambio'[p] = "borrada"
      /\ \A q \in 1 .. n \ {p} : tabla'[q] = tabla[q] /\ cambio'[q] = cambio[q]
  BY <1>1, <1>2 DEF ListasSegun, Lista, Cambios
<1>4. ListasSegun(n)'
  BY <1>1, <1>2, <1>3 DEF ListasSegun
<1>5. Papeles' /\ EnUso'
  BY <1>2, <1>3 DEF CopiasInv, Papeles, EnUso
<1>6. Guardadas'
  <2> SUFFICES ASSUME sana, NEW q \in vivos PROVE CopiaGuardada(q)'
    BY <1>2 DEF Guardadas
  <2>1. CASE q = p
    BY <1>3, <2>1 DEF CopiaGuardada
  <2>2. CASE q # p
    <3>1. tabla'[q] = tabla[q] /\ cambio'[q] = cambio[q]
      BY <1>1, <1>3, <2>2 DEF ListasSegun
    <3> QED BY <1>2, <3>1 DEF CopiasInv, Guardadas, CopiaGuardada
  <2> QED BY <2>1, <2>2
<1> QED BY <1>4, <1>5, <1>6 DEF CopiasInv, Listas

LEMMA CopiasSalir ==
    ASSUME CopiasInv, NEW p \in vivos, Salir(p)
    PROVE  CopiasInv'
<1>1. /\ cpu = p /\ cpu' = 0 /\ sale' = p /\ pedido = SinPedido
      /\ UNCHANGED <<vars, pcb, general, cambio>>
  BY DEF Salir
<1>2. Listas'
  BY <1>1 DEF CopiasInv, Listas, ListasSegun, vars
<1>3. Papeles' /\ EnUso'
  BY <1>1 DEF CopiasInv, Papeles, EnUso, Ejecutando, vars
<1>4. Guardadas'
  BY <1>1 DEF CopiasInv, Guardadas, CopiaGuardada, vars
<1> QED BY <1>2, <1>3, <1>4 DEF CopiasInv

\* The memory takes the segments of a process that left: no copy of another one
\* is about them.
LEMMA CopiasTerminar ==
    ASSUME CopiasInv, NEW p \in vivos, Terminar(p)
    PROVE  CopiasInv'
<1>1. PICK n \in Nat : ListasSegun(n)
  BY DEF CopiasInv, Listas
<1>2. /\ sale = p /\ sale' = 0 /\ p \in 1 .. n /\ pedido = SinPedido
      /\ \E segs : tabla' = [tabla EXCEPT ![p] = segs]
      /\ vivos' = vivos \ {p}
      /\ UNCHANGED <<pedido, sana, pcb, general, cpu, cambio>>
  BY <1>1 DEF Terminar, Finalizar, ListasSegun
<1>3. /\ Lista(tabla', n)
      /\ \A q \in 1 .. n \ {p} : tabla'[q] = tabla[q]
  BY <1>1, <1>2 DEF ListasSegun, Lista
<1>4. ListasSegun(n)'
  BY <1>1, <1>2, <1>3 DEF ListasSegun
<1>5. cpu # 0 => cpu \in vivos /\ cpu # p
  BY <1>2 DEF CopiasInv, Papeles
<1>6. Papeles' /\ EnUso'
  <2>1. Papeles'
    BY <1>2, <1>5 DEF CopiasInv, Papeles
  <2>2. cpu # 0 => tabla'[cpu] = tabla[cpu]
    BY <1>1, <1>3, <1>5 DEF ListasSegun
  <2> QED BY <1>2, <2>1, <2>2 DEF CopiasInv, EnUso, Ejecutando
<1>7. Guardadas'
  <2> SUFFICES ASSUME sana, NEW q \in vivos, q # p PROVE CopiaGuardada(q)'
    BY <1>2 DEF Guardadas
  <2>1. tabla'[q] = tabla[q]
    BY <1>1, <1>3 DEF ListasSegun
  <2> QED BY <1>2, <2>1 DEF CopiasInv, Guardadas, CopiaGuardada
<1> QED BY <1>4, <1>6, <1>7 DEF CopiasInv, Listas

LEMMA CopiasIgual == CopiasInv /\ UNCHANGED <<vars, copias>> => CopiasInv'
<1> SUFFICES ASSUME CopiasInv, UNCHANGED <<vars, copias>> PROVE CopiasInv'
  OBVIOUS
<1> USE DEF vars, copias
<1>1. Listas'
  BY DEF CopiasInv, Listas, ListasSegun
<1>2. Papeles' /\ EnUso'
  BY DEF CopiasInv, Papeles, EnUso, Ejecutando
<1>3. Guardadas'
  BY DEF CopiasInv, Guardadas, CopiaGuardada
<1> QED BY <1>1, <1>2, <1>3 DEF CopiasInv

-----------------------------------------------------------------------------
(* The theorem.                                                                *)

LEMMA CopiasPaso == CopiasInv /\ [NextTablas]_<<vars, copias>> => CopiasInv'
<1> SUFFICES ASSUME CopiasInv, [NextTablas]_<<vars, copias>> PROVE CopiasInv'
  OBVIOUS
<1>1. CASE UNCHANGED <<vars, copias>>
  BY <1>1, CopiasIgual
<1>2. CASE CrearPcb \/ Ceder \/ Compactar
  BY <1>2, CopiasCrearPcb, CopiasCeder, CopiasCompactar
<1>3. ASSUME NEW p \in vivos,
             Despachar(p) \/ Crear(p) \/ Eliminar(p) \/ Salir(p) \/ Terminar(p)
      PROVE  CopiasInv'
  BY <1>3, CopiasDespachar, CopiasCrear, CopiasEliminar, CopiasSalir, CopiasTerminar
<1> QED BY <1>1, <1>2, <1>3 DEF NextTablas

\* The process that runs reaches its segments where the memory has them, unless
\* it deleted one after the last compaction or a dispatch brought back an older
\* table (obtener_direccion_fisica, actualizar_de_la_tabla_general), for every
\* number of processes, size of the memory, algorithm of assignment and set of
\* segments, and after any number of compactions.
THEOREM TraduccionCorrecta == SpecTablas => []TraduccionFiel
<1>1. InitTablas => CopiasInv
  BY CopiasInicio
<1>2. CopiasInv /\ [NextTablas]_<<vars, copias>> => CopiasInv'
  BY CopiasPaso
<1>3. CopiasInv => TraduccionFiel
  BY Traduce
<1> QED BY <1>1, <1>2, <1>3, PTL DEF SpecTablas

-----------------------------------------------------------------------------
(* The memory under the kernel is the one of Memoria.                          *)

\* Each step is one of the memory, or it does not touch the memory.
LEMMA PasoDeLaMemoria == [NextTablas]_<<vars, copias>> => [Next]_vars
<1> SUFFICES ASSUME [NextTablas]_<<vars, copias>> PROVE [Next]_vars
  OBVIOUS
<1>1. CASE UNCHANGED <<vars, copias>>
  BY <1>1
<1>2. CASE CrearPcb
  BY <1>2 DEF CrearPcb, Next
<1>3. CASE Ceder
  BY <1>3 DEF Ceder
<1>4. CASE Compactar
  BY <1>4 DEF Compactar, Next
<1>5. ASSUME NEW p \in vivos, Despachar(p) \/ Salir(p)
      PROVE  UNCHANGED vars
  BY <1>5 DEF Despachar, Salir
<1>6. ASSUME NEW p \in vivos, Crear(p) \/ Eliminar(p) \/ Terminar(p)
      PROVE  Next
  BY <1>6 DEF Crear, Eliminar, Terminar, Next
<1> QED BY <1>1, <1>2, <1>3, <1>4, <1>5, <1>6 DEF NextTablas

\* Kernel and CPU with their copies ask the memory for nothing that Memoria does
\* not allow: who has the CPU, who leaves and when the compaction is asked for
\* only leave some of its behaviours out.
LEMMA TablasSobreMemoria == SpecTablas => Spec
<1>1. InitTablas => Init
  BY DEF InitTablas
<1> QED BY <1>1, PasoDeLaMemoria, PTL DEF SpecTablas, Spec

\* So the memory is shared out also under the requests of kernel and CPU.
THEOREM TablasReparten ==
    ASSUME Config
    PROVE  SpecTablas => []Particion
BY TablasSobreMemoria, MemoriaRepartida, PTL

\* The types of the copies, of the roles and of the history.
THEOREM TiposDeLasTablas ==
    ASSUME Config
    PROVE  SpecTablas => []TypeOKTablas
<1>1. CopiasInv /\ TypeOK => TypeOKTablas
  <2> SUFFICES ASSUME CopiasInv, TypeOK PROVE TypeOKTablas
    OBVIOUS
  <2>1. PICK n \in Nat : ListasSegun(n)
    BY DEF CopiasInv, Listas
  <2>2. DOMAIN tabla = 1 .. n /\ DOMAIN pcb = 1 .. n
    BY <2>1 DEF ListasSegun, Lista
  <2> QED BY <2>1, <2>2 DEF TypeOKTablas, ListasSegun, Cambios, CopiasInv, Papeles
<1>2. InitTablas => CopiasInv
  BY CopiasInicio
<1>3. CopiasInv /\ [NextTablas]_<<vars, copias>> => CopiasInv'
  BY CopiasPaso
<1> QED BY <1>1, <1>2, <1>3, TablasSobreMemoria, TiposDeLaMemoria, PTL DEF SpecTablas
=============================================================================
