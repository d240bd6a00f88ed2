----------------------------- MODULE CicloDeVida -----------------------------
(***************************************************************************)
(* What the kernel promises about the life of a process: the states its    *)
(* log prints (NEW, READY, EXEC, BLOCK, EXIT), how many processes may be   *)
(* in them, and how the units of a resource change hands.  There are no    *)
(* queues, semaphores, threads or messages here.                           *)
(***************************************************************************)
EXTENDS Integers, FiniteSets

CONSTANTS Procesos, Recursos, Instancias, Grado, Nadie

VARIABLES
    estado,     \* the state of each process
    espera,     \* the resource a blocked process waits for, or Nadie
    libres      \* units of each resource that no process holds

vars == <<estado, espera, libres>>

En(e) == {p \in Procesos : estado[p] = e}
Esperando(r) == {p \in Procesos : espera[p] = r}

Init ==
    /\ estado = [p \in Procesos |-> "fuera"]
    /\ espera = [p \in Procesos |-> Nadie]
    /\ libres = Instancias

Pasar(p, de, a) == estado[p] = de /\ estado' = [estado EXCEPT ![p] = a]

Llegar(p) == Pasar(p, "fuera", "new") /\ UNCHANGED <<espera, libres>>

\* At most Grado processes between NEW and EXIT.
Admitir(p) ==
    /\ Cardinality(En("ready") \union En("exec") \union En("block")) < Grado
    /\ Pasar(p, "new", "ready")
    /\ UNCHANGED <<espera, libres>>

\* One process at a time has the CPU.
Ejecutar(p) ==
    /\ En("exec") = {}
    /\ Pasar(p, "ready", "exec")
    /\ UNCHANGED <<espera, libres>>

Ceder(p) == Pasar(p, "exec", "ready") /\ UNCHANGED <<espera, libres>>
Bloquear(p) == Pasar(p, "exec", "block") /\ UNCHANGED <<espera, libres>>
Terminar(p) == Pasar(p, "exec", "exit") /\ UNCHANGED <<espera, libres>>

Desbloquear(p) ==
    /\ espera[p] = Nadie
    /\ Pasar(p, "block", "ready")
    /\ UNCHANGED <<espera, libres>>

\* A process takes a unit if one is left over after those that were waiting.
Tomar(p, r) ==
    /\ estado[p] = "exec"
    /\ libres[r] > Cardinality(Esperando(r))
    /\ libres' = [libres EXCEPT ![r] = @ - 1]
    /\ UNCHANGED <<estado, espera>>

\* Otherwise it waits.
Esperar(p, r) ==
    /\ libres[r] <= Cardinality(Esperando(r))
    /\ Pasar(p, "exec", "block")
    /\ espera' = [espera EXCEPT ![p] = r]
    /\ UNCHANGED libres

Soltar(p, r) ==
    /\ estado[p] = "exec"
    /\ libres' = [libres EXCEPT ![r] = @ + 1]
    /\ UNCHANGED <<estado, espera>>

\* A waiting process gets a unit that is free.
Conceder(p, r) ==
    /\ espera[p] = r /\ libres[r] > 0
    /\ Pasar(p, "block", "ready")
    /\ espera' = [espera EXCEPT ![p] = Nadie]
    /\ libres' = [libres EXCEPT ![r] = @ - 1]

Next ==
    \E p \in Procesos :
        \/ Llegar(p) \/ Admitir(p) \/ Ejecutar(p) \/ Ceder(p)
        \/ Bloquear(p) \/ Desbloquear(p) \/ Terminar(p)
        \/ \E r \in Recursos :
              Tomar(p, r) \/ Esperar(p, r) \/ Soltar(p, r) \/ Conceder(p, r)

Spec == Init /\ [][Next]_vars

=============================================================================
