---------------------------- MODULE Segmentacion ----------------------------
(***************************************************************************)
(* What the memory promises: every process has named segments, the sizes   *)
(* of all of them never exceed the memory, and a segment is refused only   *)
(* when what is free in total is not enough.  There are no addresses,      *)
(* holes, assignment algorithms or compactions here.                       *)
(***************************************************************************)
EXTENDS Integers, Sequences, FiniteSets, FiniteSetsExt

CONSTANTS
    Capacidad,      \* what all the segments may take together
    Ids, Tamanios

VARIABLES
    segmentos,      \* the segments of each process: a set of [id, tam]
    libre,          \* what no segment takes
    negada          \* the size refused, if that is what happened last, or 0

vars == <<segmentos, libre, negada>>

Init == segmentos = <<>> /\ libre = Capacidad /\ negada = 0

Nacer == segmentos' = Append(segmentos, {}) /\ negada' = 0 /\ UNCHANGED libre

Crear(p, id, tam) ==
    /\ tam <= libre
    /\ id \notin {s.id : s \in segmentos[p]}
    /\ segmentos' = [segmentos EXCEPT ![p] = @ \union {[id |-> id, tam |-> tam]}]
    /\ libre' = libre - tam
    /\ negada' = 0

\* A segment is refused only when it does not fit in all that is free.
Negar(tam) ==
    /\ tam > libre
    /\ negada' = tam
    /\ UNCHANGED <<segmentos, libre>>

\* Deleting a segment that a process does not have changes nothing.
Eliminar(p, id) ==
    LET suyos == {s \in segmentos[p] : s.id = id} IN
    /\ segmentos' = [segmentos EXCEPT ![p] = @ \ suyos]
    /\ libre' = libre + MapThenSumSet(LAMBDA s : s.tam, suyos)
    /\ negada' = 0

\* The end of a process gives back all that it had.
Terminar(p) ==
    /\ libre' = libre + MapThenSumSet(LAMBDA s : s.tam, segmentos[p])
    /\ segmentos' = [segmentos EXCEPT ![p] = {}]
    /\ negada' = 0

Next ==
    \/ Nacer
    \/ \E p \in DOMAIN segmentos :
          \/ \E id \in Ids, tam \in Tamanios : Crear(p, id, tam)
          \/ \E id \in Ids : Eliminar(p, id)
          \/ Terminar(p)
    \/ \E tam \in Tamanios : Negar(tam)

Spec == Init /\ [][Next]_vars

=============================================================================
