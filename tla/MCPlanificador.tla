--------------------------- MODULE MCPlanificador ---------------------------
(* Instances of Planificador for TLC: the programs of consola/ cut down to  *)
(* the instructions that reach the kernel.                                  *)
EXTENDS Planificador, TLC

CONSTANTS p1, p2, p3, DISCO, IMPRESORA

Con(n, r) == [nombre |-> n, param |-> r]
Sin(n) == [nombre |-> n, param |-> Nadie]
Wait(r) == Con("WAIT", r)
Signal(r) == Con("SIGNAL", r)
Exit == Sin("EXIT")

UnaDeCada == [r \in Recursos |-> 1]
DosDeCada == [r \in Recursos |-> 2]

\* The circle of consola/DEADLOCK_1 to _3 between two processes, with a transfer, a
\* segment and a segmentation fault put in; and a third program, which may find
\* both slots taken by processes that will never end.
ProgramasDeadlock ==
    (p1 :> <<Wait(DISCO), Sin("F_READ"), Wait(IMPRESORA), Signal(IMPRESORA),
             Signal(DISCO), Exit>>) @@
    (p2 :> <<Wait(IMPRESORA), Sin("CREATE_SEGMENT"), Wait(DISCO), Sin("YIELD"),
             Signal(DISCO), Signal(IMPRESORA), Sin("SEG_FAULT")>>) @@
    (p3 :> <<Sin("IO"), Wait(DISCO), Sin("DELETE_SEGMENT"), Signal(DISCO), Exit>>)

\* Two transfers with the file system, segments with and without compaction, a
\* segmentation fault, and a resource taken by two processes, which give it back
\* before anything that may end them: nobody waits in a circle.
ProgramasMixtos ==
    (p1 :> <<Wait(DISCO), Sin("F_READ"), Signal(DISCO), Sin("CREATE_SEGMENT"),
             Exit>>) @@
    (p2 :> <<Sin("CREATE_SEGMENT"), Wait(DISCO), Sin("IO"), Signal(DISCO),
             Sin("DELETE_SEGMENT"), Exit>>) @@
    (p3 :> <<Sin("SET"), Sin("F_READ"), Sin("SEG_FAULT")>>)

\* consola/ERROR_1 and ERROR_2 (after taking a segment): LA_TERCERA is not a
\* resource of the configuration; and a program like consola/BASE_2.
ProgramasError ==
    (p1 :> <<Sin("SET"), Wait("LA_TERCERA"), Exit>>) @@
    (p2 :> <<Sin("CREATE_SEGMENT"), Signal("LA_TERCERA"), Exit>>) @@
    (p3 :> <<Sin("SET"), Sin("YIELD"), Exit>>)

\* A process that gives back two units one after the other, and one that
\* waits for them.
ProgramasDosUnidades ==
    (p1 :> <<Wait(DISCO), Wait(DISCO), Sin("YIELD"), Signal(DISCO),
             Signal(DISCO), Exit>>) @@
    (p2 :> <<Wait(DISCO), Signal(DISCO), Exit>>) @@
    (p3 :> <<Sin("YIELD"), Exit>>)

=============================================================================
