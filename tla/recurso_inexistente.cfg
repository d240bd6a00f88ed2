CONSTANTS
    p1 = p1
    p2 = p2
    p3 = p3
    DISCO = DISCO
    IMPRESORA = IMPRESORA
    Nadie = Nadie
    Procesos = {p1, p2, p3}
    Recursos = {DISCO}
    Instancias <- UnaDeCada
    Programa <- ProgramasError
    Grado = 2
    Algoritmo = "FIFO"
SPECIFICATION Spec
INVARIANTS
    SinRecursoFinaliza
CHECK_DEADLOCK FALSE
