CONSTANTS
    p1 = p1
    p2 = p2
    p3 = p3
    DISCO = DISCO
    IMPRESORA = IMPRESORA
    Nadie = Nadie
    Procesos = {p1, p2, p3}
    Recursos = {DISCO}
    Instancias <- DosDeCada
    Programa <- ProgramasDosUnidades
    Grado = 3
    Algoritmo = "FIFO"
SPECIFICATION Spec
INVARIANTS
    KernelVivo
CHECK_DEADLOCK FALSE
