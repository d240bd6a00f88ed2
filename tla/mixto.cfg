CONSTANTS
    p1 = p1
    p2 = p2
    p3 = p3
    DISCO = DISCO
    IMPRESORA = IMPRESORA
    Nadie = Nadie
    Procesos = {p1, p2, p3}
    Recursos = {DISCO}
    Instancias <- UnaDeCada
    Programa <- ProgramasMixtos
    Grado = 2
    Algoritmo = "HRRN"
SPECIFICATION Spec
INVARIANTS
    DialogoCpu
    GradoRespetado
    CompactacionExclusiva
    MemoriaLiberada
CHECK_DEADLOCK FALSE
