CONSTANTS
    p1 = p1
    p2 = p2
    p3 = p3
    DISCO = DISCO
    IMPRESORA = IMPRESORA
    Nadie = Nadie
    Procesos = {p1, p2, p3}
    Recursos = {DISCO, IMPRESORA}
    Instancias <- UnaDeCada
    Programa <- ProgramasDeadlock
    Grado = 2
    Algoritmo = "FIFO"
SPECIFICATION SpecJusta
INVARIANTS
    TypeOK
    EsperasJustas
    ExclusionDeRecursos
    QuietoSoloPorRecursos
    UnSoloLugar
PROPERTIES
    CicloCumplido
    TodosTerminan
CHECK_DEADLOCK FALSE
