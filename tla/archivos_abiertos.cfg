CONSTANTS
    p1 = p1
    p2 = p2
    p3 = p3
    Procesos = {p1, p2, p3}
    consoles = consoles
    videogames = videogames
    Archivos = {consoles, videogames}
    Nombra <- Nombran
    Posiciones = {1}
    MaxPedidos <- Pedidos
    n0 = n0
    n4 = n4
    n16 = n16
    Palabras <- Palabras3
    Largo <- Largos
    Programa <- Programas
    Perdido = Perdido
    Sueltos = {p3}
    Nadie = Nadie
SPECIFICATION SpecJusta
INVARIANTS
    TypeOK
    Conversacion
    UnDuenio
    KernelVivo
    TransferenciaEnSuLugar
    PcbEntero
PROPERTIES
    TurnosCumplidos
    TodosAbren
CHECK_DEADLOCK FALSE
