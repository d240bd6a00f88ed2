CONSTANTS
    Archivos = {a, b}
    CantBloques = 8
    TamBloque = 3
    Punteros = 2
    Cambios <- DesdeVacio
    Nadie = Nadie
SPECIFICATION SpecConReinicio
INVARIANT SinBloquesCompartidos
CHECK_DEADLOCK FALSE
