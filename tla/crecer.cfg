CONSTANTS
    Archivos = {a, b}
    CantBloques = 8
    TamBloque = 3
    Punteros = 2
    Cambios <- Crecer
    Nadie = Nadie
SPECIFICATION Spec
INVARIANT SinBloquesCompartidos
CHECK_DEADLOCK FALSE
