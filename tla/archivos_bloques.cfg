CONSTANTS
    Archivos = {a, b, c}
    CantBloques = 8
    TamBloque = 3
    Punteros = 2
    Cambios <- DesdeVacio
    Nadie = Nadie
SPECIFICATION Spec
INVARIANTS
    TypeOK
    SinBloquesCompartidos
    BitmapFiel
    BloqueIntacto
    AccesoExacto
PROPERTY SoloPorFaltaDeBloques
CHECK_DEADLOCK FALSE
