CONSTANTS
    TamMemoria = 5
    TamSegmento = 1
    Algoritmo = "FIRST"
    MaxProcesos = 2
    MaxHuecos = 3
    Ids = {1, 2}
    Tamanios = {1, 2}
SPECIFICATION Spec
INVARIANTS
    TypeOK
    Particion
    ReintentoEntra
    ContenidoIntacto
    SinRestos
PROPERTIES
    PromesaCumplida
CHECK_DEADLOCK FALSE
