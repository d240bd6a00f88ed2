CONSTANTS
    TamMemoria = 4
    TamSegmento = 1
    Algoritmo = "WORST"
    MaxProcesos = 2
    MaxHuecos = 3
    Ids = {1, 2}
    Tamanios = {1, 2}
SPECIFICATION SpecTablas
INVARIANTS
    TypeOKTablas
    TraduccionFiel
    Particion
CHECK_DEADLOCK FALSE
