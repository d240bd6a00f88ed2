CONSTANTS
    TamMemoria = 4
    TamSegmento = 1
    Algoritmo = "FIRST"
    MaxProcesos = 2
    MaxHuecos = 3
    Ids = {1, 2}
    Tamanios = {1, 2}
SPECIFICATION SpecTablas
INVARIANT ContextoActualizado
CHECK_DEADLOCK FALSE
