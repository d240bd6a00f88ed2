CONSTANTS
    TamMemoria = 5
    TamSegmento = 1
    Algoritmo = "BEST"
    MaxProcesos = 2
    MaxHuecos = 3
    Ids = {1, 2}
    Tamanios = {1, 2}
SPECIFICATION Spec
INVARIANT SinSolapes
CHECK_DEADLOCK FALSE
