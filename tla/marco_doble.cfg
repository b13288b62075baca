SPECIFICATION Spec
CONSTANTS
    Proceso = {p1, p2}
    TamMemoria = 4
    TamPagina = 2
    CharBit = 2
    ConArchivo = {p1, p2}
    cantidad_entradas = 2
    algoritmo_tlb = "LRU"
    MaxReloj = 1
    Instrucciones <- Programa
    MaxOrdenes = 2
SYMMETRY Simetria
INVARIANTS
    LibreSinDueno
