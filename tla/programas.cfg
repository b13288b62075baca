SPECIFICATION SpecProgramas
CONSTANTS
    Proceso = {1, 2}
    TamMemoria = 8
    TamPagina = 2
    CharBit = 2
    ConArchivo = {1, 2}
    cantidad_entradas = 2
    algoritmo_tlb = "FIFO"
    MaxReloj = 0
    Instrucciones <- Posibles
    MaxOrdenes = 1
    Base = 4
    Ancho = 2
    Casos <- CasosMC
INVARIANTS
    TypeOKProgramas
PROPERTIES
    CadaUnoEnLoSuyo
