SPECIFICATION SpecFS
CONSTANTS
    Nombres = {a, b, c}
    cantidad_bloques = 4
    tamanio_bloques = 2
    BitsPorByte = 4
    Tamanios = {0, 1, 3, 5}
    Punteros = {0, 1}
    Largos = {2}
SYMMETRY Simetria
INVARIANTS
    TypeOKFS
    BloquesExactos
PROPERTIES
    TextoIntacto
    TruncaSiHayLugar
    CaidaAcotada
