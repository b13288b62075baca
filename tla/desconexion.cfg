SPECIFICATION Spec
CONSTANTS
    Interfaz = {"IO1"}
    Recurso = {"R1"}
    MaxProcesos = 2
    Algoritmo = "FIFO"
    GradoInicial = 2
    Instancias <- UnaInstancia
    Llamadas <- LlamadasNormales
    ProgramasFinitos = FALSE
    MaxContextos = 0
    MinAsignado = 0
    MaxAsignado = 1
    Desconexiones = {"IO1"}
    Comandos = {}
    MaxComandos = 0
    Grados = {}
INVARIANTS
    Invariante
    CupoExacto
PROPERTIES
    ImplementaDiagrama
CHECK_DEADLOCK FALSE
