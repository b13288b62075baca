SPECIFICATION Spec
CONSTANTS
    Interfaz = {"IO1"}
    Recurso = {"R1"}
    MaxProcesos = 2
    Algoritmo = "RR"
    GradoInicial = 2
    Instancias <- UnaInstancia
    Llamadas <- LlamadasTodas
    ProgramasFinitos = FALSE
    MaxContextos = 0
    MinAsignado = 0
    MaxAsignado = 1
    Desconexiones = {}
    Comandos = {}
    MaxComandos = 0
    Grados = {}
INVARIANTS
    TypeOK
    ContextoPropio
    ExclusionMutua
    CaidaConocida
    SoloListosCargados
PROPERTIES
    ConservaInstancias
CHECK_DEADLOCK FALSE
