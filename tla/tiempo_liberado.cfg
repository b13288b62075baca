SPECIFICATION Spec
CONSTANTS
    Interfaz = {}
    Recurso = {"R1"}
    MaxProcesos = 2
    Algoritmo = "VRR"
    GradoInicial = 2
    Instancias <- UnaInstancia
    Llamadas <- LlamadasRecursos
    ProgramasFinitos = FALSE
    MaxContextos = 0
    MinAsignado = 0
    MaxAsignado = 1
    Desconexiones = {}
    Comandos = {}
    MaxComandos = 0
    Grados = {}
INVARIANTS
    TiempoContado
CHECK_DEADLOCK FALSE
