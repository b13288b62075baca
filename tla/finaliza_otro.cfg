SPECIFICATION Spec
CONSTANTS
    Interfaz = {"IO1"}
    Recurso = {}
    MaxProcesos = 2
    Algoritmo = "FIFO"
    GradoInicial = 2
    Instancias <- UnaInstancia
    Llamadas <- LlamadasIO
    ProgramasFinitos = FALSE
    MaxContextos = 0
    MinAsignado = 0
    MaxAsignado = 1
    Desconexiones = {}
    Comandos = {"FINALIZAR_PROCESO"}
    MaxComandos = 1
    Grados = {}
INVARIANTS
    UnSoloLugar
CHECK_DEADLOCK FALSE
