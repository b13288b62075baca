SPECIFICATION Spec
CONSTANTS
    Interfaz = {"IO1"}
    Recurso = {}
    MaxProcesos = 2
    Algoritmo = "VRR"
    GradoInicial = 1
    Instancias <- UnaInstancia
    Llamadas <- LlamadasIO
    ProgramasFinitos = FALSE
    MaxContextos = 0
    MinAsignado = 0
    MaxAsignado = 1
    Desconexiones = {}
    Comandos = {"FINALIZAR_PROCESO", "PATH_INEXISTENTE"}
    MaxComandos = 2
    Grados = {}
INVARIANTS
    TurnoUnico
    NuncaDoble
    CupoNuncaSobra
PROPERTIES
    CupoRetenido
CHECK_DEADLOCK FALSE
