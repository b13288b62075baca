SPECIFICATION Spec
CONSTANTS
    Interfaz = {"IO1"}
    Recurso = {}
    MaxProcesos = 2
    Algoritmo = "VRR"
    GradoInicial = 2
    Instancias <- UnaInstancia
    Llamadas <- LlamadasIO
    ProgramasFinitos = FALSE
    MaxContextos = 0
    MinAsignado = 0
    MaxAsignado = 1
    Desconexiones = {}
    Comandos = {"DETENER_PLANIFICACION", "MULTIPROGRAMACION"}
    MaxComandos = 2
    Grados = {1}
INVARIANTS
    UnSoloLugar
    EncoladoExacto
    NadieQuedaDetenido
    CupoAlcanza
