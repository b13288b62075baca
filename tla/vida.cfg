SPECIFICATION SpecJusta
CONSTANTS
    Interfaz = {"IO1"}
    Recurso = {"R1"}
    MaxProcesos = 2
    Algoritmo = "RR"
    GradoInicial = 1
    Instancias <- UnaInstancia
    Llamadas <- LlamadasTodas
    ProgramasFinitos = TRUE
    MaxContextos = 2
    MinAsignado <- MenosUno
    MaxAsignado = 0
    Desconexiones = {}
    Comandos = {}
    MaxComandos = 0
    Grados = {}
PROPERTIES
    TodosTerminan
