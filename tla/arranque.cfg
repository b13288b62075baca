SPECIFICATION Spec
CONSTANTS
    i1 = i1
    i2 = i2
    Interfaz = {i1, i2}
    Backlog = 1
    Escenarios <- Escenas
CHECK_DEADLOCK FALSE
INVARIANTS
    TypeOKArranque
    OrdenBasta
    NucleoSobrevive
    DescriptorPropio
    EsperaConocida
PROPERTIES
    CierreEnCadena
    QuedanListos
    IOVuelve
