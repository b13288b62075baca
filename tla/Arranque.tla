------------------------------- MODULE Arranque -------------------------------
(***************************************************************************)
(* How memoria, cpu, kernel and the interfaces find each other, work and    *)
(* come down: the order in which main() of each program listens, connects  *)
(* and accepts, the handshakes, the thread that each connection gets, one   *)
(* process that goes round the programs, and what every program does when   *)
(* the other end of a socket is gone.                                      *)
(*                                                                         *)
(* A socket is a pair of queues of messages.  What was sent before an end   *)
(* closed can still be read; the first send after the other end closed may  *)
(* be lost or fail, and the following ones fail.  A connect waits while the *)
(* queue of the port is full, without the timeout of the system.            *)
(***************************************************************************)
EXTENDS Naturals, Sequences, FiniteSets

CONSTANTS
    Interfaz,            \* the interfaces there may be
    Backlog,             \* how many connections a port keeps unaccepted
    Escenarios           \* the situations of the run: of each, the interfaces in
                         \* use with the TIPO_INTERFAZ of their configs, whether
                         \* programs are started before their turn, which ones
                         \* may be ended from outside (one at most: bound), and
                         \* whether processes ask for what cannot be served

Modulos == {"memoria", "cpu", "kernel"} \cup Interfaz
Tipos == {"GENERICA", "STDIN", "STDOUT", "DIALFS", "SIN_USAR"}

ASSUME CotasArranque ==
    /\ Escenarios \subseteq [tipo : [Interfaz -> Tipos], desorden : BOOLEAN,
                            mueren : SUBSET Modulos, errores : BOOLEAN]
    /\ Backlog \in Nat \ {0}
    /\ IsFiniteSet(Interfaz)
    /\ Interfaz \cap {"memoria", "cpu", "kernel"} = {}

VARIABLES
    escenario,           \* the one of this behaviour
    vida,                \* of each program: "apagado", "corre", "fin"
    paso,                \* where in its Guion its main thread is
    pendientes,          \* of each port: connections not accepted yet
    buzon,               \* of each connection and end: what it has to read
    cerrado,             \* of each connection: the ends that closed it
    roto,                \* of each connection: the ends told that it is broken
    hilo,                \* of each connection of an interface: its thread
    fd,                  \* of each interface: the descriptor of its connection
                         \* to the kernel, there
    tabla,               \* the descriptors of the kernel: whose they are
    proceso,             \* where the process is, as the kernel sees it
    destino,             \* the connection of the interface it waits for
    ciclo,               \* hilo_ciclo_instruccion of the CPU
    turno,               \* the loop of each interface
    desorden,            \* history: a program started before its turn
    matados,             \* history: the programs ended from outside
    fallados,            \* history: those that fell over a request of a process
    desconocio           \* history: the memory answered MEMORY_INVALID_PID

redVars == << pendientes, buzon, cerrado, roto >>
fdVars == << fd, tabla >>
nucleoVars == << proceso, destino >>
inicioVars == << escenario, desorden, matados >>
historia == << inicioVars, fallados, desconocio >>
vars == << vida, paso, redVars, hilo, fdVars, nucleoVars, ciclo, turno, historia >>

\* A connection is the program that starts it and the port it calls.
CpuMemoria == << "cpu", "memoria" >>
KernelMemoria == << "kernel", "memoria" >>
KernelDispatch == << "kernel", "dispatch" >>
KernelInterrupt == << "kernel", "interrupt" >>
IOKernel(i) == << i, "kernel" >>
IOMemoria(i) == << i, "memoria" >>
DeInterfaz == { IOKernel(i) : i \in Interfaz } \cup
              { IOMemoria(i) : i \in Interfaz }
Conexiones == {CpuMemoria, KernelMemoria, KernelDispatch, KernelInterrupt}
              \cup DeInterfaz
Puertos == {"memoria", "dispatch", "interrupt", "kernel"}
Cliente(c) == c[1]
Servidor(puerto) == IF puerto \in {"dispatch", "interrupt"} THEN "cpu" ELSE puerto
Programa(c, lado) == IF lado = "c" THEN Cliente(c) ELSE Servidor(c[2])
Lados == {"c", "s"}
Otro(lado) == CHOOSE x \in Lados : x # lado

\* What the main thread of each program does, step by step.
Conectarse(c) == << << "connect", c >>, << "saluda", c >>, << "respuesta", c >> >>
\* Mutant: the kernel calls the port of the interruptions first.
InterruptAntes ==
    Conectarse(KernelMemoria) \o Conectarse(KernelInterrupt)
    \o Conectarse(KernelDispatch) \o << << "escucha", "kernel" >> >>
GuionKernel ==
    Conectarse(KernelMemoria) \o Conectarse(KernelDispatch)
    \o Conectarse(KernelInterrupt) \o << << "escucha", "kernel" >> >>
GuionCpu ==
    Conectarse(CpuMemoria) \o
    << << "recibe_tam", CpuMemoria >>, << "escucha", "dispatch" >>,
       << "escucha", "interrupt" >>, << "espera", KernelDispatch >>,
       << "espera", KernelInterrupt >> >>
\* Mutant: the memory waits for the kernel before the CPU.
EsperaKernelAntes ==
    << << "escucha", "memoria" >>, << "espera", KernelMemoria >>,
       << "espera", CpuMemoria >>, << "envia_tam", CpuMemoria >> >>
GuionMemoria ==
    << << "escucha", "memoria" >>, << "espera", CpuMemoria >>,
       << "envia_tam", CpuMemoria >>, << "espera", KernelMemoria >> >>
GuionInterfaz(i, tipo) ==
    LET nombre == << << "nombre", IOKernel(i) >> >>
    IN  CASE tipo = "DIALFS" -> Conectarse(IOKernel(i)) \o nombre \o Conectarse(IOMemoria(i))
          [] tipo \in {"STDIN", "STDOUT"} ->
                Conectarse(IOKernel(i)) \o Conectarse(IOMemoria(i)) \o nombre
          [] OTHER -> Conectarse(IOKernel(i)) \o nombre
Guiones == [memoria |-> GuionMemoria, cpu |-> GuionCpu, kernel |-> GuionKernel]
GuionesIO == [i \in Interfaz |-> [tipo \in Tipos |-> GuionInterfaz(i, tipo)]]
Tipo(i) == escenario.tipo[i]
Guion(m) == IF m \in Interfaz THEN GuionesIO[m][Tipo(m)] ELSE Guiones[m]

Libre == << >>
Fds == 1..Cardinality(Interfaz)

Init ==
    /\ escenario \in Escenarios
    /\ vida = [m \in Modulos |-> "apagado"]
    /\ paso = [m \in Modulos |-> 1]
    /\ pendientes = [p \in Puertos |-> << >>]
    /\ buzon = [c \in Conexiones |-> [l \in Lados |-> << >>]]
    /\ cerrado = [c \in Conexiones |-> {}]
    /\ roto = [c \in Conexiones |-> {}]
    /\ hilo = [c \in DeInterfaz |-> "ninguno"]
    /\ fd = [i \in Interfaz |-> 0]
    /\ tabla = [n \in Fds |-> Libre]
    /\ proceso = "ninguno" /\ destino = Libre
    /\ ciclo = "espera"
    /\ turno = [i \in Interfaz |-> "espera"]
    /\ desorden = FALSE /\ matados = {}
    /\ fallados = {} /\ desconocio = FALSE

(***************************************************************************)
(* Sockets.                                                                *)
(***************************************************************************)
EnFuncion(m) == vida[m] = "corre"
Listo(m) == EnFuncion(m) /\ paso[m] > Len(Guion(m))
Escucha(puerto) ==
    /\ EnFuncion(Servidor(puerto))
    /\ \E k \in 1..(paso[Servidor(puerto)] - 1) :
          Guion(Servidor(puerto))[k] = << "escucha", puerto >>

\* recv gives a message, or that there will be none
HayMensaje(c, lado, msg) ==
    /\ lado \notin cerrado[c]
    /\ buzon[c][lado] # << >>
    /\ Head(buzon[c][lado]) = msg
Agotada(c, lado) ==
    \/ lado \in cerrado[c]
    \/ buzon[c][lado] = << >> /\ Otro(lado) \in cerrado[c]
Recibe(c, lado, msg) ==
    /\ HayMensaje(c, lado, msg)
    /\ buzon' = [buzon EXCEPT ![c][lado] = Tail(@)]

Entrega(b, c, lado, msg) ==
    IF Otro(lado) \in cerrado[c] THEN b
    ELSE [b EXCEPT ![c][Otro(lado)] = Append(@, msg)]
PuedeEnviar(c, lado) == lado \notin cerrado[c] /\ lado \notin roto[c]
Avisada(c, lado) ==
    roto' = [roto EXCEPT ![c] = IF Otro(lado) \in cerrado[c] THEN @ \cup {lado} ELSE @]
Envia(c, lado, msg) ==
    /\ PuedeEnviar(c, lado)
    /\ buzon' = Entrega(buzon, c, lado, msg)
    /\ Avisada(c, lado)
\* An end that closes with messages unread breaks the connection at once; if
\* not, the other end learns it with its first send.
NoEnvia(c, lado) ==
    \/ lado \in cerrado[c] \cup roto[c]
    \/ Otro(lado) \in cerrado[c] /\ buzon[c][Otro(lado)] # << >>
\* reads msg and answers on the same socket
Contesta(c, lado, msg, respuesta) ==
    /\ HayMensaje(c, lado, msg)
    /\ PuedeEnviar(c, lado)
    /\ buzon' = Entrega([buzon EXCEPT ![c][lado] = Tail(@)], c, lado, respuesta)
    /\ Avisada(c, lado)

Cierra(c, lado) == cerrado' = [cerrado EXCEPT ![c] = @ \cup {lado}]
\* exit, return from main, or a signal: every socket of the program closes
Termina(m) ==
    /\ vida' = [vida EXCEPT ![m] = "fin"]
    /\ cerrado' = [c \in Conexiones |->
                     cerrado[c] \cup { l \in Lados : Programa(c, l) = m }]
\* It could not serve what a process asked for, and exits or crashes.
Falla(m) == escenario.errores /\ Termina(m) /\ fallados' = fallados \cup {m}
Respuestas(bien, mal) == {bien} \cup IF escenario.errores THEN {mal} ELSE {}

(***************************************************************************)
(* The main threads.                                                       *)
(***************************************************************************)
Toca(m, verbo, c) == Guion(m)[paso[m]] = << verbo, c >>
Sigue(m) == paso' = [paso EXCEPT ![m] = @ + 1] /\ UNCHANGED << vida, cerrado >>
SeRinde(m) == Termina(m) /\ UNCHANGED paso
SinRed == UNCHANGED << pendientes, buzon, roto >>
SoloMain == UNCHANGED << hilo, fdVars, nucleoVars, ciclo, turno, historia >>

\* The order in which the programs have to be started.
EnTurno(m) == CASE m = "memoria" -> TRUE
                [] m = "cpu" -> Escucha("memoria")
                [] m = "kernel" -> Escucha("dispatch") /\ Escucha("interrupt")
                [] OTHER -> Escucha("kernel")

Lanza(m) ==
    /\ vida[m] = "apagado"
    /\ vida' = [vida EXCEPT ![m] = "corre"]
    /\ m \in Interfaz => Tipo(m) # "SIN_USAR"
    /\ escenario.desorden \/ EnTurno(m)
    /\ desorden' = (desorden \/ ~EnTurno(m))
    /\ UNCHANGED << paso, redVars, hilo, fdVars, nucleoVars, ciclo, turno,
                    escenario, matados, fallados, desconocio >>

\* A program is killed, or the console of the kernel reads "exit".
Mata(m) ==
    /\ EnFuncion(m)
    /\ matados = {} /\ m \in escenario.mueren
    /\ matados' = {m}
    /\ Termina(m)
    /\ SinRed
    /\ UNCHANGED << paso, hilo, fdVars, nucleoVars, ciclo, turno, escenario, desorden,
                    fallados, desconocio >>

\* iniciar_servidor
Escuchar(m, puerto) == Toca(m, "escucha", puerto) /\ Sigue(m) /\ SinRed /\ SoloMain

\* crear_conexion
Connect(m, c) ==
    /\ Toca(m, "connect", c)
    /\ IF Escucha(c[2])
       THEN /\ Len(pendientes[c[2]]) <= Backlog
            /\ pendientes' = [pendientes EXCEPT ![c[2]] = Append(@, c)]
            /\ Sigue(m)
       ELSE SeRinde(m) /\ UNCHANGED pendientes
    /\ UNCHANGED << buzon, roto >> /\ SoloMain

\* handshake_con_servidor, up to its send
Saluda(m, c) ==
    /\ Toca(m, "saluda", c)
    /\ \/ Envia(c, "c", "saludo") /\ Sigue(m)
       \/ NoEnvia(c, "c") /\ SeRinde(m) /\ UNCHANGED << buzon, roto >>
    /\ UNCHANGED pendientes /\ SoloMain

\* and its recv: when it gives 0 the answer is whatever result held.
Respuesta(m, c) ==
    /\ Toca(m, "respuesta", c)
    /\ \/ Recibe(c, "c", "0") /\ Sigue(m)
       \/ Agotada(c, "c") /\ UNCHANGED buzon /\ (Sigue(m) \/ SeRinde(m))
    /\ UNCHANGED << pendientes, roto >> /\ SoloMain

\* esperar_conexion_de: whoever is first at the port is answered 0, and is
\* compared with the expected kind only then.
Espera(m, c) ==
    /\ Toca(m, "espera", c)
    /\ pendientes[c[2]] # << >>
    /\ LET d == Head(pendientes[c[2]])
       IN  \/ /\ Contesta(d, "s", "saludo", "0")
              /\ IF d = c THEN Sigue(m) ELSE SeRinde(m)
           \/ Agotada(d, "s") /\ SeRinde(m) /\ UNCHANGED << buzon, roto >>
    /\ pendientes' = [pendientes EXCEPT ![c[2]] = Tail(@)]
    /\ SoloMain

\* enviarTamPagina and enviar_nombre_interfaz
MandaDato(m, c, verbo, lado, msg) ==
    /\ Toca(m, verbo, c)
    /\ \/ Envia(c, lado, msg) /\ Sigue(m)
       \/ NoEnvia(c, lado) /\ SeRinde(m) /\ UNCHANGED << buzon, roto >>
    /\ UNCHANGED pendientes /\ SoloMain
EnviaTamPagina == MandaDato("memoria", CpuMemoria, "envia_tam", "s", "tam")
EnviaNombre(i) == MandaDato(i, IOKernel(i), "nombre", "c", "nombre")

ObtieneTamPagina ==
    /\ Toca("cpu", "recibe_tam", CpuMemoria)
    /\ \/ Recibe(CpuMemoria, "c", "tam") /\ Sigue("cpu")
       \/ Agotada(CpuMemoria, "c") /\ SeRinde("cpu") /\ UNCHANGED buzon
    /\ UNCHANGED << pendientes, roto >> /\ SoloMain

Main(m) ==
    /\ EnFuncion(m) /\ ~Listo(m)
    /\ LET c == Guion(m)[paso[m]][2]
       IN  \/ Escuchar(m, c) \/ Connect(m, c) \/ Saluda(m, c) \/ Respuesta(m, c)
           \/ Espera(m, c)
           \/ m = "memoria" /\ EnviaTamPagina
           \/ m = "cpu" /\ ObtieneTamPagina
           \/ m \in Interfaz /\ EnviaNombre(m)

(***************************************************************************)
(* The threads that accept interfaces, in the memory and in the kernel, and *)
(* the thread of each connection.  A thread of the kernel knows its         *)
(* connection by the number of the descriptor only.  A close is seen at     *)
(* once, also by a thread that was waiting in recv.                        *)
(***************************************************************************)
SoloHilo == UNCHANGED << nucleoVars, ciclo, turno, historia >>
Sigan == UNCHANGED << vida, paso >>

\* aceptar_interfaces of the memory
AceptaMemoria ==
    /\ Listo("memoria")
    /\ pendientes["memoria"] # << >>
    /\ hilo' = [hilo EXCEPT ![Head(pendientes["memoria"])] = "saludo"]
    /\ pendientes' = [pendientes EXCEPT !["memoria"] = Tail(@)]
    /\ Sigan /\ UNCHANGED << buzon, cerrado, roto, fdVars >> /\ SoloHilo

\* aceptar_interfaces of the kernel: accept takes the lowest free descriptor
AceptaKernel ==
    /\ Listo("kernel")
    /\ pendientes["kernel"] # << >>
    /\ LET c == Head(pendientes["kernel"])
           n == CHOOSE x \in Fds : /\ tabla[x] = Libre
                                   /\ \A y \in Fds : tabla[y] = Libre => x <= y
       IN  /\ hilo' = [hilo EXCEPT ![c] = "saludo"]
           /\ fd' = [fd EXCEPT ![Cliente(c)] = n]
           /\ tabla' = [tabla EXCEPT ![n] = c]
    /\ pendientes' = [pendientes EXCEPT !["kernel"] = Tail(@)]
    /\ Sigan /\ UNCHANGED << buzon, cerrado, roto >> /\ SoloHilo

\* The connection that the thread of c reads and writes.
Real(c) == IF c[2] = "kernel" THEN tabla[fd[Cliente(c)]] ELSE c
RecibeHilo(c, msg) == Real(c) # Libre /\ Recibe(Real(c), "s", msg)
SinMas(c) == Real(c) # Libre => Agotada(Real(c), "s")
\* close(conexion): of whoever has the number now
CierraHilo(c) ==
    /\ IF Real(c) = Libre THEN UNCHANGED cerrado ELSE Cierra(Real(c), "s")
    /\ IF c[2] = "kernel" THEN tabla' = [tabla EXCEPT ![fd[Cliente(c)]] = Libre]
                           ELSE UNCHANGED tabla
    /\ UNCHANGED fd
Pasa(c, estado) == hilo' = [hilo EXCEPT ![c] = estado]

\* handshake_con_interfaz
HiloSaluda(c) ==
    /\ EnFuncion(Servidor(c[2])) /\ hilo[c] = "saludo"
    /\ \/ /\ Real(c) # Libre /\ Contesta(Real(c), "s", "saludo", "0")
          /\ Pasa(c, IF c[2] = "kernel" THEN "nombre" ELSE "sirve")
          /\ UNCHANGED << cerrado, fdVars >>
       \/ /\ SinMas(c) /\ CierraHilo(c) /\ Pasa(c, "fin")
          /\ UNCHANGED << buzon, roto >>
    /\ Sigan /\ UNCHANGED pendientes /\ SoloHilo

\* Mutant: the socket is closed once the name was read.
NombreYCierra(c) ==
    /\ EnFuncion("kernel") /\ hilo[c] = "nombre"
    /\ \/ RecibeHilo(c, "nombre") /\ Pasa(c, "sirve") /\ UNCHANGED vida /\ Cierra(c, "s")
       \/ SinMas(c) /\ Termina("kernel") /\ UNCHANGED << hilo, buzon >>
    /\ UNCHANGED << paso, pendientes, roto, fdVars >> /\ SoloHilo
\* recibir_nombre_interfaz: without a name the kernel exits
HiloNombre(c) ==
    /\ EnFuncion("kernel") /\ hilo[c] = "nombre"
    /\ \/ RecibeHilo(c, "nombre") /\ Pasa(c, "sirve") /\ UNCHANGED << vida, cerrado >>
       \/ SinMas(c) /\ Termina("kernel") /\ UNCHANGED << hilo, buzon >>
    /\ UNCHANGED << paso, pendientes, roto, fdVars >> /\ SoloHilo

\* manejar_instrucciones_stdin, _stdout and _dialfs of the memory: an access
\* out of its bounds is refused
MemoriaInterfaz(c) ==
    /\ EnFuncion("memoria") /\ c[2] = "memoria" /\ hilo[c] = "sirve"
    /\ \/ /\ \E res \in Respuestas("dato", "invalido") : Contesta(c, "s", "pide", res)
          /\ UNCHANGED << hilo, cerrado >>
       \/ /\ Agotada(c, "s") /\ Cierra(c, "s") /\ Pasa(c, "fin")
          /\ UNCHANGED << buzon, roto >>
    /\ Sigan /\ UNCHANGED << pendientes, fdVars >> /\ SoloHilo

(***************************************************************************)
(* The kernel at work, with one process at a time.                          *)
(***************************************************************************)
Nucleo(en) == Listo("kernel") /\ proceso = en
Va(en) == proceso' = en
SigueKernel == UNCHANGED << vida, cerrado >>
SinTocar == UNCHANGED << paso, pendientes, hilo, fdVars, ciclo, turno, historia >>
SinTocarNada == UNCHANGED << paso, pendientes, hilo, fdVars, ciclo, turno, inicioVars >>

\* Mutant: the process is asked for and forgotten.
CreaSinEsperar ==
    /\ Nucleo("ninguno")
    /\ \/ Envia(KernelMemoria, "c", "crea") /\ Va("ninguno") /\ SigueKernel
       \/ /\ NoEnvia(KernelMemoria, "c") /\ Termina("kernel")
          /\ UNCHANGED << proceso, buzon, roto >>
    /\ UNCHANGED destino /\ SinTocar
\* crear_proceso_en_memoria
KernelCrea ==
    /\ Nucleo("ninguno")
    /\ \/ Envia(KernelMemoria, "c", "crea") /\ Va("pedido") /\ SigueKernel
       \/ /\ NoEnvia(KernelMemoria, "c") /\ Termina("kernel")
          /\ UNCHANGED << proceso, buzon, roto >>
    /\ UNCHANGED destino /\ SinTocar

\* esperar_confirmacion_memoria only knows MEMORY_INVALID_PATH from the rest:
\* the -1 of a memory that is gone lets the process through.
KernelConfirma ==
    /\ Nucleo("pedido")
    /\ \/ Recibe(KernelMemoria, "c", "ok") /\ UNCHANGED cerrado
       \/ /\ Agotada(KernelMemoria, "c") /\ Cierra(KernelMemoria, "c")
          /\ UNCHANGED buzon
    /\ Va("READY")
    /\ UNCHANGED << vida, roto, destino >> /\ SinTocar

\* MEMORY_INVALID_PATH: the kernel exits.
KernelSinPath ==
    /\ Nucleo("pedido")
    /\ Recibe(KernelMemoria, "c", "no_existe")
    /\ Falla("kernel")
    /\ UNCHANGED << roto, proceso, destino, desconocio >> /\ SinTocarNada

\* A kernel with a process dies in the other places that CaidaConocida names,
\* or over a FINALIZAR_PROCESO: Kernel.tla says when.
KernelCae ==
    /\ Listo("kernel") /\ proceso # "ninguno"
    /\ Falla("kernel")
    /\ UNCHANGED << buzon, roto, proceso, destino, desconocio >> /\ SinTocarNada

\* send_pcb: when it fails the thread of the dispatcher ends, and only it
KernelDespacha ==
    /\ Nucleo("READY")
    /\ \/ Envia(KernelDispatch, "c", "pcb") /\ Va("EXEC")
       \/ NoEnvia(KernelDispatch, "c") /\ Va("sin_hilo") /\ UNCHANGED << buzon, roto >>
    /\ SigueKernel /\ UNCHANGED destino /\ SinTocar

Registradas == { i \in Interfaz : hilo[IOKernel(i)] \in {"sirve", "resultado"} }

\* recibir_contexto, and what each kind of context leads to
KernelContexto ==
    /\ Nucleo("EXEC")
    /\ \/ /\ Recibe(KernelDispatch, "c", "vuelve") /\ Va("READY")
          /\ UNCHANGED destino /\ SigueKernel
       \/ /\ Recibe(KernelDispatch, "c", "exit") /\ Va("termina")
          /\ UNCHANGED destino /\ SigueKernel
       \/ /\ Recibe(KernelDispatch, "c", "io") /\ SigueKernel
          /\ IF Registradas = {}
             THEN Va("termina") /\ UNCHANGED destino
             ELSE Va("BLOCKED") /\ destino' \in { IOKernel(i) : i \in Registradas }
       \/ /\ Agotada(KernelDispatch, "c") /\ Termina("kernel")
          /\ UNCHANGED << proceso, destino, buzon >>
    /\ UNCHANGED roto /\ SinTocar

\* finalizar_proceso_en_memoria
FinalizaEnMemoria ==
    \/ Envia(KernelMemoria, "c", "term") /\ Va("ninguno") /\ SigueKernel
    \/ /\ NoEnvia(KernelMemoria, "c") /\ Termina("kernel")
       /\ UNCHANGED << proceso, buzon, roto >>
KernelTermina ==
    /\ Nucleo("termina")
    /\ FinalizaEnMemoria
    /\ UNCHANGED destino /\ SinTocar

\* thread_hilo_quantum and FINALIZAR_PROCESO: enviar_operacion.  One order at
\* a time waits to be read (bound).
KernelOrdena ==
    /\ Nucleo("EXEC")
    /\ \/ /\ buzon[KernelInterrupt]["s"] = << >>
          /\ Envia(KernelInterrupt, "c", "orden") /\ SigueKernel
       \/ /\ NoEnvia(KernelInterrupt, "c") /\ Termina("kernel")
          /\ UNCHANGED << buzon, roto >>
    /\ UNCHANGED nucleoVars /\ SinTocar

\* manejar_interfaz of the kernel, one turn: ejecutar_IO does not look at how
\* its send went.
SinMain == UNCHANGED << paso, pendientes, ciclo, turno, historia >>
HiloPide(c) ==
    /\ EnFuncion("kernel") /\ hilo[c] = "sirve"
    /\ proceso = "BLOCKED" /\ destino = c
    /\ \/ Real(c) # Libre /\ Envia(Real(c), "s", "io")
       \/ /\ Real(c) # Libre => NoEnvia(Real(c), "s")
          /\ UNCHANGED << buzon, roto >>
    /\ Pasa(c, "resultado")
    /\ SigueKernel /\ UNCHANGED << fdVars, nucleoVars >> /\ SinMain

\* Mutant: the kernel exits when an interface does not answer.
ResultadoOSale(c) ==
    /\ EnFuncion("kernel") /\ hilo[c] = "resultado"
    /\ \/ RecibeHilo(c, "ok") /\ Pasa(c, "sirve") /\ Va("READY") /\ SigueKernel
       \/ SinMas(c) /\ Termina("kernel") /\ UNCHANGED << hilo, proceso, buzon >>
    /\ UNCHANGED << roto, destino, fdVars >> /\ SinMain
\* Mutant: the kernel waits again for an interface that did not answer.
ResultadoOInsiste(c) ==
    /\ EnFuncion("kernel") /\ hilo[c] = "resultado"
    /\ RecibeHilo(c, "ok") /\ Pasa(c, "sirve") /\ Va("READY") /\ SigueKernel
    /\ UNCHANGED << roto, destino, fdVars >> /\ SinMain
\* recibir_operacion closes the descriptor when nothing came
HiloResultado(c) ==
    /\ EnFuncion("kernel") /\ hilo[c] = "resultado"
    /\ \/ /\ RecibeHilo(c, "ok") /\ Pasa(c, "sirve") /\ Va("READY")
          /\ UNCHANGED << cerrado, fdVars >>
       \/ /\ SinMas(c) /\ CierraHilo(c) /\ Pasa(c, "libera")
          /\ UNCHANGED << proceso, buzon >>
    /\ UNCHANGED << vida, roto, destino >> /\ SinMain

\* liberar_proceso_bloqueado
HiloLibera(c) ==
    /\ EnFuncion("kernel") /\ hilo[c] = "libera"
    /\ FinalizaEnMemoria
    /\ Pasa(c, "cierra")
    /\ UNCHANGED << destino, fdVars >> /\ SinMain

\* thread_handshake_con_interfaz closes it again
HiloCierra(c) ==
    /\ EnFuncion("kernel") /\ hilo[c] = "cierra"
    /\ CierraHilo(c) /\ Pasa(c, "fin")
    /\ UNCHANGED << vida, buzon, roto, nucleoVars >> /\ SinMain

(***************************************************************************)
(* The CPU.                                                                *)
(***************************************************************************)
Ciclo(desde) == Listo("cpu") /\ ciclo = desde
SoloCpu == UNCHANGED << paso, pendientes, hilo, fdVars, nucleoVars, turno, historia >>
SoloCiclo == UNCHANGED << paso, pendientes, hilo, fdVars, nucleoVars, turno, inicioVars >>
SigueCpu == UNCHANGED << vida, cerrado >>

\* receive_pcb: the thread of the cycle ends when there is no kernel
CicloRecibe ==
    /\ Ciclo("espera")
    /\ \/ Recibe(KernelDispatch, "s", "pcb") /\ ciclo' = "pide"
       \/ Agotada(KernelDispatch, "s") /\ ciclo' = "muerto" /\ UNCHANGED buzon
    /\ SigueCpu /\ UNCHANGED roto /\ SoloCpu

\* solicitar_intruccion ends its thread, solicitarMarco the program
CicloPide ==
    /\ Ciclo("pide")
    /\ \/ Envia(CpuMemoria, "c", "pide") /\ ciclo' = "memoria" /\ SigueCpu
       \/ /\ NoEnvia(CpuMemoria, "c") /\ UNCHANGED << buzon, roto >>
          /\ \/ ciclo' = "muerto" /\ SigueCpu
             \/ ciclo' = "muerto" /\ Termina("cpu")
    /\ SoloCpu

\* Without an answer recibir_instruccion ends its thread and recibirMarco the
\* program; a RESIZE takes the -1 for a success and an access is given up, and
\* an interruption may still be answered after either.
CicloMemoria ==
    /\ Ciclo("memoria")
    /\ \/ /\ Recibe(CpuMemoria, "c", "dato") /\ SigueCpu
          /\ ciclo' \in {"pide", "contesta"}
       \/ /\ Agotada(CpuMemoria, "c") /\ UNCHANGED buzon
          /\ \/ ciclo' \in {"muerto", "desaloja"} /\ SigueCpu
             \/ ciclo' = "muerto" /\ Termina("cpu")
    /\ UNCHANGED roto /\ SoloCpu

\* MEMORY_INVALID_PID, or a page or an address that the process does not have:
\* a fetch ends its thread, a translation (mmu.c:46) the program, and an access
\* is given up.
CicloRechazado ==
    /\ Ciclo("memoria")
    /\ \E msg \in {"desconoce", "invalido"} :
          /\ Recibe(CpuMemoria, "c", msg)
          /\ \/ msg = "desconoce" /\ ciclo' = "muerto" /\ SigueCpu /\ UNCHANGED fallados
             \/ ciclo' = "muerto" /\ Falla("cpu")
             \/ /\ msg = "invalido" /\ ciclo' \in {"pide", "contesta"}
                /\ SigueCpu /\ UNCHANGED fallados
    /\ UNCHANGED << roto, desconocio >> /\ SoloCiclo

\* A RESIZE reads the operation of that answer, which is not OUT_OF_MEMORY, and
\* leaves the rest in the socket: the next fetch takes it for the head of its
\* own answer, and its thread ends or waits for ever.
CicloDesfasado ==
    /\ Ciclo("memoria")
    /\ \/ /\ HayMensaje(CpuMemoria, "c", "desconoce")
          /\ buzon' = [buzon EXCEPT ![CpuMemoria]["c"] = << "resto" >> \o Tail(@)]
          /\ ciclo' \in {"pide", "contesta"}
       \/ Recibe(CpuMemoria, "c", "resto") /\ ciclo' = "muerto"
    /\ SigueCpu /\ UNCHANGED roto /\ SoloCpu

\* Mutant: the thread of the cycle ends with its first context.
ContestaYTermina ==
    /\ Listo("cpu") /\ ciclo \in {"contesta", "desaloja"}
    /\ \/ /\ \E msg \in {"exit", "io", "vuelve"} : Envia(KernelDispatch, "s", msg)
          /\ SigueCpu
       \/ NoEnvia(KernelDispatch, "s") /\ Termina("cpu") /\ UNCHANGED << buzon, roto >>
    /\ ciclo' = "muerto"
    /\ SoloCpu
\* enviar_contexto: without a kernel the CPU exits
CicloContesta ==
    /\ Listo("cpu") /\ ciclo \in {"contesta", "desaloja"}
    /\ \/ /\ \E msg \in IF ciclo = "contesta" THEN {"exit", "io", "vuelve"} ELSE {"vuelve"} :
                Envia(KernelDispatch, "s", msg)
          /\ SigueCpu
       \/ NoEnvia(KernelDispatch, "s") /\ Termina("cpu") /\ UNCHANGED << buzon, roto >>
    /\ ciclo' = "espera"
    /\ SoloCpu

\* Mutant: the thread of the interruptions goes on without a kernel.
InterrupcionInsiste ==
    /\ Listo("cpu")
    /\ Recibe(KernelInterrupt, "s", "orden") /\ SigueCpu
    /\ UNCHANGED << roto, ciclo >> /\ SoloCpu
\* hilo_interrupcion: main waits for it, and ends with it
HiloInterrupcion ==
    /\ Listo("cpu")
    /\ \/ Recibe(KernelInterrupt, "s", "orden") /\ SigueCpu
       \/ Agotada(KernelInterrupt, "s") /\ Termina("cpu") /\ UNCHANGED buzon
    /\ UNCHANGED << roto, ciclo >> /\ SoloCpu

(***************************************************************************)
(* The memory.                                                             *)
(***************************************************************************)
SoloAtiende ==
    UNCHANGED << paso, pendientes, hilo, fdVars, nucleoVars, ciclo, turno, inicioVars >>
SoloMemoria == SoloAtiende /\ UNCHANGED << fallados, desconocio >>

\* thread_instrucciones_kernel: main waits for it, and ends with it
MemoriaKernel ==
    /\ Listo("memoria")
    /\ \/ /\ \E res \in Respuestas("ok", "no_existe") : Contesta(KernelMemoria, "s", "crea", res)
          /\ UNCHANGED << vida, cerrado >>
       \/ Recibe(KernelMemoria, "s", "term") /\ UNCHANGED << vida, cerrado, roto >>
       \/ Agotada(KernelMemoria, "s") /\ Termina("memoria") /\ UNCHANGED << buzon, roto >>
    /\ SoloMemoria

\* thread_instrucciones_cpu: without a CPU it ends alone.  MEMORY_INVALID_FRAME
\* and the refused accesses leave nothing behind.
MemoriaCpu ==
    /\ Listo("memoria")
    /\ \E res \in Respuestas("dato", "invalido") : Contesta(CpuMemoria, "s", "pide", res)
    /\ UNCHANGED << vida, cerrado >> /\ SoloMemoria

\* MEMORY_INVALID_PID (Maquina.tla says when a process is unknown); and a fetch
\* past the end of a program, which is a strlen of NULL.
MemoriaSinProceso ==
    /\ Listo("memoria") /\ escenario.errores
    /\ Contesta(CpuMemoria, "s", "pide", "desconoce")
    /\ desconocio' = TRUE
    /\ UNCHANGED << vida, cerrado, fallados >> /\ SoloAtiende
MemoriaSinInstruccion ==
    /\ Listo("memoria")
    /\ Recibe(CpuMemoria, "s", "pide")
    /\ Falla("memoria")
    /\ UNCHANGED << roto, desconocio >> /\ SoloAtiende
AtiendeCpu == MemoriaCpu \/ MemoriaSinProceso \/ MemoriaSinInstruccion

(***************************************************************************)
(* The loop of an interface.                                               *)
(***************************************************************************)
Turno(i, en) == Listo(i) /\ turno[i] = en
Queda(i, en) == turno' = [turno EXCEPT ![i] = en]
SigueIO == UNCHANGED << vida, cerrado >>
SoloIO == UNCHANGED << paso, pendientes, hilo, fdVars, nucleoVars, ciclo, historia >>
SoloSuyo ==
    UNCHANGED << paso, pendientes, hilo, fdVars, nucleoVars, ciclo, inicioVars, desconocio >>

\* recibir_paquete: STDIN and STDOUT answer OK also when nothing came
IORecibe(i) ==
    /\ Turno(i, "espera")
    /\ \/ /\ Recibe(IOKernel(i), "c", "io") /\ SigueIO
          /\ \/ Tipo(i) = "STDIN" /\ Queda(i, "usuario")
             \/ Tipo(i) \in {"STDOUT", "DIALFS"} /\ Queda(i, "pide")
             \/ Tipo(i) \in {"GENERICA", "DIALFS"} /\ Queda(i, "responde")
       \/ /\ Agotada(IOKernel(i), "c") /\ UNCHANGED buzon
          /\ IF Tipo(i) \in {"STDIN", "STDOUT"}
             THEN Queda(i, "responde") /\ SigueIO
             ELSE Termina(i) /\ UNCHANGED turno
    /\ UNCHANGED roto /\ SoloIO

\* A sleep of 0 (generic.c:50), a write to a file that does not exist or has no
\* blocks (dialfs.c:290 and 309): the interface exits.
IOFalla(i) ==
    /\ Turno(i, "espera") /\ Tipo(i) \in {"GENERICA", "DIALFS"}
    /\ Recibe(IOKernel(i), "c", "io")
    /\ Falla(i)
    /\ UNCHANGED << turno, roto >> /\ SoloSuyo

\* leer_texto: the user types a text of the right length
Teclea(i) ==
    /\ Turno(i, "usuario") /\ Queda(i, "pide")
    /\ SigueIO /\ UNCHANGED << buzon, roto >> /\ SoloIO

\* An access that fails is logged and answered OK; but a write of DIALFS exits.
SinMemoria(i) ==
    \/ Queda(i, "responde") /\ SigueIO
    \/ Tipo(i) = "DIALFS" /\ Termina(i) /\ UNCHANGED turno
IOPide(i) ==
    /\ Turno(i, "pide")
    /\ \/ Envia(IOMemoria(i), "c", "pide") /\ Queda(i, "memoria") /\ SigueIO
       \/ NoEnvia(IOMemoria(i), "c") /\ SinMemoria(i) /\ UNCHANGED << buzon, roto >>
    /\ SoloIO
IOMemoriaResponde(i) ==
    /\ Turno(i, "memoria")
    /\ \/ Recibe(IOMemoria(i), "c", "dato") /\ Queda(i, "responde") /\ SigueIO
       \/ Agotada(IOMemoria(i), "c") /\ SinMemoria(i) /\ UNCHANGED buzon
    /\ UNCHANGED roto /\ SoloIO

\* An access that the memory refused, in the same way.
IORechazada(i) ==
    /\ Turno(i, "memoria")
    /\ Recibe(IOMemoria(i), "c", "invalido")
    /\ \/ Queda(i, "responde") /\ SigueIO /\ UNCHANGED fallados
       \/ Tipo(i) = "DIALFS" /\ Falla(i) /\ UNCHANGED turno
    /\ UNCHANGED roto /\ SoloSuyo

\* enviar_operacion: exits when the kernel is known to be gone
IOResponde(i) ==
    /\ Turno(i, "responde")
    /\ \/ Envia(IOKernel(i), "c", "ok") /\ Queda(i, "espera") /\ SigueIO
       \/ /\ NoEnvia(IOKernel(i), "c") /\ Termina(i)
          /\ UNCHANGED << turno, buzon, roto >>
    /\ SoloIO

(***************************************************************************)
(* The system.  Threads run; nobody owes the system a start, a kill, a      *)
(* command, a process or a key.                                            *)
(***************************************************************************)
Hilo(c) ==
    \/ HiloSaluda(c) \/ MemoriaInterfaz(c)
    \/ HiloNombre(c) \/ HiloPide(c) \/ HiloResultado(c) \/ HiloLibera(c) \/ HiloCierra(c)
CicloCpu ==
    \/ CicloRecibe \/ CicloPide \/ CicloMemoria \/ CicloContesta
    \/ CicloRechazado \/ CicloDesfasado
IO(i) ==
    \/ IORecibe(i) \/ IOPide(i) \/ IOMemoriaResponde(i) \/ IOResponde(i)
    \/ IOFalla(i) \/ IORechazada(i)

\* One process, so one of these at most is enabled.
KernelTrabaja ==
    KernelConfirma \/ KernelSinPath \/ KernelDespacha \/ KernelContexto \/ KernelTermina

Next ==
    \/ \E m \in Modulos : Lanza(m) \/ Mata(m) \/ Main(m)
    \/ AceptaMemoria \/ AceptaKernel
    \/ \E c \in DeInterfaz : Hilo(c)
    \/ KernelCrea \/ KernelTrabaja \/ KernelOrdena \/ KernelCae
    \/ CicloCpu \/ HiloInterrupcion \/ MemoriaKernel \/ AtiendeCpu
    \/ \E i \in Interfaz : IO(i) \/ Teclea(i)

Equidad ==
    /\ \A m \in Modulos : WF_vars(Main(m))
    /\ WF_vars(AceptaMemoria) /\ WF_vars(AceptaKernel)
    /\ \A c \in DeInterfaz : WF_vars(Hilo(c))
    /\ WF_vars(KernelTrabaja)
    /\ WF_vars(CicloCpu) /\ WF_vars(HiloInterrupcion)
    /\ WF_vars(MemoriaKernel) /\ WF_vars(AtiendeCpu)
    /\ \A i \in Interfaz : WF_vars(IO(i))

Spec == Init /\ [][Next]_vars /\ Equidad

(***************************************************************************)
(* Properties.                                                             *)
(***************************************************************************)
Mensajes == {"saludo", "0", "tam", "nombre", "crea", "ok", "term", "pcb", "vuelve",
             "exit", "io", "orden", "pide", "dato", "no_existe", "invalido",
             "desconoce", "resto"}

\* Every variable keeps its type, and no connection ever holds more than three
\* messages for one end: no send of the protocol can block.
TypeOKArranque ==
    /\ escenario \in Escenarios
    /\ vida \in [Modulos -> {"apagado", "corre", "fin"}]
    /\ \A m \in Modulos : paso[m] \in 1..(Len(Guion(m)) + 1)
    /\ \A p \in Puertos : \A k \in 1..Len(pendientes[p]) : pendientes[p][k][2] = p
    /\ \A c \in Conexiones, l \in Lados :
          Len(buzon[c][l]) <= 3 /\ \A k \in 1..Len(buzon[c][l]) : buzon[c][l][k] \in Mensajes
    /\ cerrado \in [Conexiones -> SUBSET Lados] /\ roto \in [Conexiones -> SUBSET Lados]
    /\ hilo \in [DeInterfaz -> {"ninguno", "saludo", "nombre", "sirve", "resultado",
                                "libera", "cierra", "fin"}]
    /\ fd \in [Interfaz -> Fds \cup {0}]
    /\ tabla \in [Fds -> {Libre} \cup { IOKernel(i) : i \in Interfaz }]
    /\ proceso \in {"ninguno", "pedido", "READY", "EXEC", "BLOCKED", "termina", "sin_hilo"}
    /\ destino \in {Libre} \cup { IOKernel(i) : i \in Interfaz }
    /\ ciclo \in {"espera", "pide", "memoria", "contesta", "desaloja", "muerto"}
    /\ turno \in [Interfaz -> {"espera", "usuario", "pide", "memoria", "responde"}]
    /\ desorden \in BOOLEAN /\ matados \subseteq Modulos
    /\ fallados \subseteq Modulos /\ desconocio \in BOOLEAN

EnOrden == ~desorden /\ matados = {} /\ fallados = {}
Termino(m) == vida[m] = "fin"
TerminoListo(m) == Termino(m) /\ paso[m] > Len(Guion(m))

\* The order memoria, cpu, kernel, interfaces is enough: if each program is
\* started when the one before listens (servidor.c:79 compares who comes with
\* who is expected) and nobody is killed, the first program that ends is one
\* that was in its loop and fell over a request of a process: an interface
\* (generic.c:50, dialfs.c:290, 309 and 317), the CPU at a page fault
\* (mmu.c:46), the memory past the end of a program
\* (manejar_instrucciones.c:315), or the kernel in the ways of its own model.
OrdenBasta == EnOrden => \A m \in Modulos : ~Termino(m)

\* The kernel outlives its interfaces, when it does not fall over a request
\* itself, nor loses the memory or the CPU.  The two exceptions: an interface that
\* went before it gave its name (kernel_interface_handler.c:237), and one whose
\* descriptor the thread of a dead interface closed (serializacion.c:7 and
\* kernel_interface_handler.c:113 close the same number twice).
NucleoSobrevive ==
    TerminoListo("kernel") /\ ~desorden /\ matados \cup fallados \subseteq Interfaz =>
        \E i \in Interfaz :
            /\ hilo[IOKernel(i)] = "nombre"
            /\ Termino(i) \/ tabla[fd[i]] # IOKernel(i)

\* While the kernel has an interface in its dictionary and both run, their
\* connection is open; it is lost only to the second close of an interface
\* that died when it had the same descriptor.
DescriptorPropio ==
    \A i \in Registradas :
        EnFuncion(i) /\ EnFuncion("kernel") /\ "s" \in cerrado[IOKernel(i)] =>
            \E j \in Interfaz \ {i} : fd[j] = fd[i] /\ hilo[IOKernel(j)] = "fin"

\* Nobody is left waiting for a cycle that is dead: if the kernel waits for a
\* context and no thread of a running CPU will send one, it is because the
\* memory ended or once answered that it does not know a process
\* (instruccion.c:317 and 325 end the thread and not the CPU).
EsperaConocida ==
    EnFuncion("kernel") /\ EnFuncion("cpu") /\ proceso = "EXEC" /\ ciclo = "muerto" =>
        Termino("memoria") \/ desconocio

\* Started in order, while nobody is killed or falls, the three programs get to their loops once
\* the three were started, and every interface that is started later to its own
\* and to the dictionary of the kernel: again and again, all that run are ready.
QuedanListos ==
    (\A m \in {"memoria", "cpu", "kernel"} : vida[m] # "apagado") ~>
        (EnOrden => /\ \A m \in Modulos : EnFuncion(m) => Listo(m)
                    /\ { i \in Interfaz : EnFuncion(i) } \subseteq Registradas)

\* When a kernel that was ready ends, by "exit" or by a failure, every program
\* comes down after it, but for a STDIN whose user does not type.
CierreEnCadena ==
    TerminoListo("kernel") ~>
        \A m \in Modulos : EnFuncion(m) => m \in Interfaz /\ turno[m] = "usuario"

\* An I/O comes back to the kernel, as done or as failed, whoever ends
\* meanwhile, unless its user does not type or the kernel itself ends.
IOVuelve ==
    proceso = "BLOCKED" ~>
        \/ proceso # "BLOCKED" \/ Termino("kernel")
        \/ turno[Cliente(destino)] = "usuario"
=============================================================================
