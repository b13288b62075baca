---------------------------- MODULE ArranqueProofs ----------------------------
(****************************************************************************)
(* The start and the shutdown, for any number of interfaces of any kind.     *)
(* First what the scripts of the main threads say; then the types, with the  *)
(* queues of the ports and the descriptors of the kernel; then what a step   *)
(* may do to a program and to a socket; and the invariants: what a closed    *)
(* end means, how far each program is when the next one starts, and whose    *)
(* each descriptor is.                                                       *)
(****************************************************************************)
EXTENDS Arranque, FiniteSetTheorems, SequenceTheorems, WellFoundedInduction, TLAPS

(* Types.                                                                   *)

Hilos == {"ninguno", "saludo", "nombre", "sirve", "resultado", "libera", "cierra", "fin"}
AlKernel == { IOKernel(i) : i \in Interfaz }
ALaMemoria == { IOMemoria(i) : i \in Interfaz }
Principales == {CpuMemoria, KernelMemoria, KernelDispatch, KernelInterrupt}

TipoProgramas ==
    /\ escenario \in Escenarios
    /\ vida \in [Modulos -> {"apagado", "corre", "fin"}]
    /\ paso \in [Modulos -> Nat]
    /\ \A m \in Modulos : paso[m] \in 1..(Len(Guion(m)) + 1)
    /\ \A m \in Modulos : vida[m] = "apagado" => paso[m] = 1
    /\ desorden \in BOOLEAN /\ matados \subseteq Modulos
    /\ fallados \subseteq Modulos /\ desconocio \in BOOLEAN

TipoColas ==
    /\ pendientes \in [Puertos -> Seq(Conexiones)]
    /\ \A p \in Puertos : \A k \in 1..Len(pendientes[p]) : pendientes[p][k][2] = p
TipoBuzon == buzon \in [Conexiones -> [Lados -> Seq(Mensajes)]]
TipoCierres ==
    /\ cerrado \in [Conexiones -> SUBSET Lados]
    /\ roto \in [Conexiones -> SUBSET Lados]

TipoHilos ==
    /\ hilo \in [DeInterfaz -> Hilos]
    /\ \A i \in Interfaz : hilo[IOMemoria(i)] \in {"ninguno", "saludo", "sirve", "fin"}
    /\ fd \in [Interfaz -> Fds \cup {0}]
    /\ tabla \in [Fds -> {Libre} \cup AlKernel]

TipoTrabajo ==
    /\ proceso \in {"ninguno", "pedido", "READY", "EXEC", "BLOCKED", "termina", "sin_hilo"}
    /\ destino \in {Libre} \cup AlKernel
    /\ ciclo \in {"espera", "pide", "memoria", "contesta", "desaloja", "muerto"}
    /\ turno \in [Interfaz -> {"espera", "usuario", "pide", "memoria", "responde"}]

\* The client of c got through its connect.
Conectado(c) ==
    \E k \in 1..(paso[Cliente(c)] - 1) : Guion(Cliente(c))[k] = << "connect", c >>
EnCola(c) == \E k \in 1..Len(pendientes[c[2]]) : pendientes[c[2]][k] = c

\* A connection is at most once in the queue of its port and gets a thread at
\* most once; a thread of the kernel has a descriptor, and one in use is known
\* to its interface.
Colas ==
    /\ \A p \in Puertos : \A j, k \in 1..Len(pendientes[p]) :
          pendientes[p][j] = pendientes[p][k] => j = k
    /\ \A c \in Conexiones : EnCola(c) => Conectado(c)
    /\ \A c \in DeInterfaz : hilo[c] # "ninguno" => Conectado(c) /\ ~EnCola(c)
Descriptores ==
    /\ \A i \in Interfaz : hilo[IOKernel(i)] # "ninguno" => fd[i] \in Fds
    /\ \A i \in Interfaz, n \in Fds :
          tabla[n] = IOKernel(i) => fd[i] = n /\ hilo[IOKernel(i)] # "ninguno"

TipoArranque ==
    /\ TipoProgramas /\ TipoColas /\ TipoBuzon /\ TipoCierres /\ TipoHilos /\ TipoTrabajo
    /\ Colas /\ Descriptores

-----------------------------------------------------------------------------
(* Invariants.                                                              *)

\* An end is closed by the end of its program, by the thread of the kernel or
\* of the memory that served it, or by a kernel that lost the memory.
Cierres ==
    \A c \in Conexiones, l \in Lados :
        /\ l \in cerrado[c] =>
              \/ Termino(Programa(c, l))
              \/ c = KernelMemoria /\ l = "c"
              \/ c \in DeInterfaz /\ l = "s"
        /\ l \in roto[c] => Otro(l) \in cerrado[c]
CicloMuerto ==
    ciclo = "muerto" =>
        Termino("cpu") \/ Termino("kernel") \/ Termino("memoria") \/ desconocio

Abierta(c) == cerrado[c] = {} /\ roto[c] = {}
Sano == ~desorden /\ matados \cup fallados \subseteq Interfaz /\ ~Termino("kernel")

\* How far the ones before are when a program runs, and when a message of the
\* handshakes is on its way or was read.
Vivos ==
    /\ ~Termino("memoria") /\ ~Termino("cpu")
    /\ \A c \in Principales : Abierta(c)
    /\ EnFuncion("cpu") => EnFuncion("memoria") /\ paso["memoria"] >= 2
    /\ EnFuncion("kernel") => EnFuncion("cpu") /\ paso["cpu"] >= 7
    /\ \A i \in Interfaz : vida[i] # "apagado" => EnFuncion("kernel") /\ paso["kernel"] >= 11
Contenido(b, c, l) == { b[c][l][k] : k \in 1..Len(b[c][l]) }
Trae(c, msg) == msg \in Contenido(buzon, c, "c")
\* An answer to a process that the memory does not know, or what was left of it.
Rechazada(b) == {"desconoce", "resto"} \cap Contenido(b, CpuMemoria, "c") # {}
Rechazos == Rechazada(buzon) => desconocio
Saludos ==
    /\ Trae(CpuMemoria, "tam") \/ paso["cpu"] >= 5 => paso["memoria"] >= 4
    /\ Trae(KernelMemoria, "0") \/ paso["kernel"] >= 4 => paso["memoria"] >= 5
    /\ Trae(KernelDispatch, "0") \/ paso["kernel"] >= 7 => paso["cpu"] >= 8
    /\ Trae(KernelInterrupt, "0") \/ paso["kernel"] >= 10 => paso["cpu"] >= 9
    /\ paso["memoria"] >= 3 => paso["cpu"] >= 2 /\ ~EnCola(CpuMemoria)
Encadenados == Sano => Vivos /\ Saludos

\* Started in order, while nobody was killed or fell over a request, nobody
\* ends and nothing is closed.
SinCaidas ==
    EnOrden =>
        /\ \A m \in Modulos : ~Termino(m)
        /\ \A c \in Conexiones : Abierta(c)
        /\ \A i \in Interfaz :
              /\ hilo[IOKernel(i)] \in {"ninguno", "saludo", "nombre", "sirve", "resultado"}
              /\ hilo[IOKernel(i)] # "ninguno" => tabla[fd[i]] = IOKernel(i)

\* An open descriptor is of a connection that the kernel did not close; and a
\* thread at work lost its descriptor only to a dead one with the same number.
Duenos ==
    ~Termino("kernel") =>
        /\ \A i \in Interfaz, n \in Fds : tabla[n] = IOKernel(i) => "s" \notin cerrado[IOKernel(i)]
        /\ \A i \in Interfaz :
              hilo[IOKernel(i)] = "ninguno" => "s" \notin cerrado[IOKernel(i)]
        /\ \A i \in Interfaz :
              /\ EnFuncion(i)
              /\ hilo[IOKernel(i)] \in {"saludo", "nombre", "sirve", "resultado"}
              /\ tabla[fd[i]] # IOKernel(i)
              => \E j \in Interfaz \ {i} : fd[j] = fd[i] /\ hilo[IOKernel(j)] = "fin"

InvarianteArranque ==
    /\ TipoArranque /\ Cierres /\ CicloMuerto /\ Rechazos /\ Encadenados /\ SinCaidas
    /\ Duenos /\ NucleoSobrevive

-----------------------------------------------------------------------------
(* The scripts.                                                             *)

LEMMA LadosEs ==
  /\ Lados = {"c", "s"}
  /\ Otro("c") = "s" /\ Otro("s") = "c"
<1>1. "s" \in Lados /\ "c" \in Lados /\ "s" # "c"
  BY DEF Lados
<1>2. \E x \in Lados : x # "c"
  BY <1>1
<1>3. \E x \in Lados : x # "s"
  BY <1>1
<1> QED
  BY <1>2, <1>3 DEF Otro, Lados

LEMMA ModulosEs ==
  /\ "memoria" \in Modulos /\ "cpu" \in Modulos /\ "kernel" \in Modulos
  /\ Interfaz \subseteq Modulos
  /\ "memoria" \notin Interfaz /\ "cpu" \notin Interfaz /\ "kernel" \notin Interfaz
  /\ \A m \in Modulos : m \in {"memoria", "cpu", "kernel"} \/ m \in Interfaz
  BY CotasArranque DEF Modulos

LEMMA GuionMemoriaEs ==
  /\ Len(Guion("memoria")) = 4
  /\ Guion("memoria")[1] = << "escucha", "memoria" >>
  /\ Guion("memoria")[2] = << "espera", CpuMemoria >>
  /\ Guion("memoria")[3] = << "envia_tam", CpuMemoria >>
  /\ Guion("memoria")[4] = << "espera", KernelMemoria >>
  BY ModulosEs DEF Guion, Guiones, GuionMemoria

Verbos == {"connect", "saluda", "respuesta", "recibe_tam", "escucha", "espera",
           "envia_tam", "nombre"}
Pasos == Verbos \X (Conexiones \cup Puertos)

LEMMA ConectarseEs ==
  ASSUME NEW c \in Conexiones
  PROVE  /\ Conectarse(c) \in Seq(Pasos)
         /\ Len(Conectarse(c)) = 3
         /\ Conectarse(c)[1] = << "connect", c >>
         /\ Conectarse(c)[2] = << "saluda", c >>
         /\ Conectarse(c)[3] = << "respuesta", c >>
  BY DEF Conectarse, Pasos, Verbos

LEMMA SeguidoDe ==
  ASSUME NEW s \in Seq(Pasos), NEW t \in Seq(Pasos)
  PROVE  /\ s \o t \in Seq(Pasos)
         /\ Len(s \o t) = Len(s) + Len(t)
         /\ \A k \in 1 .. Len(s) : (s \o t)[k] = s[k]
         /\ \A k \in Len(s) + 1 .. Len(s) + Len(t) : (s \o t)[k] = t[k - Len(s)]
  OBVIOUS

LEMMA ConexionesEs ==
  /\ CpuMemoria \in Conexiones /\ KernelMemoria \in Conexiones
  /\ KernelDispatch \in Conexiones /\ KernelInterrupt \in Conexiones
  /\ AlKernel \subseteq DeInterfaz /\ ALaMemoria \subseteq DeInterfaz
  /\ DeInterfaz \subseteq Conexiones /\ DeInterfaz = AlKernel \cup ALaMemoria
  /\ Conexiones = Principales \cup DeInterfaz
  /\ Principales \cap DeInterfaz = {}
  /\ \A i \in Interfaz : IOKernel(i) \in AlKernel /\ IOMemoria(i) \in ALaMemoria
<1>1. Principales \cap DeInterfaz = {}
  BY ModulosEs DEF Principales, DeInterfaz, IOKernel, IOMemoria, CpuMemoria,
     KernelMemoria, KernelDispatch, KernelInterrupt
<1> QED
  BY <1>1 DEF Conexiones, Principales, DeInterfaz, AlKernel, ALaMemoria

LEMMA GuionCpuEs ==
  /\ Len(Guion("cpu")) = 8
  /\ Guion("cpu")[1] = << "connect", CpuMemoria >>
  /\ Guion("cpu")[2] = << "saluda", CpuMemoria >>
  /\ Guion("cpu")[3] = << "respuesta", CpuMemoria >>
  /\ Guion("cpu")[4] = << "recibe_tam", CpuMemoria >>
  /\ Guion("cpu")[5] = << "escucha", "dispatch" >>
  /\ Guion("cpu")[6] = << "escucha", "interrupt" >>
  /\ Guion("cpu")[7] = << "espera", KernelDispatch >>
  /\ Guion("cpu")[8] = << "espera", KernelInterrupt >>
<1> DEFINE t == << << "recibe_tam", CpuMemoria >>, << "escucha", "dispatch" >>,
                   << "escucha", "interrupt" >>, << "espera", KernelDispatch >>,
                   << "espera", KernelInterrupt >> >>
           s == Conectarse(CpuMemoria)
<1>1. Guion("cpu") = s \o t
  BY ModulosEs DEF Guion, Guiones, GuionCpu
<1>2. t \in Seq(Pasos)
  BY ConexionesEs DEF Pasos, Verbos, Puertos
<1>3. /\ Len(t) = 5 /\ t[1] = << "recibe_tam", CpuMemoria >>
      /\ t[2] = << "escucha", "dispatch" >> /\ t[3] = << "escucha", "interrupt" >>
      /\ t[4] = << "espera", KernelDispatch >> /\ t[5] = << "espera", KernelInterrupt >>
  OBVIOUS
<1>4. /\ s \in Seq(Pasos) /\ Len(s) = 3 /\ s[1] = << "connect", CpuMemoria >>
      /\ s[2] = << "saluda", CpuMemoria >> /\ s[3] = << "respuesta", CpuMemoria >>
  BY ConexionesEs, ConectarseEs
<1> HIDE DEF s, t
<1> DEFINE g == s \o t
<1>5. /\ Len(g) = Len(s) + Len(t)
      /\ \A k \in 1 .. Len(s) : g[k] = s[k]
      /\ \A k \in Len(s) + 1 .. Len(s) + Len(t) : g[k] = t[k - Len(s)]
  BY <1>2, <1>4, SeguidoDe
<1> HIDE DEF g
<1>6. Len(g) = 8 /\ g[1] = s[1] /\ g[2] = s[2] /\ g[3] = s[3]
  BY <1>3, <1>4, <1>5
<1>7. g[4] = t[1] /\ g[5] = t[2] /\ g[6] = t[3] /\ g[7] = t[4] /\ g[8] = t[5]
  <2>1. /\ g[4] = t[4 - Len(s)] /\ g[5] = t[5 - Len(s)] /\ g[6] = t[6 - Len(s)]
        /\ g[7] = t[7 - Len(s)] /\ g[8] = t[8 - Len(s)]
    BY <1>3, <1>4, <1>5
  <2> QED
    BY <1>4, <2>1
<1>8. Guion("cpu") = g
  BY <1>1 DEF g
<1> QED
  BY <1>3, <1>4, <1>6, <1>7, <1>8

LEMMA GuionKernelEs ==
  /\ Len(Guion("kernel")) = 10
  /\ Guion("kernel")[1] = << "connect", KernelMemoria >>
  /\ Guion("kernel")[2] = << "saluda", KernelMemoria >>
  /\ Guion("kernel")[3] = << "respuesta", KernelMemoria >>
  /\ Guion("kernel")[4] = << "connect", KernelDispatch >>
  /\ Guion("kernel")[5] = << "saluda", KernelDispatch >>
  /\ Guion("kernel")[6] = << "respuesta", KernelDispatch >>
  /\ Guion("kernel")[7] = << "connect", KernelInterrupt >>
  /\ Guion("kernel")[8] = << "saluda", KernelInterrupt >>
  /\ Guion("kernel")[9] = << "respuesta", KernelInterrupt >>
  /\ Guion("kernel")[10] = << "escucha", "kernel" >>
<1> DEFINE t == << << "escucha", "kernel" >> >>
           a == Conectarse(KernelMemoria)
           b == Conectarse(KernelDispatch)
           d == Conectarse(KernelInterrupt)
<1>1. Guion("kernel") = ((a \o b) \o d) \o t
  BY ModulosEs DEF Guion, Guiones, GuionKernel
<1>2. /\ t \in Seq(Pasos) /\ Len(t) = 1 /\ t[1] = << "escucha", "kernel" >>
  BY DEF Pasos, Verbos, Puertos
<1>3. /\ a \in Seq(Pasos) /\ Len(a) = 3
      /\ a[1] = << "connect", KernelMemoria >> /\ a[2] = << "saluda", KernelMemoria >>
      /\ a[3] = << "respuesta", KernelMemoria >>
  BY ConexionesEs, ConectarseEs
<1>4. /\ b \in Seq(Pasos) /\ Len(b) = 3
      /\ b[1] = << "connect", KernelDispatch >> /\ b[2] = << "saluda", KernelDispatch >>
      /\ b[3] = << "respuesta", KernelDispatch >>
  BY ConexionesEs, ConectarseEs
<1>5. /\ d \in Seq(Pasos) /\ Len(d) = 3
      /\ d[1] = << "connect", KernelInterrupt >> /\ d[2] = << "saluda", KernelInterrupt >>
      /\ d[3] = << "respuesta", KernelInterrupt >>
  BY ConexionesEs, ConectarseEs
<1> HIDE DEF t, a, b, d
<1> DEFINE x == a \o b
           y == x \o d
           z == y \o t
<1>6. /\ x \in Seq(Pasos)
      /\ Len(x) = Len(a) + Len(b)
      /\ \A k \in 1 .. Len(a) : x[k] = a[k]
      /\ \A k \in Len(a) + 1 .. Len(a) + Len(b) : x[k] = b[k - Len(a)]
  BY <1>3, <1>4, SeguidoDe
<1> HIDE DEF x
<1>7. Len(x) = 6 /\ x[1] = a[1] /\ x[2] = a[2] /\ x[3] = a[3]
      /\ x[4] = b[1] /\ x[5] = b[2] /\ x[6] = b[3]
  <2>1. Len(x) = 6
    BY <1>3, <1>4, <1>6
  <2>2. x[1] = a[1] /\ x[2] = a[2] /\ x[3] = a[3]
    BY <1>3, <1>6
  <2>3. x[4] = b[4 - Len(a)] /\ x[5] = b[5 - Len(a)] /\ x[6] = b[6 - Len(a)]
    BY <1>3, <1>4, <1>6
  <2> QED
    BY <1>3, <2>1, <2>2, <2>3
<1>8. /\ y \in Seq(Pasos)
      /\ Len(y) = Len(x) + Len(d)
      /\ \A k \in 1 .. Len(x) : y[k] = x[k]
      /\ \A k \in Len(x) + 1 .. Len(x) + Len(d) : y[k] = d[k - Len(x)]
  BY <1>5, <1>6, SeguidoDe
<1> HIDE DEF y
<1>9. Len(y) = 9 /\ (\A k \in 1 .. 6 : y[k] = x[k])
      /\ y[7] = d[1] /\ y[8] = d[2] /\ y[9] = d[3]
  <2>1. Len(y) = 9 /\ \A k \in 1 .. 6 : y[k] = x[k]
    BY <1>5, <1>7, <1>8
  <2>2. y[7] = d[7 - Len(x)] /\ y[8] = d[8 - Len(x)] /\ y[9] = d[9 - Len(x)]
    BY <1>5, <1>7, <1>8
  <2> QED
    BY <1>7, <2>1, <2>2
<1>10. /\ Len(z) = Len(y) + Len(t)
       /\ \A k \in 1 .. Len(y) : z[k] = y[k]
       /\ \A k \in Len(y) + 1 .. Len(y) + Len(t) : z[k] = t[k - Len(y)]
  BY <1>2, <1>8, SeguidoDe
<1> HIDE DEF z
<1>11. Len(z) = 10 /\ (\A k \in 1 .. 9 : z[k] = y[k]) /\ z[10] = t[1]
  <2>1. Len(z) = 10 /\ \A k \in 1 .. 9 : z[k] = y[k]
    BY <1>2, <1>9, <1>10
  <2>2. z[10] = t[10 - Len(y)]
    BY <1>2, <1>9, <1>10
  <2> QED
    BY <1>9, <2>1, <2>2
<1>12. Guion("kernel") = z
  BY <1>1 DEF x, y, z
<1>13. z[1] = a[1] /\ z[2] = a[2] /\ z[3] = a[3] /\ z[4] = b[1] /\ z[5] = b[2]
       /\ z[6] = b[3] /\ z[7] = d[1] /\ z[8] = d[2] /\ z[9] = d[3]
  BY <1>7, <1>9, <1>11
<1> QED
  BY <1>2, <1>3, <1>4, <1>5, <1>11, <1>12, <1>13

\* Of an interface: what it does with each of its two connections.
LEMMA GuionInterfazEs ==
  ASSUME NEW i \in Interfaz, Tipo(i) \in Tipos
  PROVE  \/ /\ Len(Guion(i)) = 4
            /\ Guion(i)[1] = << "connect", IOKernel(i) >>
            /\ Guion(i)[2] = << "saluda", IOKernel(i) >>
            /\ Guion(i)[3] = << "respuesta", IOKernel(i) >>
            /\ Guion(i)[4] = << "nombre", IOKernel(i) >>
         \/ /\ Len(Guion(i)) = 7
            /\ Guion(i)[1] = << "connect", IOKernel(i) >>
            /\ Guion(i)[2] = << "saluda", IOKernel(i) >>
            /\ Guion(i)[3] = << "respuesta", IOKernel(i) >>
            /\ Guion(i)[4] = << "nombre", IOKernel(i) >>
            /\ Guion(i)[5] = << "connect", IOMemoria(i) >>
            /\ Guion(i)[6] = << "saluda", IOMemoria(i) >>
            /\ Guion(i)[7] = << "respuesta", IOMemoria(i) >>
         \/ /\ Len(Guion(i)) = 7
            /\ Guion(i)[1] = << "connect", IOKernel(i) >>
            /\ Guion(i)[2] = << "saluda", IOKernel(i) >>
            /\ Guion(i)[3] = << "respuesta", IOKernel(i) >>
            /\ Guion(i)[4] = << "connect", IOMemoria(i) >>
            /\ Guion(i)[5] = << "saluda", IOMemoria(i) >>
            /\ Guion(i)[6] = << "respuesta", IOMemoria(i) >>
            /\ Guion(i)[7] = << "nombre", IOKernel(i) >>
<1> DEFINE t == << << "nombre", IOKernel(i) >> >>
           a == Conectarse(IOKernel(i))
           b == Conectarse(IOMemoria(i))
<1>1. /\ t \in Seq(Pasos) /\ Len(t) = 1 /\ t[1] = << "nombre", IOKernel(i) >>
  BY ConexionesEs DEF Pasos, Verbos
<1>2. /\ a \in Seq(Pasos) /\ Len(a) = 3
      /\ a[1] = << "connect", IOKernel(i) >> /\ a[2] = << "saluda", IOKernel(i) >>
      /\ a[3] = << "respuesta", IOKernel(i) >>
  BY ConexionesEs, ConectarseEs
<1>3. /\ b \in Seq(Pasos) /\ Len(b) = 3
      /\ b[1] = << "connect", IOMemoria(i) >> /\ b[2] = << "saluda", IOMemoria(i) >>
      /\ b[3] = << "respuesta", IOMemoria(i) >>
  BY ConexionesEs, ConectarseEs
<1>4. \/ Guion(i) = a \o t
      \/ Guion(i) = (a \o t) \o b
      \/ Guion(i) = (a \o b) \o t
  BY ModulosEs DEF Guion, GuionesIO, GuionInterfaz, Tipos
<1> HIDE DEF t, a, b
<1> DEFINE x == a \o t
           y == a \o b
           z == x \o b
           w == y \o t
<1>5. /\ x \in Seq(Pasos) /\ Len(x) = Len(a) + Len(t)
      /\ \A k \in 1 .. Len(a) : x[k] = a[k]
      /\ \A k \in Len(a) + 1 .. Len(a) + Len(t) : x[k] = t[k - Len(a)]
  BY <1>1, <1>2, SeguidoDe
<1>6. /\ y \in Seq(Pasos) /\ Len(y) = Len(a) + Len(b)
      /\ \A k \in 1 .. Len(a) : y[k] = a[k]
      /\ \A k \in Len(a) + 1 .. Len(a) + Len(b) : y[k] = b[k - Len(a)]
  BY <1>2, <1>3, SeguidoDe
<1> HIDE DEF x, y
<1>7. Len(x) = 4 /\ x[1] = a[1] /\ x[2] = a[2] /\ x[3] = a[3] /\ x[4] = t[1]
  <2>1. Len(x) = 4 /\ x[1] = a[1] /\ x[2] = a[2] /\ x[3] = a[3]
    BY <1>1, <1>2, <1>5
  <2>2. x[4] = t[4 - Len(a)]
    BY <1>1, <1>2, <1>5
  <2> QED
    BY <1>2, <2>1, <2>2
<1>8. Len(y) = 6 /\ y[1] = a[1] /\ y[2] = a[2] /\ y[3] = a[3]
      /\ y[4] = b[1] /\ y[5] = b[2] /\ y[6] = b[3]
  <2>1. Len(y) = 6 /\ y[1] = a[1] /\ y[2] = a[2] /\ y[3] = a[3]
    BY <1>2, <1>3, <1>6
  <2>2. y[4] = b[4 - Len(a)] /\ y[5] = b[5 - Len(a)] /\ y[6] = b[6 - Len(a)]
    BY <1>2, <1>3, <1>6
  <2> QED
    BY <1>2, <2>1, <2>2
<1>9. /\ Len(z) = Len(x) + Len(b)
      /\ \A k \in 1 .. Len(x) : z[k] = x[k]
      /\ \A k \in Len(x) + 1 .. Len(x) + Len(b) : z[k] = b[k - Len(x)]
  BY <1>3, <1>5, SeguidoDe
<1>10. /\ Len(w) = Len(y) + Len(t)
       /\ \A k \in 1 .. Len(y) : w[k] = y[k]
       /\ \A k \in Len(y) + 1 .. Len(y) + Len(t) : w[k] = t[k - Len(y)]
  BY <1>1, <1>6, SeguidoDe
<1> HIDE DEF z, w
<1>11. Len(z) = 7 /\ z[1] = x[1] /\ z[2] = x[2] /\ z[3] = x[3] /\ z[4] = x[4]
       /\ z[5] = b[1] /\ z[6] = b[2] /\ z[7] = b[3]
  <2>1. Len(z) = 7 /\ z[1] = x[1] /\ z[2] = x[2] /\ z[3] = x[3] /\ z[4] = x[4]
    BY <1>3, <1>7, <1>9
  <2>2. z[5] = b[5 - Len(x)] /\ z[6] = b[6 - Len(x)] /\ z[7] = b[7 - Len(x)]
    BY <1>3, <1>7, <1>9
  <2> QED
    BY <1>7, <2>1, <2>2
<1>12. Len(w) = 7 /\ w[1] = y[1] /\ w[2] = y[2] /\ w[3] = y[3] /\ w[4] = y[4]
       /\ w[5] = y[5] /\ w[6] = y[6] /\ w[7] = t[1]
  <2>1. Len(w) = 7 /\ w[1] = y[1] /\ w[2] = y[2] /\ w[3] = y[3] /\ w[4] = y[4]
        /\ w[5] = y[5] /\ w[6] = y[6]
    BY <1>1, <1>8, <1>10
  <2>2. w[7] = t[7 - Len(y)]
    BY <1>1, <1>8, <1>10
  <2> QED
    BY <1>8, <2>1, <2>2
<1>13. Guion(i) = x \/ Guion(i) = z \/ Guion(i) = w
  BY <1>4 DEF x, y, z, w
<1>14. CASE Guion(i) = x
  BY <1>1, <1>2, <1>7, <1>14
<1>15. CASE Guion(i) = z
  BY <1>1, <1>2, <1>3, <1>7, <1>11, <1>15
<1>16. CASE Guion(i) = w
  BY <1>1, <1>2, <1>3, <1>8, <1>12, <1>16
<1> QED
  BY <1>13, <1>14, <1>15, <1>16


\* What one step of a script is, of each program.
PasoValido(m, k) ==
    \/ \E p \in Puertos : Guion(m)[k] = << "escucha", p >> /\ Servidor(p) = m
    \/ \E c \in Conexiones, v \in {"connect", "saluda", "respuesta"} :
          /\ Guion(m)[k] = << v, c >> /\ Cliente(c) = m
          /\ c[2] \in Puertos
    \/ \E c \in Principales : Guion(m)[k] = << "espera", c >> /\ Servidor(c[2]) = m
    \/ m = "memoria" /\ k = 3 /\ Guion(m)[k] = << "envia_tam", CpuMemoria >>
    \/ m = "cpu" /\ k = 4 /\ Guion(m)[k] = << "recibe_tam", CpuMemoria >>
    \/ m \in Interfaz /\ Guion(m)[k] = << "nombre", IOKernel(m) >>

LEMMA PasoEs ==
  ASSUME NEW m \in Modulos, m \in Interfaz => Tipo(m) \in Tipos,
         NEW k \in 1 .. Len(Guion(m))
  PROVE  PasoValido(m, k)
<1>1. CASE m = "memoria"
  <2>1. k \in {1, 2, 3, 4}
    BY <1>1, GuionMemoriaEs
  <2>2. /\ "memoria" \in Puertos /\ Servidor("memoria") = "memoria"
        /\ CpuMemoria \in Principales /\ Servidor(CpuMemoria[2]) = "memoria"
        /\ KernelMemoria \in Principales /\ Servidor(KernelMemoria[2]) = "memoria"
    BY DEF Principales, Puertos, Servidor, CpuMemoria, KernelMemoria
  <2> QED
    BY <1>1, <2>1, <2>2, GuionMemoriaEs DEF PasoValido
<1>2. CASE m = "cpu"
  <2>0. k \in 1 .. 8
    BY <1>2, GuionCpuEs
  <2>1. k \in {1, 2, 3, 4, 5, 6, 7, 8}
    BY <2>0
  <2>2. /\ CpuMemoria \in Conexiones /\ Cliente(CpuMemoria) = "cpu" /\ CpuMemoria[2] \in Puertos
        /\ "dispatch" \in Puertos /\ Servidor("dispatch") = "cpu"
        /\ "interrupt" \in Puertos /\ Servidor("interrupt") = "cpu"
        /\ KernelDispatch \in Principales /\ Servidor(KernelDispatch[2]) = "cpu"
        /\ KernelInterrupt \in Principales /\ Servidor(KernelInterrupt[2]) = "cpu"
    BY ConexionesEs
    DEF Principales, Puertos, Servidor, CpuMemoria, KernelDispatch, KernelInterrupt, Cliente
  <2> QED
    BY <1>2, <2>1, <2>2, GuionCpuEs DEF PasoValido
<1>3. CASE m = "kernel"
  <2>0. k \in 1 .. 10
    BY <1>3, GuionKernelEs
  <2>1. k \in {1, 2, 3, 4, 5, 6, 7, 8, 9, 10}
    BY <2>0
  <2>2. /\ KernelMemoria \in Conexiones /\ Cliente(KernelMemoria) = "kernel"
        /\ KernelMemoria[2] \in Puertos
        /\ KernelDispatch \in Conexiones /\ Cliente(KernelDispatch) = "kernel"
        /\ KernelDispatch[2] \in Puertos
        /\ KernelInterrupt \in Conexiones /\ Cliente(KernelInterrupt) = "kernel"
        /\ KernelInterrupt[2] \in Puertos
        /\ "kernel" \in Puertos /\ Servidor("kernel") = "kernel"
    BY ConexionesEs
    DEF Puertos, Servidor, KernelMemoria, KernelDispatch, KernelInterrupt, Cliente
  <2> QED
    BY <1>3, <2>1, <2>2, GuionKernelEs DEF PasoValido
<1>4. CASE m \in Interfaz
  <2>0. k \in 1 .. 7
    <3>1. Len(Guion(m)) = 4 \/ Len(Guion(m)) = 7
      BY <1>4, GuionInterfazEs
    <3>2. CASE Len(Guion(m)) = 4
      BY <3>2
    <3>3. CASE Len(Guion(m)) = 7
      BY <3>3
    <3> QED
      BY <3>1, <3>2, <3>3
  <2>1. k \in {1, 2, 3, 4, 5, 6, 7}
    BY <2>0
  <2>2. /\ IOKernel(m) \in Conexiones /\ Cliente(IOKernel(m)) = m /\ IOKernel(m)[2] \in Puertos
        /\ IOMemoria(m) \in Conexiones /\ Cliente(IOMemoria(m)) = m /\ IOMemoria(m)[2] \in Puertos
    BY <1>4, ConexionesEs DEF IOKernel, IOMemoria, Cliente, Puertos
  <2> QED
    BY <1>4, <2>1, <2>2, GuionInterfazEs DEF PasoValido
<1> QED
  BY <1>1, <1>2, <1>3, <1>4, ModulosEs

LEMMA ConnectUnico ==
  ASSUME NEW m \in Modulos, m \in Interfaz => Tipo(m) \in Tipos,
         NEW c, NEW j \in 1 .. Len(Guion(m)), NEW k \in 1 .. Len(Guion(m)),
         Guion(m)[j] = << "connect", c >>, Guion(m)[k] = << "connect", c >>
  PROVE  j = k
<1>1. CASE m = "memoria"
  <2>1. j \in {1, 2, 3, 4}
    BY <1>1, GuionMemoriaEs
  <2> QED
    BY <1>1, <2>1, GuionMemoriaEs
<1>2. CASE m = "cpu"
  <2>0. j \in 1 .. 8 /\ k \in 1 .. 8
    BY <1>2, GuionCpuEs
  <2>1. j \in {1, 2, 3, 4, 5, 6, 7, 8} /\ k \in {1, 2, 3, 4, 5, 6, 7, 8}
    BY <2>0
  <2>2. j = 1 /\ k = 1
    BY <1>2, <2>1, GuionCpuEs
  <2> QED
    BY <2>2
<1>3. CASE m = "kernel"
  <2>0. j \in 1 .. 10 /\ k \in 1 .. 10
    BY <1>3, GuionKernelEs
  <2>1. /\ j \in {1, 2, 3, 4, 5, 6, 7, 8, 9, 10}
        /\ k \in {1, 2, 3, 4, 5, 6, 7, 8, 9, 10}
    BY <2>0
  <2>2. j \in {1, 4, 7} /\ k \in {1, 4, 7}
    BY <1>3, <2>1, GuionKernelEs, SMTT(40)
  <2> QED
    BY <1>3, <2>2, GuionKernelEs, SMTT(40) DEF KernelMemoria, KernelDispatch, KernelInterrupt
<1>4. CASE m \in Interfaz
  <2>0. j \in 1 .. 7 /\ k \in 1 .. 7
    <3>1. Len(Guion(m)) = 4 \/ Len(Guion(m)) = 7
      BY <1>4, GuionInterfazEs
    <3> QED
      BY <3>1
  <2>1. j \in {1, 2, 3, 4, 5, 6, 7} /\ k \in {1, 2, 3, 4, 5, 6, 7}
    BY <2>0
  <2>2. IOKernel(m) # IOMemoria(m)
    BY DEF IOKernel, IOMemoria
  <2> QED
    BY <1>4, <2>1, <2>2, GuionInterfazEs
<1> QED
  BY <1>1, <1>2, <1>3, <1>4, ModulosEs

LEMMA GuionFijo ==
  ASSUME escenario' = escenario
  PROVE  /\ \A m : Guion(m)' = Guion(m)
         /\ \A i : Tipo(i)' = Tipo(i)
  BY DEF Guion, Tipo

LEMMA TiposEs ==
  ASSUME TipoProgramas, NEW i \in Interfaz
  PROVE  Tipo(i) \in Tipos
  BY CotasArranque DEF TipoProgramas, Tipo

-----------------------------------------------------------------------------
(* What the operations of the sockets do.                                   *)

\* Nothing new to read but msg, for the end that is not l; and the sends that
\* fail are of those whose other end closed.
Agrega(b, nb, c, l, msg) ==
    \A d \in Conexiones, e \in Lados : \A x \in Contenido(nb, d, e) :
        x \in Contenido(b, d, e) \/ (d = c /\ e = Otro(l) /\ x = msg)
Llega(c, l, msg) == Agrega(buzon, buzon', c, l, msg)
SoloLee ==
    \A d \in Conexiones, e \in Lados : Contenido(buzon', d, e) \subseteq Contenido(buzon, d, e)
EfectoRoto ==
    \A c \in Conexiones, l \in Lados :
        l \in roto'[c] => l \in roto[c] \/ Otro(l) \in cerrado[c]
\* No step but one of a memory that does not know a process refuses the CPU.
SinRechazos == Rechazada(buzon') => Rechazada(buzon) \/ desconocio'

LEMMA SoloLeeEs ==
  ASSUME SoloLee
  PROVE  SinRechazos
<1>1. "c" \in Lados /\ CpuMemoria \in Conexiones
  BY LadosEs DEF Conexiones, Principales
<1> QED
  BY <1>1 DEF SoloLee, SinRechazos, Rechazada

LEMMA LlegaEs ==
  ASSUME NEW c, NEW l, NEW msg, Llega(c, l, msg),
         msg \notin {"desconoce", "resto"} \/ desconocio'
  PROVE  SinRechazos
<1>1. "c" \in Lados /\ CpuMemoria \in Conexiones
  BY LadosEs DEF Conexiones, Principales
<1>2. CASE desconocio'
  BY <1>2, Zenon DEF SinRechazos
<1>3. ASSUME msg \notin {"desconoce", "resto"}, Rechazada(buzon')
      PROVE  Rechazada(buzon)
  BY <1>1, <1>3 DEF Llega, Agrega, Rechazada
<1> QED
  BY <1>2, <1>3, Zenon DEF SinRechazos

LEMMA AvisadaEs ==
  ASSUME TipoCierres, NEW c \in Conexiones, NEW l \in Lados, Avisada(c, l)
  PROVE  roto' \in [Conexiones -> SUBSET Lados] /\ EfectoRoto
  BY DEF TipoCierres, Avisada, EfectoRoto

LEMMA EntregaEs ==
  ASSUME NEW b \in [Conexiones -> [Lados -> Seq(Mensajes)]],
         NEW c \in Conexiones, NEW l \in Lados, NEW msg \in Mensajes
  PROVE  /\ Entrega(b, c, l, msg) \in [Conexiones -> [Lados -> Seq(Mensajes)]]
         /\ Agrega(b, Entrega(b, c, l, msg), c, l, msg)
<1> DEFINE o == Otro(l)
           nb == [b EXCEPT ![c][o] = Append(@, msg)]
<1>1. o \in Lados
  BY LadosEs
<1>2. CASE Otro(l) \in cerrado[c]
  BY <1>2 DEF Entrega, Agrega
<1>3. ASSUME Otro(l) \notin cerrado[c]
      PROVE  Entrega(b, c, l, msg) = nb
  BY <1>3 DEF Entrega
<1>4. nb \in [Conexiones -> [Lados -> Seq(Mensajes)]]
  BY <1>1
<1>5. ASSUME NEW d \in Conexiones, NEW e \in Lados, NEW x \in Contenido(nb, d, e)
      PROVE  x \in Contenido(b, d, e) \/ (d = c /\ e = o /\ x = msg)
  <2>1. b[d][e] \in Seq(Mensajes)
    OBVIOUS
  <2>2. CASE d = c /\ e = o
    <3>1. nb[d][e] = Append(b[d][e], msg)
      BY <1>1, <2>2
    <3>2. PICK k \in 1 .. Len(Append(b[d][e], msg)) : x = Append(b[d][e], msg)[k]
      BY <3>1, <1>5 DEF Contenido
    <3>3. k \in 1 .. Len(b[d][e]) + 1
      BY <2>1, <3>2
    <3>4. CASE k = Len(b[d][e]) + 1
      BY <2>1, <2>2, <3>2, <3>4
    <3>5. CASE k \in 1 .. Len(b[d][e])
      <4>1. x = b[d][e][k]
        BY <2>1, <3>2, <3>5
      <4> QED
        BY <3>5, <4>1 DEF Contenido
    <3> QED
      BY <3>3, <3>4, <3>5, <2>1
  <2>3. CASE ~(d = c /\ e = o)
    <3>1. nb[d][e] = b[d][e]
      BY <1>1, <2>3
    <3> QED
      BY <3>1, <1>5 DEF Contenido
  <2> QED
    BY <2>2, <2>3
<1>6. Agrega(b, nb, c, l, msg)
  BY <1>5 DEF Agrega
<1> HIDE DEF nb
<1> QED
  BY <1>2, <1>3, <1>4, <1>6

LEMMA EnviaEs ==
  ASSUME TipoBuzon, TipoCierres, NEW c \in Conexiones, NEW l \in Lados,
         NEW msg \in Mensajes, Envia(c, l, msg)
  PROVE  TipoBuzon' /\ roto' \in [Conexiones -> SUBSET Lados]
         /\ Llega(c, l, msg) /\ EfectoRoto
<1>1. buzon' = Entrega(buzon, c, l, msg) /\ Avisada(c, l)
  BY DEF Envia
<1>2. roto' \in [Conexiones -> SUBSET Lados] /\ EfectoRoto
  BY <1>1, AvisadaEs
<1>3. TipoBuzon' /\ Llega(c, l, msg)
  BY <1>1, EntregaEs DEF TipoBuzon, Llega
<1> QED
  BY <1>2, <1>3

LEMMA ColaEs ==
  ASSUME TipoBuzon, NEW c \in Conexiones, NEW l \in Lados, buzon[c][l] # << >>,
         NEW b, b = [buzon EXCEPT ![c][l] = Tail(@)]
  PROVE  /\ b \in [Conexiones -> [Lados -> Seq(Mensajes)]]
         /\ \A d \in Conexiones, e \in Lados : Contenido(b, d, e) \subseteq Contenido(buzon, d, e)
<1>1. buzon[c][l] \in Seq(Mensajes) /\ Tail(buzon[c][l]) \in Seq(Mensajes)
  BY DEF TipoBuzon
<1>2. b \in [Conexiones -> [Lados -> Seq(Mensajes)]]
  BY <1>1 DEF TipoBuzon
<1>3. ASSUME NEW d \in Conexiones, NEW e \in Lados, NEW x \in Contenido(b, d, e)
      PROVE  x \in Contenido(buzon, d, e)
  <2>1. CASE d = c /\ e = l
    <3>1. b[d][e] = Tail(buzon[c][l])
      BY <2>1 DEF TipoBuzon
    <3>2. PICK k \in 1 .. Len(Tail(buzon[c][l])) : x = Tail(buzon[c][l])[k]
      BY <3>1, <1>3 DEF Contenido
    <3>3. x = buzon[c][l][k + 1] /\ k + 1 \in 1 .. Len(buzon[c][l])
      BY <1>1, <3>2
    <3> QED
      BY <2>1, <3>3 DEF Contenido
  <2>2. CASE ~(d = c /\ e = l)
    <3>1. b[d][e] = buzon[d][e]
      BY <2>2 DEF TipoBuzon
    <3> QED
      BY <3>1, <1>3 DEF Contenido
  <2> QED
    BY <2>1, <2>2
<1> QED
  BY <1>2, <1>3

LEMMA RecibeEs ==
  ASSUME TipoBuzon, NEW c \in Conexiones, NEW l \in Lados, NEW msg, Recibe(c, l, msg)
  PROVE  /\ TipoBuzon' /\ SoloLee
         /\ l \notin cerrado[c] /\ msg \in Contenido(buzon, c, l)
<1>1. /\ buzon[c][l] # << >> /\ Head(buzon[c][l]) = msg /\ l \notin cerrado[c]
      /\ buzon' = [buzon EXCEPT ![c][l] = Tail(@)]
  BY DEF Recibe, HayMensaje
<1>2. TipoBuzon' /\ SoloLee
  BY <1>1, ColaEs DEF TipoBuzon, SoloLee
<1>3. buzon[c][l] \in Seq(Mensajes)
  BY DEF TipoBuzon
<1>4. msg = buzon[c][l][1] /\ 1 \in 1 .. Len(buzon[c][l])
  BY <1>1, <1>3
<1> QED
  BY <1>1, <1>2, <1>4 DEF Contenido

LEMMA ContestaEs ==
  ASSUME TipoBuzon, TipoCierres, NEW c \in Conexiones, NEW l \in Lados, NEW msg,
         NEW res \in Mensajes, Contesta(c, l, msg, res)
  PROVE  /\ TipoBuzon' /\ roto' \in [Conexiones -> SUBSET Lados]
         /\ Llega(c, l, res) /\ EfectoRoto
         /\ l \notin cerrado[c] /\ msg \in Contenido(buzon, c, l)
<1> DEFINE b == [buzon EXCEPT ![c][l] = Tail(@)]
<1>1. /\ buzon[c][l] # << >> /\ Head(buzon[c][l]) = msg /\ l \notin cerrado[c]
      /\ buzon' = Entrega(b, c, l, res) /\ Avisada(c, l)
  BY DEF Contesta, HayMensaje
<1>2. roto' \in [Conexiones -> SUBSET Lados] /\ EfectoRoto
  BY <1>1, AvisadaEs
<1>3. /\ b \in [Conexiones -> [Lados -> Seq(Mensajes)]]
      /\ \A d \in Conexiones, e \in Lados : Contenido(b, d, e) \subseteq Contenido(buzon, d, e)
  BY <1>1, ColaEs
<1> HIDE DEF b
<1> DEFINE nb == Entrega(b, c, l, res)
<1>7. /\ nb \in [Conexiones -> [Lados -> Seq(Mensajes)]]
      /\ Agrega(b, nb, c, l, res)
  BY <1>3, EntregaEs
<1>8. buzon' = nb
  BY <1>1
<1> HIDE DEF nb
<1>4. TipoBuzon' /\ Llega(c, l, res)
  BY <1>3, <1>7, <1>8 DEF TipoBuzon, Llega, Agrega
<1>5. buzon[c][l] \in Seq(Mensajes)
  BY DEF TipoBuzon
<1>6. msg = buzon[c][l][1] /\ 1 \in 1 .. Len(buzon[c][l])
  BY <1>1, <1>5
<1> QED
  BY <1>1, <1>2, <1>4, <1>6 DEF Contenido

\* Of one operation: the types of the sockets, and that it greets nobody.
SinSaludos ==
    \A c \in Principales, x \in {"0", "tam"} :
        x \in Contenido(buzon', c, "c") => x \in Contenido(buzon, c, "c")
RedBien ==
    /\ TipoBuzon' /\ roto' \in [Conexiones -> SUBSET Lados]
    /\ EfectoRoto /\ SinSaludos /\ SinRechazos

LEMMA CortadaEs ==
  ASSUME NEW c \in Conexiones, NEW l \in Lados, Agotada(c, l) \/ NoEnvia(c, l)
  PROVE  ~Abierta(c)
  BY DEF Agotada, NoEnvia, Abierta

LEMMA RedIgual ==
  ASSUME TipoBuzon, TipoCierres, UNCHANGED << buzon, roto >>
  PROVE  RedBien
  BY DEF TipoBuzon, TipoCierres, RedBien, EfectoRoto, SinSaludos, SinRechazos

LEMMA RedRecibe ==
  ASSUME TipoBuzon, TipoCierres, NEW c \in Conexiones, NEW l \in Lados, NEW msg,
         Recibe(c, l, msg), roto' = roto
  PROVE  RedBien
<1>1. TipoBuzon' /\ SoloLee
  BY RecibeEs
<1>2. roto' \in [Conexiones -> SUBSET Lados] /\ EfectoRoto
  BY DEF TipoCierres, EfectoRoto
<1>3. SinSaludos
  BY <1>1, LadosEs, ConexionesEs DEF SoloLee, SinSaludos
<1> QED
  BY <1>1, <1>2, <1>3, SoloLeeEs DEF RedBien

Comunes == Mensajes \ {"0", "tam", "desconoce", "resto"}

LEMMA RedEnvia ==
  ASSUME TipoBuzon, TipoCierres, NEW c \in Conexiones, NEW l \in Lados,
         NEW msg \in Comunes, Envia(c, l, msg)
  PROVE  RedBien
<1>1. TipoBuzon' /\ roto' \in [Conexiones -> SUBSET Lados] /\ Llega(c, l, msg) /\ EfectoRoto
  BY EnviaEs DEF Comunes
<1>2. SinSaludos
  BY <1>1, LadosEs, ConexionesEs DEF Llega, Agrega, SinSaludos, Comunes
<1>3. SinRechazos
  BY <1>1, LlegaEs DEF Comunes
<1> QED
  BY <1>1, <1>2, <1>3 DEF RedBien

LEMMA RedContesta ==
  ASSUME TipoBuzon, TipoCierres, NEW c \in Conexiones, NEW l \in Lados, NEW msg,
         NEW res \in Mensajes, Contesta(c, l, msg, res),
         res \notin {"0", "tam"} \/ c \in DeInterfaz,
         res \notin {"desconoce", "resto"} \/ desconocio'
  PROVE  RedBien
<1>1. TipoBuzon' /\ roto' \in [Conexiones -> SUBSET Lados] /\ Llega(c, l, res) /\ EfectoRoto
  BY ContestaEs
<1>2. SinSaludos
  BY <1>1, LadosEs, ConexionesEs DEF Llega, Agrega, SinSaludos
<1>3. SinRechazos
  BY <1>1, LlegaEs
<1> QED
  BY <1>1, <1>2, <1>3 DEF RedBien

\* What a RESIZE leaves of the answer to it.
LEMMA RedDeja ==
  ASSUME TipoBuzon, TipoCierres, HayMensaje(CpuMemoria, "c", "desconoce"),
         buzon' = [buzon EXCEPT ![CpuMemoria]["c"] = << "resto" >> \o Tail(@)],
         roto' = roto
  PROVE  RedBien
<1> DEFINE q == buzon[CpuMemoria]["c"]
           nq == << "resto" >> \o Tail(q)
<1>1. CpuMemoria \in Conexiones /\ "c" \in Lados /\ "resto" \in Mensajes
      /\ CpuMemoria \in Principales /\ Principales \subseteq Conexiones
  BY ConexionesEs, LadosEs DEF Principales, Mensajes
<1>2. q \in Seq(Mensajes) /\ q # << >> /\ Head(q) = "desconoce"
  BY <1>1 DEF TipoBuzon, HayMensaje
<1>3. nq \in Seq(Mensajes) /\ Len(nq) = Len(q)
      /\ nq[1] = "resto" /\ \A k \in 2 .. Len(q) : nq[k] = q[k]
  <2>1. /\ Tail(q) \in Seq(Mensajes) /\ Len(Tail(q)) = Len(q) - 1
        /\ Len(q) \in Nat /\ \A k \in 1 .. Len(q) - 1 : Tail(q)[k] = q[k + 1]
    BY <1>2
  <2>2. /\ << "resto" >> \in Seq(Mensajes) /\ Len(<< "resto" >>) = 1
        /\ << "resto" >>[1] = "resto"
    BY <1>1
  <2> HIDE DEF q
  <2>3. /\ nq \in Seq(Mensajes) /\ Len(nq) = 1 + Len(Tail(q))
        /\ \A k \in 1 .. Len(nq) :
              nq[k] = IF k <= 1 THEN << "resto" >>[k] ELSE Tail(q)[k - 1]
    BY <2>1, <2>2, ConcatProperties
  <2> HIDE DEF nq
  <2>4. nq[1] = "resto"
    BY <2>1, <2>2, <2>3
  <2>5. ASSUME NEW k \in 2 .. Len(q)
        PROVE  nq[k] = q[k]
    <3>1. nq[k] = Tail(q)[k - 1] /\ k - 1 \in 1 .. Len(q) - 1 /\ k - 1 + 1 = k
      BY <2>1, <2>3
    <3> QED
      BY <2>1, <3>1
  <2> QED
    BY <2>1, <2>3, <2>4, <2>5
<1>4. buzon' = [buzon EXCEPT ![CpuMemoria]["c"] = nq]
  OBVIOUS
<1> HIDE DEF nq
<1>5. TipoBuzon'
  BY <1>1, <1>3, <1>4 DEF TipoBuzon
<1>6. ASSUME NEW d \in Conexiones, NEW e \in Lados, NEW x \in Contenido(buzon', d, e),
             x # "resto"
      PROVE  x \in Contenido(buzon, d, e)
  <2>1. CASE d = CpuMemoria /\ e = "c"
    <3>1. buzon'[d][e] = nq
      BY <1>1, <1>4, <2>1 DEF TipoBuzon
    <3>2. PICK k \in 1 .. Len(nq) : x = nq[k]
      BY <1>6, <3>1 DEF Contenido
    <3>3. k \in 2 .. Len(q)
      BY <1>2, <1>3, <1>6, <3>2
    <3>4. x = buzon[d][e][k] /\ k \in 1 .. Len(buzon[d][e])
      BY <1>2, <1>3, <2>1, <3>2, <3>3
    <3> QED
      BY <3>4 DEF Contenido
  <2>2. CASE ~(d = CpuMemoria /\ e = "c")
    <3>1. buzon'[d][e] = buzon[d][e]
      BY <1>1, <1>4, <2>2 DEF TipoBuzon
    <3> QED
      BY <1>6, <3>1 DEF Contenido
  <2> QED
    BY <2>1, <2>2
<1>7. SinSaludos
  BY <1>1, <1>6 DEF SinSaludos
<1>8. Rechazada(buzon)
  <2>1. q[1] = "desconoce" /\ 1 \in 1 .. Len(q)
    BY <1>2
  <2>2. "desconoce" \in Contenido(buzon, CpuMemoria, "c")
    BY <2>1 DEF Contenido
  <2> QED
    BY <2>2 DEF Rechazada
<1>9. roto' \in [Conexiones -> SUBSET Lados] /\ EfectoRoto
  BY DEF TipoCierres, EfectoRoto
<1> QED
  BY <1>5, <1>7, <1>8, <1>9 DEF RedBien, SinRechazos

\* Why a program ends that is past its start and did not fall over a request,
\* and how the ends close.
Motivo(m) ==
    \/ m \in {"memoria", "cpu", "kernel"} /\ \E c \in Principales : ~Abierta(c)
    \/ m \in Interfaz /\ (~Abierta(IOKernel(m)) \/ ~Abierta(IOMemoria(m)))
EfectoCaida ==
    \/ UNCHANGED << vida, cerrado >>
    \/ \E m \in Modulos : EnFuncion(m) /\ Termina(m) /\ (Motivo(m) \/ m \in fallados')
    \/ UNCHANGED vida /\ Cierra(KernelMemoria, "c") /\ ~Abierta(KernelMemoria)
\* and what is written down of it.
EfectoHistoria ==
    /\ UNCHANGED inicioVars
    /\ fallados' = fallados \/ \E m \in Modulos : fallados' = fallados \cup {m}
    /\ desconocio' \in {desconocio, TRUE}

LEMMA FallaEs ==
  ASSUME NEW m \in Modulos, EnFuncion(m), Falla(m)
  PROVE  EfectoCaida
  BY DEF Falla, EfectoCaida

KernelEnObra == KernelCrea \/ KernelTrabaja \/ KernelOrdena \/ KernelCae
MemoriaEnObra == MemoriaKernel \/ AtiendeCpu

LEMMA ObraKernel ==
  ASSUME TipoBuzon, TipoCierres, KernelEnObra
  PROVE  RedBien /\ EfectoCaida
<1>1. /\ KernelMemoria \in Conexiones /\ KernelMemoria \in Principales
      /\ KernelDispatch \in Conexiones /\ KernelDispatch \in Principales
      /\ KernelInterrupt \in Conexiones /\ KernelInterrupt \in Principales
      /\ "c" \in Lados /\ "kernel" \in Modulos
  BY ConexionesEs, LadosEs, ModulosEs DEF Principales
<1>2. /\ "crea" \in Comunes /\ "term" \in Comunes
      /\ "pcb" \in Comunes /\ "orden" \in Comunes
  BY DEF Mensajes, Comunes
<1>3. ASSUME NEW c \in Principales, Agotada(c, "c") \/ NoEnvia(c, "c"), Termina("kernel"),
             EnFuncion("kernel")
      PROVE  EfectoCaida
  BY <1>1, <1>3, CortadaEs, ConexionesEs DEF EfectoCaida, Motivo
<1>4. UNCHANGED << vida, cerrado >> => EfectoCaida
  BY DEF EfectoCaida
<1>5. CASE KernelCrea
  <2>1. CASE Envia(KernelMemoria, "c", "crea") /\ SigueKernel
    BY <2>1, <1>1, <1>2, <1>4, RedEnvia DEF SigueKernel
  <2>2. CASE NoEnvia(KernelMemoria, "c") /\ Termina("kernel") /\ UNCHANGED << buzon, roto >>
    BY <2>2, <1>1, <1>3, <1>5, RedIgual DEF KernelCrea, Nucleo, Listo
  <2> QED
    BY <1>5, <2>1, <2>2 DEF KernelCrea
<1>6. CASE KernelConfirma
  <2>1. CASE Recibe(KernelMemoria, "c", "ok") /\ UNCHANGED << vida, cerrado, roto >>
    BY <2>1, <1>1, <1>4, RedRecibe
  <2>2. CASE /\ Agotada(KernelMemoria, "c") /\ Cierra(KernelMemoria, "c")
             /\ UNCHANGED << vida, buzon, roto >>
    BY <2>2, <1>1, RedIgual, CortadaEs DEF EfectoCaida
  <2> QED
    BY <1>6, <2>1, <2>2 DEF KernelConfirma
<1>7. CASE KernelDespacha
  <2>1. CASE Envia(KernelDispatch, "c", "pcb") /\ SigueKernel
    BY <2>1, <1>1, <1>2, <1>4, RedEnvia DEF SigueKernel
  <2>2. CASE UNCHANGED << buzon, roto >> /\ SigueKernel
    BY <2>2, <1>4, RedIgual DEF SigueKernel
  <2> QED
    BY <1>7, <2>1, <2>2 DEF KernelDespacha
<1>8. CASE KernelContexto
  <2>1. CASE \E msg : Recibe(KernelDispatch, "c", msg) /\ SigueKernel /\ UNCHANGED roto
    BY <2>1, <1>1, <1>4, RedRecibe DEF SigueKernel
  <2>2. CASE /\ Agotada(KernelDispatch, "c") /\ Termina("kernel")
             /\ UNCHANGED << buzon, roto >>
    BY <2>2, <1>1, <1>3, <1>8, RedIgual DEF KernelContexto, Nucleo, Listo
  <2> QED
    BY <1>8, <2>1, <2>2 DEF KernelContexto
<1>9. ASSUME FinalizaEnMemoria, EnFuncion("kernel")
      PROVE  RedBien /\ EfectoCaida
  <2>1. CASE Envia(KernelMemoria, "c", "term") /\ SigueKernel
    BY <2>1, <1>1, <1>2, <1>4, RedEnvia DEF SigueKernel
  <2>2. CASE NoEnvia(KernelMemoria, "c") /\ Termina("kernel") /\ UNCHANGED << buzon, roto >>
    BY <2>2, <1>1, <1>3, <1>9, RedIgual
  <2> QED
    BY <1>9, <2>1, <2>2 DEF FinalizaEnMemoria
<1>10. CASE KernelTermina
  BY <1>9, <1>10 DEF KernelTermina, Nucleo, Listo
<1>11. CASE KernelOrdena
  <2>1. CASE Envia(KernelInterrupt, "c", "orden") /\ SigueKernel
    BY <2>1, <1>1, <1>2, <1>4, RedEnvia DEF SigueKernel
  <2>2. CASE NoEnvia(KernelInterrupt, "c") /\ Termina("kernel") /\ UNCHANGED << buzon, roto >>
    BY <2>2, <1>1, <1>3, <1>11, RedIgual DEF KernelOrdena, Nucleo, Listo
  <2> QED
    BY <1>11, <2>1, <2>2 DEF KernelOrdena
<1>12. CASE KernelSinPath
  <2>1. EnFuncion("kernel") /\ Falla("kernel") /\ Recibe(KernelMemoria, "c", "no_existe")
        /\ roto' = roto
    BY <1>12 DEF KernelSinPath, Nucleo, Listo
  <2> QED
    BY <2>1, <1>1, FallaEs, RedRecibe
<1>13. CASE KernelCae
  <2>1. EnFuncion("kernel") /\ Falla("kernel") /\ UNCHANGED << buzon, roto >>
    BY <1>13 DEF KernelCae, Listo
  <2> QED
    BY <2>1, <1>1, FallaEs, RedIgual
<1> QED
  BY <1>5, <1>6, <1>7, <1>8, <1>10, <1>11, <1>12, <1>13 DEF KernelEnObra, KernelTrabaja

LEMMA ObraCpu ==
  ASSUME TipoBuzon, TipoCierres, CicloCpu \/ HiloInterrupcion
  PROVE  RedBien /\ EfectoCaida
<1>1. /\ CpuMemoria \in Conexiones /\ CpuMemoria \in Principales
      /\ KernelDispatch \in Conexiones /\ KernelDispatch \in Principales
      /\ KernelInterrupt \in Conexiones /\ KernelInterrupt \in Principales
      /\ "c" \in Lados /\ "s" \in Lados /\ "cpu" \in Modulos
  BY ConexionesEs, LadosEs, ModulosEs DEF Principales
<1>2. /\ "pide" \in Comunes
      /\ {"exit", "io", "vuelve"} \subseteq Comunes
  BY DEF Mensajes, Comunes
<1>3. ASSUME NEW c \in Principales, NEW l \in Lados, Agotada(c, l) \/ NoEnvia(c, l),
             Termina("cpu"), EnFuncion("cpu")
      PROVE  EfectoCaida
  BY <1>1, <1>3, CortadaEs, ConexionesEs DEF EfectoCaida, Motivo
<1>4. UNCHANGED << vida, cerrado >> => EfectoCaida
  BY DEF EfectoCaida
<1>5. CASE CicloRecibe
  <2>1. CASE Recibe(KernelDispatch, "s", "pcb") /\ SigueCpu /\ UNCHANGED roto
    BY <2>1, <1>1, <1>4, RedRecibe DEF SigueCpu
  <2>2. CASE SigueCpu /\ UNCHANGED << buzon, roto >>
    BY <2>2, <1>4, RedIgual DEF SigueCpu
  <2> QED
    BY <1>5, <2>1, <2>2 DEF CicloRecibe
<1>6. CASE CicloPide
  <2>1. CASE Envia(CpuMemoria, "c", "pide") /\ SigueCpu
    BY <2>1, <1>1, <1>2, <1>4, RedEnvia DEF SigueCpu
  <2>2. CASE SigueCpu /\ UNCHANGED << buzon, roto >>
    BY <2>2, <1>4, RedIgual DEF SigueCpu
  <2>3. CASE NoEnvia(CpuMemoria, "c") /\ Termina("cpu") /\ UNCHANGED << buzon, roto >>
    BY <2>3, <1>1, <1>3, <1>6, RedIgual DEF CicloPide, Ciclo, Listo
  <2> QED
    BY <1>6, <2>1, <2>2, <2>3 DEF CicloPide
<1>7. CASE CicloMemoria
  <2>1. CASE Recibe(CpuMemoria, "c", "dato") /\ SigueCpu /\ UNCHANGED roto
    BY <2>1, <1>1, <1>4, RedRecibe DEF SigueCpu
  <2>2. CASE SigueCpu /\ UNCHANGED << buzon, roto >>
    BY <2>2, <1>4, RedIgual DEF SigueCpu
  <2>3. CASE Agotada(CpuMemoria, "c") /\ Termina("cpu") /\ UNCHANGED << buzon, roto >>
    BY <2>3, <1>1, <1>3, <1>7, RedIgual DEF CicloMemoria, Ciclo, Listo
  <2> QED
    BY <1>7, <2>1, <2>2, <2>3 DEF CicloMemoria
<1>8. CASE CicloContesta
  <2>1. CASE /\ \E msg \in {"exit", "io", "vuelve"} : Envia(KernelDispatch, "s", msg)
             /\ SigueCpu
    BY <2>1, <1>1, <1>2, <1>4, RedEnvia DEF SigueCpu
  <2>2. CASE NoEnvia(KernelDispatch, "s") /\ Termina("cpu") /\ UNCHANGED << buzon, roto >>
    BY <2>2, <1>1, <1>3, <1>8, RedIgual DEF CicloContesta, Listo
  <2> QED
    BY <1>8, <2>1, <2>2 DEF CicloContesta
<1>9. CASE HiloInterrupcion
  <2>1. CASE Recibe(KernelInterrupt, "s", "orden") /\ SigueCpu /\ UNCHANGED roto
    BY <2>1, <1>1, <1>4, RedRecibe DEF SigueCpu
  <2>2. CASE /\ Agotada(KernelInterrupt, "s") /\ Termina("cpu")
             /\ UNCHANGED << buzon, roto >>
    BY <2>2, <1>1, <1>3, <1>9, RedIgual DEF HiloInterrupcion, Listo
  <2> QED
    BY <1>9, <2>1, <2>2 DEF HiloInterrupcion
<1>10. CASE CicloRechazado
  <2>1. PICK msg \in {"desconoce", "invalido"} :
           /\ Recibe(CpuMemoria, "c", msg)
           /\ SigueCpu \/ Falla("cpu")
    BY <1>10 DEF CicloRechazado
  <2>2. roto' = roto /\ EnFuncion("cpu")
    BY <1>10 DEF CicloRechazado, Ciclo, Listo
  <2>3. RedBien
    BY <2>1, <2>2, <1>1, RedRecibe
  <2> QED
    BY <2>1, <2>2, <2>3, <1>1, <1>4, FallaEs DEF SigueCpu
<1>11. CASE CicloDesfasado
  <2>1. CASE /\ HayMensaje(CpuMemoria, "c", "desconoce")
             /\ buzon' = [buzon EXCEPT ![CpuMemoria]["c"] = << "resto" >> \o Tail(@)]
             /\ SigueCpu /\ UNCHANGED roto
    BY <2>1, <1>4, RedDeja DEF SigueCpu
  <2>2. CASE Recibe(CpuMemoria, "c", "resto") /\ SigueCpu /\ UNCHANGED roto
    BY <2>2, <1>1, <1>4, RedRecibe DEF SigueCpu
  <2> QED
    BY <1>11, <2>1, <2>2 DEF CicloDesfasado
<1> QED
  BY <1>5, <1>6, <1>7, <1>8, <1>9, <1>10, <1>11 DEF CicloCpu

LEMMA ObraMemoria ==
  ASSUME TipoBuzon, TipoCierres, MemoriaEnObra
  PROVE  RedBien /\ EfectoCaida
<1>1. /\ CpuMemoria \in Conexiones /\ KernelMemoria \in Conexiones
      /\ KernelMemoria \in Principales /\ "s" \in Lados /\ "memoria" \in Modulos
  BY ConexionesEs, LadosEs, ModulosEs DEF Principales
<1>2. /\ Respuestas("ok", "no_existe") \subseteq Comunes
      /\ Respuestas("dato", "invalido") \subseteq Comunes
      /\ "desconoce" \in Mensajes /\ Comunes \subseteq Mensajes
  BY DEF Mensajes, Comunes, Respuestas
<1>3. UNCHANGED << vida, cerrado >> => EfectoCaida
  BY DEF EfectoCaida
<1>4. CASE MemoriaKernel
  <2>1. CASE /\ \E res \in Respuestas("ok", "no_existe") :
                     Contesta(KernelMemoria, "s", "crea", res)
             /\ UNCHANGED << vida, cerrado >>
    <3>1. PICK res \in Respuestas("ok", "no_existe") : Contesta(KernelMemoria, "s", "crea", res)
      BY <2>1
    <3>2. RedBien
      BY <3>1, <1>1, <1>2, RedContesta DEF Comunes
    <3> QED
      BY <2>1, <3>2, <1>3
  <2>2. CASE Recibe(KernelMemoria, "s", "term") /\ UNCHANGED << vida, cerrado, roto >>
    BY <2>2, <1>1, <1>3, RedRecibe
  <2>3. CASE /\ Agotada(KernelMemoria, "s") /\ Termina("memoria")
             /\ UNCHANGED << buzon, roto >>
    <3>1. EnFuncion("memoria") /\ ~Abierta(KernelMemoria)
      BY <2>3, <1>1, <1>4, CortadaEs DEF MemoriaKernel, Listo
    <3> QED
      BY <2>3, <3>1, <1>1, RedIgual DEF EfectoCaida, Motivo
  <2> QED
    BY <1>4, <2>1, <2>2, <2>3 DEF MemoriaKernel
<1>5. CASE MemoriaCpu
  <2>1. PICK res \in Respuestas("dato", "invalido") : Contesta(CpuMemoria, "s", "pide", res)
    BY <1>5 DEF MemoriaCpu
  <2>2. RedBien
    BY <2>1, <1>1, <1>2, RedContesta DEF Comunes
  <2> QED
    BY <1>3, <1>5, <2>2 DEF MemoriaCpu
<1>6. CASE MemoriaSinProceso
  <2>1. /\ Contesta(CpuMemoria, "s", "pide", "desconoce") /\ desconocio' = TRUE
        /\ UNCHANGED << vida, cerrado >>
    BY <1>6 DEF MemoriaSinProceso
  <2>2. RedBien
    BY <2>1, <1>1, <1>2, RedContesta
  <2> QED
    BY <1>3, <2>1, <2>2
<1>7. CASE MemoriaSinInstruccion
  <2>1. /\ EnFuncion("memoria") /\ Falla("memoria") /\ Recibe(CpuMemoria, "s", "pide")
        /\ roto' = roto
    BY <1>7 DEF MemoriaSinInstruccion, Listo
  <2> QED
    BY <2>1, <1>1, FallaEs, RedRecibe
<1> QED
  BY <1>4, <1>5, <1>6, <1>7 DEF MemoriaEnObra, AtiendeCpu

LEMMA ObraIO ==
  ASSUME TipoBuzon, TipoCierres, NEW i \in Interfaz, IO(i) \/ Teclea(i)
  PROVE  RedBien /\ EfectoCaida
<1>1. /\ IOKernel(i) \in Conexiones /\ IOMemoria(i) \in Conexiones
      /\ "c" \in Lados /\ i \in Modulos
  BY ConexionesEs, LadosEs, ModulosEs
<1>2. "ok" \in Comunes /\ "pide" \in Comunes
  BY DEF Mensajes, Comunes
<1>3. ASSUME NEW c \in {IOKernel(i), IOMemoria(i)}, Agotada(c, "c") \/ NoEnvia(c, "c"),
             Termina(i), EnFuncion(i)
      PROVE  EfectoCaida
  BY <1>1, <1>3, CortadaEs DEF EfectoCaida, Motivo
<1>4. UNCHANGED << vida, cerrado >> => EfectoCaida
  BY DEF EfectoCaida
<1>5. CASE IORecibe(i)
  <2>1. CASE Recibe(IOKernel(i), "c", "io") /\ SigueIO /\ UNCHANGED roto
    BY <2>1, <1>1, <1>4, RedRecibe DEF SigueIO
  <2>2. CASE SigueIO /\ UNCHANGED << buzon, roto >>
    BY <2>2, <1>4, RedIgual DEF SigueIO
  <2>3. CASE Agotada(IOKernel(i), "c") /\ Termina(i) /\ UNCHANGED << buzon, roto >>
    BY <2>3, <1>1, <1>3, <1>5, RedIgual DEF IORecibe, Turno, Listo
  <2> QED
    BY <1>5, <2>1, <2>2, <2>3 DEF IORecibe
<1>6. CASE IOPide(i)
  <2>1. CASE Envia(IOMemoria(i), "c", "pide") /\ SigueIO
    BY <2>1, <1>1, <1>2, <1>4, RedEnvia DEF SigueIO
  <2>2. CASE SigueIO /\ UNCHANGED << buzon, roto >>
    BY <2>2, <1>4, RedIgual DEF SigueIO
  <2>3. CASE NoEnvia(IOMemoria(i), "c") /\ Termina(i) /\ UNCHANGED << buzon, roto >>
    BY <2>3, <1>1, <1>3, <1>6, RedIgual DEF IOPide, Turno, Listo
  <2> QED
    BY <1>6, <2>1, <2>2, <2>3 DEF IOPide, SinMemoria
<1>7. CASE IOMemoriaResponde(i)
  <2>1. CASE Recibe(IOMemoria(i), "c", "dato") /\ SigueIO /\ UNCHANGED roto
    BY <2>1, <1>1, <1>4, RedRecibe DEF SigueIO
  <2>2. CASE SigueIO /\ UNCHANGED << buzon, roto >>
    BY <2>2, <1>4, RedIgual DEF SigueIO
  <2>3. CASE Agotada(IOMemoria(i), "c") /\ Termina(i) /\ UNCHANGED << buzon, roto >>
    BY <2>3, <1>1, <1>3, <1>7, RedIgual DEF IOMemoriaResponde, Turno, Listo
  <2> QED
    BY <1>7, <2>1, <2>2, <2>3 DEF IOMemoriaResponde, SinMemoria
<1>8. CASE IOResponde(i)
  <2>1. CASE Envia(IOKernel(i), "c", "ok") /\ SigueIO
    BY <2>1, <1>1, <1>2, <1>4, RedEnvia DEF SigueIO
  <2>2. CASE NoEnvia(IOKernel(i), "c") /\ Termina(i) /\ UNCHANGED << buzon, roto >>
    BY <2>2, <1>1, <1>3, <1>8, RedIgual DEF IOResponde, Turno, Listo
  <2> QED
    BY <1>8, <2>1, <2>2 DEF IOResponde
<1>9. CASE Teclea(i)
  BY <1>4, <1>9, RedIgual DEF Teclea, SigueIO
<1>10. CASE IOFalla(i)
  <2>1. EnFuncion(i) /\ Falla(i) /\ Recibe(IOKernel(i), "c", "io") /\ roto' = roto
    BY <1>10 DEF IOFalla, Turno, Listo
  <2> QED
    BY <2>1, <1>1, FallaEs, RedRecibe
<1>11. CASE IORechazada(i)
  <2>1. /\ EnFuncion(i) /\ Recibe(IOMemoria(i), "c", "invalido") /\ roto' = roto
        /\ SigueIO \/ Falla(i)
    BY <1>11 DEF IORechazada, Turno, Listo
  <2>2. RedBien
    BY <2>1, <1>1, RedRecibe
  <2> QED
    BY <2>1, <2>2, <1>1, <1>4, FallaEs DEF SigueIO
<1> QED
  BY <1>5, <1>6, <1>7, <1>8, <1>9, <1>10, <1>11 DEF IO

EnObra ==
    \/ KernelEnObra \/ MemoriaEnObra \/ CicloCpu \/ HiloInterrupcion
    \/ \E i \in Interfaz : IO(i) \/ Teclea(i)

\* The work of the programs past their start: it moves no main thread, queue,
\* thread of a connection or descriptor.
LEMMA ObraEs ==
  ASSUME TipoBuzon, TipoCierres, EnObra
  PROVE  /\ RedBien /\ EfectoCaida /\ EfectoHistoria
         /\ UNCHANGED << paso, pendientes, hilo, fdVars >>
<1> DEFINE Nada == UNCHANGED << paso, pendientes, hilo, fdVars >>
           Falle == fallados' = fallados \/ \E m \in Modulos : fallados' = fallados \cup {m}
<1>1. ASSUME KernelEnObra
      PROVE  Nada /\ EfectoHistoria
  <2>1. Nada /\ UNCHANGED << inicioVars, desconocio >>
    BY <1>1 DEF KernelEnObra, KernelTrabaja, KernelCrea, KernelConfirma, KernelDespacha,
       KernelContexto, KernelTermina, KernelOrdena, KernelSinPath, KernelCae, SinTocar,
       SinTocarNada, historia
  <2>2. Falle
    BY <1>1, ModulosEs DEF KernelEnObra, KernelTrabaja, KernelCrea, KernelConfirma,
       KernelDespacha, KernelContexto, KernelTermina, KernelOrdena, KernelSinPath, KernelCae,
       SinTocar, historia, Falla
  <2> QED
    BY <2>1, <2>2 DEF EfectoHistoria
<1>2. ASSUME CicloCpu \/ HiloInterrupcion
      PROVE  Nada /\ EfectoHistoria
  <2>1. Nada /\ UNCHANGED << inicioVars, desconocio >>
    BY <1>2 DEF CicloCpu, CicloRecibe, CicloPide, CicloMemoria, CicloContesta,
       CicloRechazado, CicloDesfasado, HiloInterrupcion, SoloCpu, SoloCiclo, historia
  <2>2. Falle
    BY <1>2, ModulosEs DEF CicloCpu, CicloRecibe, CicloPide, CicloMemoria, CicloContesta,
       CicloRechazado, CicloDesfasado, HiloInterrupcion, SoloCpu, historia, Falla
  <2> QED
    BY <2>1, <2>2 DEF EfectoHistoria
<1>3. ASSUME MemoriaEnObra
      PROVE  Nada /\ EfectoHistoria
  <2>1. Nada /\ UNCHANGED inicioVars /\ desconocio' \in {desconocio, TRUE}
    BY <1>3 DEF MemoriaEnObra, MemoriaKernel, AtiendeCpu, MemoriaCpu, MemoriaSinProceso,
       MemoriaSinInstruccion, SoloMemoria, SoloAtiende
  <2>2. Falle
    BY <1>3, ModulosEs DEF MemoriaEnObra, MemoriaKernel, AtiendeCpu, MemoriaCpu,
       MemoriaSinProceso, MemoriaSinInstruccion, SoloMemoria, Falla
  <2> QED
    BY <2>1, <2>2 DEF EfectoHistoria
<1>4. ASSUME NEW i \in Interfaz, IO(i) \/ Teclea(i)
      PROVE  Nada /\ EfectoHistoria
  <2>1. Nada /\ UNCHANGED << inicioVars, desconocio >>
    BY <1>4 DEF IO, Teclea, IORecibe, IOPide, IOMemoriaResponde, IOResponde, IOFalla,
       IORechazada, SoloIO, SoloSuyo, historia
  <2>2. Falle
    BY <1>4, ModulosEs DEF IO, Teclea, IORecibe, IOPide, IOMemoriaResponde, IOResponde,
       IOFalla, IORechazada, SoloIO, historia, Falla
  <2> QED
    BY <2>1, <2>2 DEF EfectoHistoria
<1>5. RedBien /\ EfectoCaida
  BY ObraKernel, ObraCpu, ObraMemoria, ObraIO DEF EnObra
<1> QED
  BY <1>1, <1>2, <1>3, <1>4, <1>5 DEF EnObra

\* The thread of a connection: whose descriptor it uses, and what it does.
LEMMA RealEs ==
  ASSUME TipoHilos, Descriptores, NEW c \in DeInterfaz, hilo[c] # "ninguno"
  PROVE  /\ c[2] = "kernel" => /\ c \in AlKernel /\ Cliente(c) \in Interfaz
                               /\ c = IOKernel(Cliente(c)) /\ fd[Cliente(c)] \in Fds
                               /\ Real(c) = tabla[fd[Cliente(c)]]
                               /\ Real(c) \in AlKernel \cup {Libre}
         /\ c[2] # "kernel" => /\ c \in ALaMemoria /\ c[2] = "memoria" /\ Real(c) = c
                               /\ hilo[c] \in {"saludo", "sirve", "fin"}
         /\ Real(c) \in DeInterfaz \cup {Libre}
<1>1. CASE c \in AlKernel
  <2>1. PICK i \in Interfaz : c = IOKernel(i)
    BY <1>1 DEF AlKernel
  <2>2. c[2] = "kernel" /\ Cliente(c) = i
    BY <2>1 DEF IOKernel, Cliente
  <2>3. fd[i] \in Fds
    BY <2>1 DEF Descriptores
  <2>4. Real(c) = tabla[fd[i]] /\ Real(c) \in AlKernel \cup {Libre}
    BY <2>2, <2>3 DEF Real, TipoHilos
  <2> QED
    BY <1>1, <2>1, <2>2, <2>3, <2>4, ConexionesEs
<1>2. CASE c \in ALaMemoria
  <2>1. PICK i \in Interfaz : c = IOMemoria(i)
    BY <1>2 DEF ALaMemoria
  <2>2. c[2] = "memoria"
    BY <2>1 DEF IOMemoria
  <2>3. Real(c) = c
    BY <2>2 DEF Real
  <2>4. hilo[c] \in {"saludo", "sirve", "fin"}
    BY <2>1 DEF TipoHilos
  <2> QED
    BY <1>2, <2>2, <2>3, <2>4
<1> QED
  BY <1>1, <1>2, ConexionesEs

Vivas == {"saludo", "nombre", "sirve", "resultado"}
EfectoHilo(c) ==
    \/ UNCHANGED << vida, cerrado >>
    \/ /\ UNCHANGED vida /\ EnFuncion(Servidor(c[2]))
       /\ Real(c) # Libre /\ Cierra(Real(c), "s")
       /\ hilo[c] # "cierra" => SinMas(c)
       /\ c[2] = "kernel" => tabla' = [tabla EXCEPT ![fd[Cliente(c)]] = Libre]
    \/ /\ EnFuncion("kernel") /\ Termina("kernel") /\ ~Abierta(KernelMemoria)
    \/ /\ EnFuncion("kernel") /\ Termina("kernel")
       /\ c[2] = "kernel" /\ hilo[c] = "nombre" /\ SinMas(c) /\ UNCHANGED << hilo, tabla >>
EfectoTabla(c) ==
    \/ UNCHANGED << hilo, tabla >>
    \/ /\ c[2] = "memoria" /\ EnFuncion("memoria") /\ UNCHANGED tabla
       /\ Pasa(c, "sirve") \/ Pasa(c, "fin")
    \/ /\ c[2] = "kernel" /\ EnFuncion("kernel") /\ UNCHANGED tabla
       /\ \/ hilo[c] \in Vivas /\ \E e \in Vivas : Pasa(c, e)
          \/ hilo[c] = "libera" /\ Pasa(c, "cierra")
    \/ /\ c[2] = "kernel" /\ EnFuncion("kernel")
       /\ tabla' = [tabla EXCEPT ![fd[Cliente(c)]] = Libre]
       /\ \/ hilo[c] = "cierra" /\ Pasa(c, "fin")
          \/ hilo[c] = "saludo" /\ Pasa(c, "fin") /\ SinMas(c)
          \/ hilo[c] = "resultado" /\ Pasa(c, "libera") /\ SinMas(c)

LEMMA HiloEs ==
  ASSUME TipoBuzon, TipoCierres, TipoHilos, TipoTrabajo, Descriptores,
         NEW c \in DeInterfaz, Hilo(c)
  PROVE  /\ RedBien /\ EfectoHilo(c) /\ EfectoTabla(c)
         /\ UNCHANGED << paso, pendientes, fd, historia >>
         /\ hilo[c] # "ninguno"
<1> DEFINE Nada == UNCHANGED << paso, pendientes, fd, historia >>
<1>1. hilo[c] # "ninguno"
  BY DEF Hilo, HiloSaluda, MemoriaInterfaz, HiloNombre, HiloPide, HiloResultado,
     HiloLibera, HiloCierra
<1>2. /\ c[2] = "kernel" => /\ fd[Cliente(c)] \in Fds /\ Servidor(c[2]) = "kernel"
                            /\ Real(c) \in AlKernel \cup {Libre}
      /\ c[2] # "kernel" => /\ c[2] = "memoria" /\ Servidor(c[2]) = "memoria" /\ Real(c) = c
                            /\ hilo[c] \in {"saludo", "sirve", "fin"}
      /\ Real(c) \in DeInterfaz \cup {Libre} /\ DeInterfaz \subseteq Conexiones
      /\ "s" \in Lados /\ "c" \in Lados /\ KernelMemoria \in Conexiones
  BY <1>1, RealEs, ConexionesEs, LadosEs DEF Servidor
<1>3. /\ "io" \in Comunes /\ "term" \in Comunes
      /\ "0" \in Mensajes /\ Comunes \subseteq Mensajes
      /\ Respuestas("dato", "invalido") \subseteq Comunes
  BY DEF Mensajes, Comunes, Respuestas
<1>4. UNCHANGED << vida, cerrado >> => EfectoHilo(c)
  BY DEF EfectoHilo
<1>5. CASE HiloSaluda(c)
  <2>1. Nada
    BY <1>5 DEF HiloSaluda, CierraHilo, Sigan, SoloHilo, fdVars
  <2>2. CASE /\ Real(c) # Libre /\ Contesta(Real(c), "s", "saludo", "0")
             /\ Pasa(c, IF c[2] = "kernel" THEN "nombre" ELSE "sirve")
             /\ UNCHANGED << cerrado, fdVars, vida >>
    <3>1. RedBien
      BY <2>2, <1>2, <1>3, RedContesta
    <3>2. EfectoTabla(c)
      BY <1>2, <1>5, <2>2 DEF EfectoTabla, Vivas, fdVars, HiloSaluda
    <3> QED
      BY <2>1, <2>2, <3>1, <3>2, <1>1, <1>4
  <2>3. CASE /\ SinMas(c) /\ CierraHilo(c) /\ Pasa(c, "fin")
             /\ UNCHANGED << buzon, roto, vida >>
    <3>1. RedBien
      BY <2>3, RedIgual
    <3>2. EfectoHilo(c)
      BY <1>5, <2>3, <1>2 DEF CierraHilo, EfectoHilo, HiloSaluda
    <3>3. EfectoTabla(c)
      BY <1>2, <1>5, <2>3 DEF EfectoTabla, CierraHilo, HiloSaluda
    <3> QED
      BY <2>1, <3>1, <3>2, <3>3, <1>1
  <2> QED
    BY <1>5, <2>2, <2>3 DEF HiloSaluda, Sigan
<1>6. CASE MemoriaInterfaz(c)
  <2>1. Nada
    BY <1>6 DEF MemoriaInterfaz, Sigan, SoloHilo, fdVars
  <2>2. CASE /\ \E res \in Respuestas("dato", "invalido") : Contesta(c, "s", "pide", res)
             /\ UNCHANGED << hilo, cerrado, fdVars, vida >>
    <3>0. PICK res \in Respuestas("dato", "invalido") : Contesta(c, "s", "pide", res)
      BY <2>2
    <3>1. RedBien
      BY <3>0, <1>2, <1>3, RedContesta DEF Comunes
    <3>2. EfectoTabla(c)
      BY <2>2 DEF EfectoTabla, fdVars
    <3> QED
      BY <2>1, <2>2, <3>1, <3>2, <1>1, <1>4
  <2>3. CASE /\ Agotada(c, "s") /\ Cierra(c, "s") /\ Pasa(c, "fin")
             /\ UNCHANGED << buzon, roto, fdVars, vida >>
    <3>1. RedBien
      BY <2>3, RedIgual
    <3>2. Real(c) = c /\ EnFuncion("memoria") /\ EnFuncion(Servidor(c[2])) /\ c # Libre
          /\ c[2] = "memoria"
      BY <1>6, <1>2 DEF MemoriaInterfaz, Libre, DeInterfaz, IOMemoria, IOKernel
    <3>3. EfectoHilo(c) /\ EfectoTabla(c)
      BY <2>3, <3>2 DEF EfectoHilo, EfectoTabla, SinMas, fdVars
    <3> QED
      BY <2>1, <3>1, <3>3, <1>1
  <2> QED
    BY <1>6, <2>2, <2>3 DEF MemoriaInterfaz, Sigan
<1>7. CASE HiloNombre(c)
  <2>1. Nada /\ c[2] = "kernel" /\ EnFuncion("kernel")
    BY <1>7, <1>2 DEF HiloNombre, SoloHilo, fdVars
  <2>2. CASE /\ Real(c) # Libre /\ Recibe(Real(c), "s", "nombre") /\ Pasa(c, "sirve")
             /\ UNCHANGED << vida, cerrado, roto, fdVars >>
    <3>1. RedBien
      BY <2>2, <1>2, RedRecibe
    <3>2. EfectoTabla(c)
      BY <1>7, <2>1, <1>2, <2>2 DEF EfectoTabla, Vivas, fdVars, HiloNombre
    <3> QED
      BY <2>1, <2>2, <3>1, <3>2, <1>1, <1>4
  <2>3. CASE SinMas(c) /\ Termina("kernel") /\ UNCHANGED << hilo, buzon, roto, fdVars >>
    <3>1. RedBien
      BY <2>3, RedIgual
    <3>2. EfectoHilo(c) /\ EfectoTabla(c)
      BY <1>7, <2>1, <2>3 DEF EfectoHilo, EfectoTabla, fdVars, HiloNombre
    <3> QED
      BY <2>1, <3>1, <3>2, <1>1
  <2> QED
    BY <1>7, <2>2, <2>3 DEF HiloNombre, RecibeHilo
<1>8. CASE HiloPide(c)
  <2>1. Nada /\ c[2] = "kernel" /\ EnFuncion("kernel")
    BY <1>8 DEF HiloPide, SinMain, fdVars, TipoTrabajo, AlKernel, IOKernel, DeInterfaz,
       IOMemoria, Libre
  <2>2. RedBien
    <3>1. CASE Real(c) # Libre /\ Envia(Real(c), "s", "io")
      BY <3>1, <1>2, <1>3, RedEnvia
    <3>2. CASE UNCHANGED << buzon, roto >>
      BY <3>2, RedIgual
    <3> QED
      BY <1>8, <3>1, <3>2 DEF HiloPide
  <2>3. EfectoHilo(c) /\ EfectoTabla(c)
    BY <1>8, <1>2, <1>4, <2>1 DEF HiloPide, SigueKernel, EfectoTabla, Vivas, fdVars
  <2> QED
    BY <2>1, <2>2, <2>3, <1>1
<1>9. CASE HiloResultado(c)
  <2>1. Nada /\ c[2] = "kernel" /\ EnFuncion("kernel")
    BY <1>9, <1>2 DEF HiloResultado, SinMain, CierraHilo, fdVars
  <2>2. CASE /\ Real(c) # Libre /\ Recibe(Real(c), "s", "ok") /\ Pasa(c, "sirve")
             /\ UNCHANGED << vida, cerrado, roto, fdVars >>
    <3>1. RedBien
      BY <2>2, <1>2, RedRecibe
    <3>2. EfectoTabla(c)
      BY <1>9, <2>1, <1>2, <2>2 DEF EfectoTabla, Vivas, fdVars, HiloResultado
    <3> QED
      BY <2>1, <2>2, <3>1, <3>2, <1>1, <1>4
  <2>3. CASE /\ SinMas(c) /\ CierraHilo(c) /\ Pasa(c, "libera")
             /\ UNCHANGED << buzon, roto, vida >>
    <3>1. RedBien
      BY <2>3, RedIgual
    <3>2. EfectoHilo(c) /\ EfectoTabla(c)
      BY <1>9, <2>1, <2>3, <1>2 DEF CierraHilo, EfectoHilo, EfectoTabla, HiloResultado
    <3> QED
      BY <2>1, <3>1, <3>2, <1>1
  <2> QED
    BY <1>9, <2>2, <2>3 DEF HiloResultado, RecibeHilo
<1>10. CASE HiloLibera(c)
  <2>1. Nada /\ c[2] = "kernel" /\ EnFuncion("kernel")
    BY <1>10, <1>2 DEF HiloLibera, SinMain, fdVars
  <2>2. EfectoTabla(c)
    BY <1>10, <1>2, <2>1 DEF EfectoTabla, HiloLibera, fdVars
  <2>3. CASE Envia(KernelMemoria, "c", "term") /\ SigueKernel
    BY <2>1, <2>2, <2>3, <1>1, <1>2, <1>3, <1>4, RedEnvia DEF SigueKernel
  <2>4. CASE NoEnvia(KernelMemoria, "c") /\ Termina("kernel") /\ UNCHANGED << buzon, roto >>
    <3>1. EfectoHilo(c)
      BY <2>1, <2>4, <1>2, CortadaEs DEF EfectoHilo
    <3> QED
      BY <2>1, <2>2, <2>4, <3>1, <1>1, RedIgual
  <2> QED
    BY <1>10, <2>3, <2>4 DEF HiloLibera, FinalizaEnMemoria
<1>11. CASE HiloCierra(c)
  <2>1. Nada /\ c[2] = "kernel" /\ EnFuncion("kernel")
    BY <1>11, <1>2 DEF HiloCierra, SinMain, CierraHilo, fdVars
  <2>2. RedBien
    BY <1>11, RedIgual DEF HiloCierra
  <2>3. EfectoHilo(c) /\ EfectoTabla(c)
    BY <1>11, <2>1, <1>2 DEF HiloCierra, CierraHilo, EfectoHilo, EfectoTabla
  <2> QED
    BY <2>1, <2>2, <2>3, <1>1
<1> QED
  BY <1>5, <1>6, <1>7, <1>8, <1>9, <1>10, <1>11 DEF Hilo

-----------------------------------------------------------------------------
(* The main threads.                                                        *)

\* Which step Main(m) is.
MainCasos(m) ==
    \/ \E p \in Puertos : /\ Toca(m, "escucha", p) /\ Servidor(p) = m
                          /\ Sigue(m) /\ SinRed /\ SoloMain
    \/ \E c \in Conexiones : /\ Cliente(c) = m /\ c[2] \in Puertos
                             /\ Connect(m, c) \/ Saluda(m, c) \/ Respuesta(m, c)
    \/ \E c \in Principales : Servidor(c[2]) = m /\ Espera(m, c)
    \/ m = "memoria" /\ paso[m] = 3 /\ EnviaTamPagina
    \/ m = "cpu" /\ paso[m] = 4 /\ ObtieneTamPagina
    \/ m \in Interfaz /\ EnviaNombre(m)

LEMMA LargoGuion ==
  ASSUME TipoProgramas, NEW m \in Modulos
  PROVE  Len(Guion(m)) \in Nat /\ Len(Guion(m)) >= 4
<1>1. m \in Interfaz => Len(Guion(m)) = 4 \/ Len(Guion(m)) = 7
  BY TiposEs, GuionInterfazEs
<1>2. m = "memoria" => Len(Guion(m)) = 4
  BY GuionMemoriaEs
<1>3. m = "cpu" => Len(Guion(m)) = 8
  BY GuionCpuEs
<1>4. m = "kernel" => Len(Guion(m)) = 10
  BY GuionKernelEs
<1> QED
  BY <1>1, <1>2, <1>3, <1>4, ModulosEs

LEMMA MainToca ==
  ASSUME TipoProgramas, NEW m \in Modulos, Main(m)
  PROVE  MainCasos(m) /\ EnFuncion(m) /\ paso[m] \in 1 .. Len(Guion(m))
<1>1. EnFuncion(m) /\ paso[m] \in 1 .. Len(Guion(m))
  <2>1. EnFuncion(m) /\ ~(paso[m] > Len(Guion(m)))
    BY DEF Main, Listo
  <2>2. paso[m] \in 1 .. (Len(Guion(m)) + 1) /\ Len(Guion(m)) \in Nat
    BY LargoGuion DEF TipoProgramas
  <2> QED
    BY <2>1, <2>2
<1>2. PasoValido(m, paso[m])
  BY <1>1, PasoEs, TiposEs
<1>3. CASE \E p \in Puertos : Guion(m)[paso[m]] = << "escucha", p >> /\ Servidor(p) = m
  <2>1. PICK p \in Puertos : Guion(m)[paso[m]] = << "escucha", p >> /\ Servidor(p) = m
    BY <1>3
  <2>2. Guion(m)[paso[m]][2] = p
    BY <2>1
  <2>3. Escuchar(m, p)
    BY <2>1, <2>2 DEF Main, Toca, Connect, Saluda, Respuesta, Espera, EnviaTamPagina,
       ObtieneTamPagina, EnviaNombre, MandaDato
  <2> QED
    BY <2>1, <2>3, <1>1 DEF MainCasos, Escuchar
<1>4. CASE \E c \in Conexiones, v \in {"connect", "saluda", "respuesta"} :
              /\ Guion(m)[paso[m]] = << v, c >> /\ Cliente(c) = m
              /\ c[2] \in Puertos
  <2>1. PICK c \in Conexiones, v \in {"connect", "saluda", "respuesta"} :
              /\ Guion(m)[paso[m]] = << v, c >> /\ Cliente(c) = m
              /\ c[2] \in Puertos
    BY <1>4
  <2>2. Guion(m)[paso[m]][2] = c
    BY <2>1
  <2>3. Connect(m, c) \/ Saluda(m, c) \/ Respuesta(m, c)
    BY <2>1, <2>2 DEF Main, Toca, Escuchar, Espera, EnviaTamPagina, ObtieneTamPagina,
       EnviaNombre, MandaDato
  <2> QED
    BY <2>1, <2>3, <1>1 DEF MainCasos
<1>5. CASE \E c \in Principales :
              Guion(m)[paso[m]] = << "espera", c >> /\ Servidor(c[2]) = m
  <2>1. PICK c \in Principales :
              Guion(m)[paso[m]] = << "espera", c >> /\ Servidor(c[2]) = m
    BY <1>5
  <2>2. Guion(m)[paso[m]][2] = c
    BY <2>1
  <2>3. Espera(m, c)
    BY <2>1, <2>2 DEF Main, Toca, Escuchar, Connect, Saluda, Respuesta, EnviaTamPagina,
       ObtieneTamPagina, EnviaNombre, MandaDato
  <2> QED
    BY <2>1, <2>3, <1>1 DEF MainCasos
<1>6. CASE m = "memoria" /\ paso[m] = 3 /\ Guion(m)[paso[m]] = << "envia_tam", CpuMemoria >>
  <2>1. EnviaTamPagina
    BY <1>6, ModulosEs DEF Main, Toca, Escuchar, Connect, Saluda, Respuesta, Espera,
       ObtieneTamPagina, EnviaNombre, MandaDato
  <2> QED
    BY <1>1, <1>6, <2>1 DEF MainCasos
<1>7. CASE m = "cpu" /\ paso[m] = 4 /\ Guion(m)[paso[m]] = << "recibe_tam", CpuMemoria >>
  <2>1. ObtieneTamPagina
    BY <1>7, ModulosEs DEF Main, Toca, Escuchar, Connect, Saluda, Respuesta, Espera,
       EnviaTamPagina, EnviaNombre, MandaDato
  <2> QED
    BY <1>1, <1>7, <2>1 DEF MainCasos
<1>8. CASE m \in Interfaz /\ Guion(m)[paso[m]] = << "nombre", IOKernel(m) >>
  <2>1. EnviaNombre(m)
    BY <1>8, ModulosEs DEF Main, Toca, Escuchar, Connect, Saluda, Respuesta, Espera,
       EnviaTamPagina, ObtieneTamPagina
  <2> QED
    BY <1>1, <1>8, <2>1 DEF MainCasos
<1> QED
  BY <1>1, <1>2, <1>3, <1>4, <1>5, <1>6, <1>7, <1>8 DEF PasoValido

Avanza(m) ==
    /\ \A c \in Conexiones : Toca(m, "connect", c) => Escucha(c[2])
    /\ \A c \in Conexiones : Toca(m, "respuesta", c) => Trae(c, "0") \/ ~Abierta(c)
    /\ \A c \in Conexiones : Toca(m, "recibe_tam", c) => Trae(CpuMemoria, "tam")
    /\ \A c \in Principales :
          Toca(m, "espera", c) => /\ pendientes[c[2]] # << >> /\ Head(pendientes[c[2]]) = c
                                  /\ pendientes' = [pendientes EXCEPT ![c[2]] = Tail(@)]
MotivoMain(m) ==
    \/ \E c \in Conexiones : Toca(m, "connect", c) /\ Cliente(c) = m /\ ~Escucha(c[2])
    \/ \E c \in Principales : /\ Toca(m, "espera", c)
                              /\ pendientes[c[2]] # << >> /\ Head(pendientes[c[2]]) # c
    \/ Motivo(m)
ColasMain(m) ==
    \/ pendientes' = pendientes
    \/ \E c \in Conexiones : /\ Toca(m, "connect", c) /\ Cliente(c) = m /\ c[2] \in Puertos
                             /\ Sigue(m)
                             /\ pendientes' = [pendientes EXCEPT ![c[2]] = Append(@, c)]
    \/ \E c \in Principales : /\ Toca(m, "espera", c) /\ pendientes[c[2]] # << >>
                              /\ pendientes' = [pendientes EXCEPT ![c[2]] = Tail(@)]
MensajesMain(m) ==
    \A d \in Principales, x \in {"0", "tam"} :
        x \in Contenido(buzon', d, "c") =>
            \/ x \in Contenido(buzon, d, "c")
            \/ x = "0" /\ Toca(m, "espera", d)
            \/ x = "tam" /\ Toca(m, "envia_tam", d)
            \/ SeRinde(m) /\ \E c \in Principales :
                  /\ Toca(m, "espera", c)
                  /\ pendientes[c[2]] # << >> /\ Head(pendientes[c[2]]) # c
RedMain ==
    TipoBuzon' /\ roto' \in [Conexiones -> SUBSET Lados] /\ EfectoRoto /\ SinRechazos
EfectoMain(m) ==
    /\ RedMain /\ ColasMain(m) /\ MensajesMain(m) /\ SoloMain
    /\ \/ Sigue(m) /\ Avanza(m)
       \/ SeRinde(m) /\ MotivoMain(m)

LEMMA TocaUno ==
  ASSUME NEW m, NEW v, NEW c, NEW w, NEW d, Toca(m, v, c), Toca(m, w, d)
  PROVE  v = w /\ c = d
<1>1. << v, c >> = << w, d >>
  BY DEF Toca
<1> QED
  BY <1>1

LEMMA SonMensajes ==
  {"saludo", "0", "tam", "nombre"} \subseteq Mensajes
  BY DEF Mensajes

\* The connections of a program are the main ones or its own.
LEMMA DeQuien ==
  ASSUME NEW c \in Conexiones, Cliente(c) \in Modulos, ~Abierta(c)
  PROVE  Motivo(Cliente(c))
<1>1. CASE c \in Principales
  <2>1. Cliente(c) \in {"cpu", "kernel"}
    BY <1>1 DEF Principales, Cliente, CpuMemoria, KernelMemoria, KernelDispatch, KernelInterrupt
  <2> QED
    BY <1>1, <2>1 DEF Motivo
<1>2. CASE c \in DeInterfaz
  <2>1. PICK i \in Interfaz : c = IOKernel(i) \/ c = IOMemoria(i)
    BY <1>2 DEF DeInterfaz
  <2>2. Cliente(c) = i
    BY <2>1 DEF IOKernel, IOMemoria, Cliente
  <2> QED
    BY <2>1, <2>2 DEF Motivo
<1> QED
  BY <1>1, <1>2, ConexionesEs

LEMMA MainEs ==
  ASSUME TipoProgramas, TipoColas, TipoBuzon, TipoCierres, NEW m \in Modulos, Main(m)
  PROVE  EfectoMain(m)
<1>1. MainCasos(m)
  BY MainToca
<1>2. "c" \in Lados /\ "s" \in Lados /\ Otro("c") = "s" /\ Otro("s") = "c"
      /\ Principales \subseteq Conexiones /\ CpuMemoria \in Conexiones
      /\ CpuMemoria \in Principales
  BY LadosEs, ConexionesEs DEF Principales
<1>3. ASSUME NEW p \in Puertos, Toca(m, "escucha", p), Sigue(m), SinRed, SoloMain
      PROVE  EfectoMain(m)
  <2>1. RedMain
    BY <1>3 DEF SinRed, RedMain, TipoBuzon, TipoCierres, EfectoRoto, SinRechazos
  <2>2. ColasMain(m) /\ MensajesMain(m)
    BY <1>3 DEF SinRed, ColasMain, MensajesMain
  <2>3. Avanza(m)
    BY <1>3, TocaUno DEF Avanza
  <2> QED
    BY <1>3, <2>1, <2>2, <2>3 DEF EfectoMain
<1>4. ASSUME NEW c \in Conexiones, Cliente(c) = m, c[2] \in Puertos, Connect(m, c)
      PROVE  EfectoMain(m)
  <2>0. Toca(m, "connect", c) /\ UNCHANGED << buzon, roto >> /\ SoloMain
    BY <1>4 DEF Connect
  <2>1. RedMain
    BY <2>0 DEF RedMain, TipoBuzon, TipoCierres, EfectoRoto, SinRechazos
  <2>2. MensajesMain(m)
    BY <2>0 DEF MensajesMain
  <2>3. CASE /\ Escucha(c[2]) /\ Sigue(m)
             /\ pendientes' = [pendientes EXCEPT ![c[2]] = Append(@, c)]
    <3>1. ColasMain(m)
      BY <2>0, <2>3, <1>4 DEF ColasMain
    <3>2. Avanza(m)
      BY <2>0, <2>3, TocaUno DEF Avanza
    <3> QED
      BY <2>0, <2>1, <2>2, <2>3, <3>1, <3>2 DEF EfectoMain
  <2>4. CASE ~Escucha(c[2]) /\ SeRinde(m) /\ UNCHANGED pendientes
    <3>1. ColasMain(m) /\ MotivoMain(m)
      BY <2>0, <2>4, <1>4 DEF ColasMain, MotivoMain
    <3> QED
      BY <2>0, <2>1, <2>2, <2>4, <3>1 DEF EfectoMain
  <2> QED
    BY <1>4, <2>3, <2>4 DEF Connect
<1>5. ASSUME NEW c \in Conexiones, Cliente(c) = m,
             NEW v \in {"saluda", "nombre"}, Toca(m, v, c),
             NEW msg \in {"saludo", "nombre"},
             \/ Envia(c, "c", msg) /\ Sigue(m)
             \/ NoEnvia(c, "c") /\ SeRinde(m) /\ UNCHANGED << buzon, roto >>,
             UNCHANGED pendientes, SoloMain
      PROVE  EfectoMain(m)
  <2>1. ColasMain(m)
    BY <1>5 DEF ColasMain
  <2>2. CASE Envia(c, "c", msg) /\ Sigue(m)
    <3>0. msg \in Mensajes
      BY SonMensajes
    <3>1. TipoBuzon' /\ roto' \in [Conexiones -> SUBSET Lados]
          /\ Llega(c, "c", msg) /\ EfectoRoto
      BY <2>2, <1>2, <3>0, EnviaEs
    <3>9. SinRechazos
      BY <3>1, LlegaEs
    <3>2. MensajesMain(m)
      BY <3>1, <1>2 DEF Llega, Agrega, MensajesMain
    <3>3. Avanza(m)
      BY <1>5, TocaUno DEF Avanza
    <3> QED
      BY <2>1, <2>2, <3>1, <3>9, <3>2, <3>3, <1>5 DEF EfectoMain, RedMain
  <2>3. CASE NoEnvia(c, "c") /\ SeRinde(m) /\ UNCHANGED << buzon, roto >>
    <3>1. RedMain
      BY <2>3 DEF RedMain, TipoBuzon, TipoCierres, EfectoRoto, SinRechazos
    <3>2. MensajesMain(m)
      BY <2>3 DEF MensajesMain
    <3>3. MotivoMain(m)
      BY <2>3, <1>2, <1>5, CortadaEs, DeQuien DEF MotivoMain
    <3> QED
      BY <2>1, <2>3, <3>1, <3>2, <3>3, <1>5 DEF EfectoMain
  <2> QED
    BY <1>5, <2>2, <2>3
<1>6. ASSUME NEW c \in Conexiones, Cliente(c) = m, Respuesta(m, c)
      PROVE  EfectoMain(m)
  <2>0. Toca(m, "respuesta", c) /\ UNCHANGED << pendientes, roto >> /\ SoloMain
    BY <1>6 DEF Respuesta
  <2>1. ColasMain(m)
    BY <2>0 DEF ColasMain
  <2>2. CASE Recibe(c, "c", "0") /\ Sigue(m)
    <3>1. TipoBuzon' /\ SoloLee /\ Trae(c, "0")
      BY <2>2, <1>2, RecibeEs DEF Trae
    <3>2. MensajesMain(m)
      BY <3>1, <1>2 DEF SoloLee, MensajesMain
    <3>3. Avanza(m)
      BY <2>0, <3>1, TocaUno DEF Avanza
    <3>4. RedMain
      BY <2>0, <3>1, SoloLeeEs DEF RedMain, TipoCierres, EfectoRoto
    <3> QED
      BY <2>0, <2>1, <2>2, <3>2, <3>3, <3>4 DEF EfectoMain
  <2>3. CASE Agotada(c, "c") /\ UNCHANGED buzon /\ (Sigue(m) \/ SeRinde(m))
    <3>1. RedMain
      BY <2>0, <2>3 DEF RedMain, TipoBuzon, TipoCierres, EfectoRoto, SinRechazos
    <3>2. MensajesMain(m)
      BY <2>3 DEF MensajesMain
    <3>3. ~Abierta(c)
      BY <2>3, <1>2, CortadaEs
    <3>4. MotivoMain(m)
      BY <3>3, <1>6, DeQuien DEF MotivoMain
    <3>5. Avanza(m)
      BY <2>0, <3>3, TocaUno DEF Avanza
    <3> QED
      BY <2>0, <2>1, <2>3, <3>1, <3>2, <3>4, <3>5 DEF EfectoMain
  <2> QED
    BY <1>6, <2>2, <2>3 DEF Respuesta
<1>7. ASSUME NEW c \in Principales, Servidor(c[2]) = m, Espera(m, c)
      PROVE  EfectoMain(m)
  <2> DEFINE d == Head(pendientes[c[2]])
  <2>0. /\ Toca(m, "espera", c) /\ pendientes[c[2]] # << >> /\ SoloMain
        /\ pendientes' = [pendientes EXCEPT ![c[2]] = Tail(@)]
        /\ \/ Contesta(d, "s", "saludo", "0") /\ IF d = c THEN Sigue(m) ELSE SeRinde(m)
           \/ Agotada(d, "s") /\ SeRinde(m) /\ UNCHANGED << buzon, roto >>
    BY <1>7 DEF Espera
  <2>1. d \in Conexiones /\ c \in Conexiones
    <3>1. c[2] \in Puertos
      BY DEF Principales, CpuMemoria, KernelMemoria, KernelDispatch, KernelInterrupt, Puertos
    <3>2. pendientes[c[2]] \in Seq(Conexiones)
      BY <3>1 DEF TipoColas
    <3> QED
      BY <2>0, <3>2, <1>2
  <2> HIDE DEF d
  <2>2. ColasMain(m)
    BY <2>0 DEF ColasMain
  <2>3. m \in {"memoria", "cpu", "kernel"}
    BY <1>7 DEF Principales, CpuMemoria, KernelMemoria, KernelDispatch, KernelInterrupt, Servidor
  <2>4. d # c => MotivoMain(m)
    BY <2>0 DEF MotivoMain, d
  <2>5. CASE Contesta(d, "s", "saludo", "0") /\ d = c /\ Sigue(m)
    <3>1. TipoBuzon' /\ roto' \in [Conexiones -> SUBSET Lados]
          /\ Llega(c, "s", "0") /\ EfectoRoto
      BY <2>1, <2>5, <1>2, SonMensajes, ContestaEs
    <3>9. SinRechazos
      BY <3>1, LlegaEs
    <3>2. MensajesMain(m)
      BY <2>0, <3>1, <1>2 DEF Llega, Agrega, MensajesMain
    <3>3. Avanza(m)
      BY <2>0, <2>5, TocaUno DEF Avanza, d
    <3> QED
      BY <2>0, <2>2, <2>5, <3>1, <3>9, <3>2, <3>3 DEF EfectoMain, RedMain
  <2>6. CASE Contesta(d, "s", "saludo", "0") /\ d # c /\ SeRinde(m)
    <3>1. TipoBuzon' /\ roto' \in [Conexiones -> SUBSET Lados]
          /\ Llega(d, "s", "0") /\ EfectoRoto
      BY <2>1, <2>6, <1>2, SonMensajes, ContestaEs
    <3>9. SinRechazos
      BY <3>1, LlegaEs
    <3>2. MensajesMain(m)
      BY <2>0, <2>6, <3>1, <1>2 DEF Llega, Agrega, MensajesMain, d
    <3> QED
      BY <2>0, <2>2, <2>4, <2>6, <3>1, <3>2, <3>9 DEF EfectoMain, RedMain
  <2>7. CASE Agotada(d, "s") /\ SeRinde(m) /\ UNCHANGED << buzon, roto >>
    <3>1. RedMain
      BY <2>7 DEF RedMain, TipoBuzon, TipoCierres, EfectoRoto, SinRechazos
    <3>2. MensajesMain(m)
      BY <2>7 DEF MensajesMain
    <3>3. MotivoMain(m)
      <4>1. CASE d # c
        BY <4>1, <2>4
      <4>2. CASE d = c
        <5>1. ~Abierta(c)
          BY <4>2, <2>1, <2>7, <1>2, CortadaEs
        <5> QED
          BY <5>1, <2>3 DEF MotivoMain, Motivo
      <4> QED
        BY <4>1, <4>2
    <3> QED
      BY <2>0, <2>2, <2>7, <3>1, <3>2, <3>3 DEF EfectoMain
  <2> QED
    BY <2>0, <2>5, <2>6, <2>7
<1>8. CASE m = "memoria" /\ paso[m] = 3 /\ EnviaTamPagina
  <2>0. /\ Toca(m, "envia_tam", CpuMemoria) /\ UNCHANGED pendientes /\ SoloMain
        /\ \/ Envia(CpuMemoria, "s", "tam") /\ Sigue(m)
           \/ NoEnvia(CpuMemoria, "s") /\ SeRinde(m) /\ UNCHANGED << buzon, roto >>
    BY <1>8 DEF EnviaTamPagina, MandaDato
  <2>1. ColasMain(m)
    BY <2>0 DEF ColasMain
  <2>2. CASE Envia(CpuMemoria, "s", "tam") /\ Sigue(m)
    <3>1. TipoBuzon' /\ roto' \in [Conexiones -> SUBSET Lados]
          /\ Llega(CpuMemoria, "s", "tam") /\ EfectoRoto
      BY <2>2, <1>2, SonMensajes, EnviaEs
    <3>9. SinRechazos
      BY <3>1, LlegaEs
    <3>2. MensajesMain(m)
      BY <2>0, <3>1, <1>2 DEF Llega, Agrega, MensajesMain
    <3>3. Avanza(m)
      BY <2>0, TocaUno DEF Avanza
    <3> QED
      BY <2>0, <2>1, <2>2, <3>1, <3>9, <3>2, <3>3 DEF EfectoMain, RedMain
  <2>3. CASE NoEnvia(CpuMemoria, "s") /\ SeRinde(m) /\ UNCHANGED << buzon, roto >>
    <3>1. RedMain
      BY <2>3 DEF RedMain, TipoBuzon, TipoCierres, EfectoRoto, SinRechazos
    <3>2. MensajesMain(m)
      BY <2>3 DEF MensajesMain
    <3>3. MotivoMain(m)
      BY <2>3, <1>2, <1>8, CortadaEs DEF MotivoMain, Motivo
    <3> QED
      BY <2>0, <2>1, <2>3, <3>1, <3>2, <3>3 DEF EfectoMain
  <2> QED
    BY <2>0, <2>2, <2>3
<1>9. CASE m = "cpu" /\ paso[m] = 4 /\ ObtieneTamPagina
  <2>0. /\ Toca(m, "recibe_tam", CpuMemoria) /\ UNCHANGED << pendientes, roto >> /\ SoloMain
        /\ \/ Recibe(CpuMemoria, "c", "tam") /\ Sigue(m)
           \/ Agotada(CpuMemoria, "c") /\ SeRinde(m) /\ UNCHANGED buzon
    BY <1>9 DEF ObtieneTamPagina
  <2>1. ColasMain(m)
    BY <2>0 DEF ColasMain
  <2>2. CASE Recibe(CpuMemoria, "c", "tam") /\ Sigue(m)
    <3>1. TipoBuzon' /\ SoloLee /\ Trae(CpuMemoria, "tam")
      BY <2>2, <1>2, RecibeEs DEF Trae
    <3>2. MensajesMain(m)
      BY <3>1, <1>2 DEF SoloLee, MensajesMain
    <3>3. Avanza(m)
      BY <2>0, <3>1, TocaUno DEF Avanza
    <3>4. RedMain
      BY <2>0, <3>1, SoloLeeEs DEF RedMain, TipoCierres, EfectoRoto
    <3> QED
      BY <2>0, <2>1, <2>2, <3>2, <3>3, <3>4 DEF EfectoMain
  <2>3. CASE Agotada(CpuMemoria, "c") /\ SeRinde(m) /\ UNCHANGED buzon
    <3>1. RedMain
      BY <2>0, <2>3 DEF RedMain, TipoBuzon, TipoCierres, EfectoRoto, SinRechazos
    <3>2. MensajesMain(m)
      BY <2>3 DEF MensajesMain
    <3>3. MotivoMain(m)
      BY <2>3, <1>2, <1>9, CortadaEs DEF MotivoMain, Motivo
    <3> QED
      BY <2>0, <2>1, <2>3, <3>1, <3>2, <3>3 DEF EfectoMain
  <2> QED
    BY <2>0, <2>2, <2>3
<1>10. ASSUME NEW c \in Conexiones, Cliente(c) = m, Saluda(m, c)
       PROVE  EfectoMain(m)
  BY <1>5, <1>10 DEF Saluda
<1>11. CASE m \in Interfaz /\ EnviaNombre(m)
  <2>1. IOKernel(m) \in Conexiones /\ Cliente(IOKernel(m)) = m
    BY <1>11, ConexionesEs DEF IOKernel, Cliente
  <2> QED
    BY <1>5, <1>11, <2>1 DEF EnviaNombre, MandaDato
<1> QED
  BY <1>1, <1>3, <1>4, <1>6, <1>7, <1>8, <1>9, <1>10, <1>11 DEF MainCasos

-----------------------------------------------------------------------------
(* Types.                                                                   *)

LEMMA MinimoDe ==
  ASSUME NEW S \in SUBSET Nat, S # {}
  PROVE  \E n \in S : \A m \in S : n <= m
<1>1. PICK n \in S : \A m \in S : ~ (<< m, n >> \in OpToRel(<, Nat))
  BY NatLessThanWellFounded, WFMin
<1>2. ASSUME NEW m \in S
      PROVE  n <= m
  <2>1. << m, n >> \notin OpToRel(<, Nat)
    BY <1>1
  <2>2. m \in Nat /\ n \in Nat
    OBVIOUS
  <2> QED
    BY <2>1, <2>2 DEF OpToRel
<1> QED
  BY <1>2

\* There are as many descriptors as interfaces: one is left for who was not
\* accepted yet.
LEMMA HayLibre ==
  ASSUME TipoHilos, Descriptores, NEW i \in Interfaz, hilo[IOKernel(i)] = "ninguno"
  PROVE  \E x \in Fds : tabla[x] = Libre /\ \A y \in Fds : tabla[y] = Libre => x <= y
<1> DEFINE L == { x \in Fds : tabla[x] = Libre }
<1>1. IsFiniteSet(Interfaz) /\ Cardinality(Interfaz) \in Nat
  BY CotasArranque, FS_CardinalityType
<1>2. L # {}
  <2> SUFFICES ASSUME L = {}
               PROVE  FALSE
    OBVIOUS
  <2> DEFINE T == Interfaz \ {i}
             f == [x \in Fds |-> tabla[x][1]]
  <2>1. ASSUME NEW x \in Fds
        PROVE  /\ f[x] \in T /\ fd[f[x]] = x
    <3>1. tabla[x] \in AlKernel
      BY DEF TipoHilos
    <3>2. PICK j \in Interfaz : tabla[x] = IOKernel(j)
      BY <3>1 DEF AlKernel
    <3>3. fd[j] = x /\ hilo[IOKernel(j)] # "ninguno" /\ f[x] = j
      BY <3>2 DEF Descriptores, IOKernel
    <3>4. j # i
      BY <3>3
    <3> QED
      BY <3>3, <3>4
  <2>2. f \in [Fds -> T]
    BY <2>1
  <2>3. IsFiniteSet(T) /\ Cardinality(T) = Cardinality(Interfaz) - 1
    BY <1>1, FS_RemoveElement
  <2>4. IsFiniteSet(Fds) /\ Cardinality(Fds) = Cardinality(Interfaz)
    BY <1>1, FS_Interval DEF Fds
  <2>5. Cardinality(T) < Cardinality(Fds)
    BY <1>1, <2>3, <2>4
  <2> HIDE DEF f, T
  <2>6. PICK x, y \in Fds : x # y /\ f[x] = f[y]
    BY <2>2, <2>3, <2>4, <2>5, FS_PigeonHole
  <2> QED
    BY <2>1, <2>6
<1>3. L \in SUBSET Nat
  BY <1>1 DEF Fds
<1>4. PICK n \in L : \A m \in L : n <= m
  BY <1>2, <1>3, MinimoDe
<1> QED
  BY <1>4

NextCasos ==
    \/ \E m \in Modulos : Lanza(m) \/ Mata(m) \/ Main(m)
    \/ AceptaMemoria \/ AceptaKernel
    \/ \E c \in DeInterfaz : Hilo(c)
    \/ EnObra

LEMMA NextEs ==
  ASSUME Next
  PROVE  NextCasos
  BY DEF Next, NextCasos, EnObra, KernelEnObra, MemoriaEnObra

LEMMA TerminaEs ==
  ASSUME TipoProgramas, TipoCierres, NEW m \in Modulos, Termina(m)
  PROVE  /\ vida' \in [Modulos -> {"apagado", "corre", "fin"}]
         /\ vida'[m] = "fin" /\ \A n \in Modulos : n # m => vida'[n] = vida[n]
         /\ cerrado' \in [Conexiones -> SUBSET Lados]
         /\ \A c \in Conexiones, l \in Lados :
               l \in cerrado'[c] => l \in cerrado[c] \/ Programa(c, l) = m
         /\ \A c \in Conexiones : cerrado[c] \subseteq cerrado'[c]
<1>1. /\ vida' = [vida EXCEPT ![m] = "fin"]
      /\ cerrado' = [c \in Conexiones |-> cerrado[c] \cup { l \in Lados : Programa(c, l) = m }]
  BY DEF Termina
<1>2. /\ vida' \in [Modulos -> {"apagado", "corre", "fin"}]
      /\ vida'[m] = "fin" /\ \A n \in Modulos : n # m => vida'[n] = vida[n]
  BY <1>1 DEF TipoProgramas
<1>3. \A c \in Conexiones : cerrado'[c] = cerrado[c] \cup { l \in Lados : Programa(c, l) = m }
  BY <1>1
<1>4. cerrado' \in [Conexiones -> SUBSET Lados]
  BY <1>1 DEF TipoCierres
<1> QED
  BY <1>2, <1>3, <1>4

LEMMA CierraEs ==
  ASSUME TipoCierres, NEW c \in Conexiones, NEW l \in Lados, Cierra(c, l)
  PROVE  /\ cerrado' \in [Conexiones -> SUBSET Lados]
         /\ cerrado'[c] = cerrado[c] \cup {l}
         /\ \A d \in Conexiones : d # c => cerrado'[d] = cerrado[d]
  BY DEF TipoCierres, Cierra

\* How a step changes the programs.
EfectoVida ==
    \/ UNCHANGED << vida, cerrado >>
    \/ \E m \in Modulos : EnFuncion(m) /\ Termina(m)
    \/ UNCHANGED vida /\ Cierra(KernelMemoria, "c")
    \/ UNCHANGED vida /\ \E c \in DeInterfaz : Cierra(c, "s")

LEMMA ConVida ==
  ASSUME TipoProgramas, TipoCierres, EfectoVida, UNCHANGED << paso, escenario >>,
         matados' \subseteq Modulos, desorden' \in BOOLEAN,
         fallados' \subseteq Modulos, desconocio' \in BOOLEAN,
         roto' \in [Conexiones -> SUBSET Lados]
  PROVE  TipoProgramas' /\ TipoCierres'
<1>1. \A m \in Modulos : Guion(m)' = Guion(m)
  BY GuionFijo
<1>2. CASE UNCHANGED << vida, cerrado >>
  BY <1>1, <1>2 DEF TipoProgramas, TipoCierres
<1>3. ASSUME NEW m \in Modulos, EnFuncion(m), Termina(m)
      PROVE  TipoProgramas' /\ TipoCierres'
  <2>1. /\ vida' \in [Modulos -> {"apagado", "corre", "fin"}]
        /\ vida'[m] = "fin" /\ \A n \in Modulos : n # m => vida'[n] = vida[n]
        /\ cerrado' \in [Conexiones -> SUBSET Lados]
    BY <1>3, TerminaEs
  <2> QED
    BY <1>1, <2>1 DEF TipoProgramas, TipoCierres
<1>4. CASE UNCHANGED vida /\ Cierra(KernelMemoria, "c")
  <2>1. cerrado' \in [Conexiones -> SUBSET Lados]
    BY <1>4, CierraEs, ConexionesEs, LadosEs
  <2> QED
    BY <1>1, <1>4, <2>1 DEF TipoProgramas, TipoCierres
<1>5. CASE UNCHANGED vida /\ \E c \in DeInterfaz : Cierra(c, "s")
  <2>1. cerrado' \in [Conexiones -> SUBSET Lados]
    BY <1>5, CierraEs, ConexionesEs, LadosEs
  <2> QED
    BY <1>1, <1>5, <2>1 DEF TipoProgramas, TipoCierres
<1> QED
  BY <1>2, <1>3, <1>4, <1>5 DEF EfectoVida

LEMMA EfectoDeHilo ==
  ASSUME TipoHilos, Descriptores, NEW c \in DeInterfaz, hilo[c] # "ninguno", EfectoHilo(c)
  PROVE  EfectoVida
<1>1. Real(c) # Libre => Real(c) \in DeInterfaz
  BY RealEs
<1> QED
  BY <1>1, ModulosEs DEF EfectoHilo, EfectoVida

LEMMA PasoDeProgramas ==
  ASSUME TipoArranque, [Next]_vars
  PROVE  TipoProgramas' /\ TipoCierres' /\ TipoBuzon' /\ EfectoRoto /\ escenario' = escenario
<1> DEFINE Meta == /\ TipoProgramas' /\ TipoCierres' /\ TipoBuzon' /\ EfectoRoto
                   /\ escenario' = escenario
<1>0. /\ TipoProgramas /\ TipoCierres /\ TipoBuzon /\ TipoColas /\ TipoHilos /\ TipoTrabajo
      /\ Descriptores
  BY DEF TipoArranque
<1>1. UNCHANGED redVars => TipoBuzon' /\ EfectoRoto /\ TipoCierres'
  BY <1>0 DEF redVars, TipoBuzon, EfectoRoto, TipoCierres
<1>2. CASE UNCHANGED vars
  <2>1. UNCHANGED << vida, paso, redVars, historia >>
    BY <1>2 DEF vars
  <2>2. \A m \in Modulos : Guion(m)' = Guion(m)
    BY <2>1, GuionFijo DEF historia, inicioVars
  <2>3. TipoProgramas'
    BY <2>1, <2>2, <1>0 DEF TipoProgramas, historia, inicioVars
  <2> QED
    BY <2>1, <2>3, <1>1 DEF historia, inicioVars
<1>3. ASSUME NEW m \in Modulos, Lanza(m)
      PROVE  Meta
  <2>1. /\ vida' = [vida EXCEPT ![m] = "corre"] /\ desorden' \in BOOLEAN
        /\ UNCHANGED << paso, redVars, escenario, matados, fallados, desconocio >>
    BY <1>3, <1>0 DEF Lanza, TipoProgramas
  <2>2. \A n \in Modulos : Guion(n)' = Guion(n)
    BY <2>1, GuionFijo
  <2>3. TipoProgramas'
    BY <2>1, <2>2, <1>0 DEF TipoProgramas
  <2> QED
    BY <2>1, <2>3, <1>1
<1>4. ASSUME NEW m \in Modulos, Mata(m)
      PROVE  Meta
  <2>1. /\ EnFuncion(m) /\ Termina(m) /\ matados' = {m}
        /\ UNCHANGED << paso, escenario, desorden, fallados, desconocio, buzon, roto >>
    BY <1>4 DEF Mata, SinRed
  <2>2. EfectoVida /\ roto' \in [Conexiones -> SUBSET Lados] /\ desorden' \in BOOLEAN
        /\ matados' \subseteq Modulos /\ fallados' \subseteq Modulos /\ desconocio' \in BOOLEAN
    BY <2>1, <1>0 DEF EfectoVida, TipoCierres, TipoProgramas
  <2>3. TipoProgramas' /\ TipoCierres'
    BY <2>1, <2>2, <1>0, ConVida
  <2> QED
    BY <2>1, <2>3, <1>0 DEF TipoBuzon, EfectoRoto
<1>5. ASSUME NEW m \in Modulos, Main(m)
      PROVE  Meta
  <2>1. EfectoMain(m)
    BY <1>0, <1>5, MainEs
  <2>2. /\ RedMain /\ UNCHANGED historia
        /\ Sigue(m) \/ SeRinde(m)
    BY <2>1 DEF EfectoMain, SoloMain
  <2>3. EnFuncion(m) /\ paso[m] \in 1 .. Len(Guion(m))
    BY <1>0, <1>5, MainToca
  <2>4. CASE Sigue(m)
    <3>1. /\ paso' = [paso EXCEPT ![m] = @ + 1] /\ UNCHANGED << vida, cerrado, historia >>
      BY <2>2, <2>4 DEF Sigue
    <3>2. \A n \in Modulos : Guion(n)' = Guion(n)
      BY <3>1, GuionFijo DEF historia, inicioVars
    <3>3. \A n \in Modulos : n # m => paso'[n] = paso[n]
      BY <3>1, <1>0 DEF TipoProgramas
    <3>4. paso'[m] = paso[m] + 1 /\ paso' \in [Modulos -> Nat]
      BY <3>1, <1>0 DEF TipoProgramas
    <3>5. Len(Guion(m)) \in Nat
      BY <1>0, LargoGuion
    <3>6. paso'[m] \in 1 .. (Len(Guion(m)) + 1)
      BY <2>3, <3>4, <3>5
    <3>7. \A n \in Modulos : paso'[n] \in 1 .. (Len(Guion(n)') + 1)
      BY <3>2, <3>3, <3>6, <1>0 DEF TipoProgramas
    <3>8. \A n \in Modulos : vida'[n] = "apagado" => paso'[n] = 1
      BY <2>3, <3>1, <3>3, <1>0 DEF TipoProgramas, EnFuncion
    <3>9. TipoProgramas'
      BY <3>1, <3>4, <3>7, <3>8, <1>0 DEF TipoProgramas, historia, inicioVars
    <3>10. TipoCierres' /\ TipoBuzon' /\ EfectoRoto
      BY <2>2, <3>1, <1>0 DEF RedMain, TipoCierres
    <3> QED
      BY <3>1, <3>9, <3>10 DEF historia, inicioVars
  <2>5. CASE SeRinde(m)
    <3>1. /\ Termina(m) /\ UNCHANGED << paso, historia >>
      BY <2>2, <2>5 DEF SeRinde
    <3>2. EfectoVida /\ roto' \in [Conexiones -> SUBSET Lados]
      BY <2>2, <2>3, <3>1 DEF EfectoVida, RedMain
    <3>3. TipoProgramas' /\ TipoCierres'
      BY <3>1, <3>2, <1>0, ConVida DEF historia, inicioVars, TipoProgramas
    <3> QED
      BY <2>2, <3>1, <3>3 DEF RedMain, historia, inicioVars
  <2> QED
    BY <2>2, <2>4, <2>5
<1>6. CASE AceptaMemoria \/ AceptaKernel
  <2>1. UNCHANGED << vida, paso, buzon, cerrado, roto, historia >>
    BY <1>6 DEF AceptaMemoria, AceptaKernel, Sigan, SoloHilo
  <2>2. EfectoVida /\ roto' \in [Conexiones -> SUBSET Lados]
    BY <2>1, <1>0 DEF EfectoVida, TipoCierres
  <2>3. TipoProgramas' /\ TipoCierres'
    BY <2>1, <2>2, <1>0, ConVida DEF historia, inicioVars, TipoProgramas
  <2> QED
    BY <2>1, <2>3, <1>0 DEF historia, inicioVars, TipoBuzon, EfectoRoto
<1>7. ASSUME NEW c \in DeInterfaz, Hilo(c)
      PROVE  Meta
  <2>1. RedBien /\ EfectoHilo(c) /\ UNCHANGED << paso, historia >> /\ hilo[c] # "ninguno"
    BY <1>0, <1>7, HiloEs
  <2>2. EfectoVida
    BY <2>1, <1>0, EfectoDeHilo
  <2>3. TipoProgramas' /\ TipoCierres'
    BY <2>1, <2>2, <1>0, ConVida DEF historia, inicioVars, TipoProgramas, RedBien
  <2> QED
    BY <2>1, <2>3 DEF historia, inicioVars, RedBien
<1>8. CASE EnObra
  <2>1. RedBien /\ EfectoCaida /\ EfectoHistoria /\ UNCHANGED paso
    BY <1>0, <1>8, ObraEs
  <2>2. EfectoVida
    BY <2>1 DEF EfectoVida, EfectoCaida
  <2>3. /\ UNCHANGED << escenario, desorden, matados >>
        /\ fallados' \subseteq Modulos /\ desconocio' \in BOOLEAN
    BY <2>1, <1>0 DEF EfectoHistoria, inicioVars, TipoProgramas
  <2>4. TipoProgramas' /\ TipoCierres'
    BY <2>1, <2>2, <2>3, <1>0, ConVida DEF TipoProgramas, RedBien
  <2> QED
    BY <2>1, <2>3, <2>4 DEF RedBien
<1> QED
  BY <1>2, <1>3, <1>4, <1>5, <1>6, <1>7, <1>8, NextEs DEF NextCasos

LEMMA PasoDeTrabajo ==
  ASSUME TipoArranque, [Next]_vars
  PROVE  TipoTrabajo'
<1>0. TipoTrabajo
  BY DEF TipoArranque
<1>1. CASE UNCHANGED << nucleoVars, ciclo, turno >>
  BY <1>0, <1>1 DEF TipoTrabajo, nucleoVars
<1>2. CASE UNCHANGED vars
  BY <1>1, <1>2 DEF vars
<1>3. ASSUME NEW m \in Modulos, Lanza(m) \/ Mata(m) \/ Main(m)
      PROVE  TipoTrabajo'
  <2>1. Lanza(m) \/ Mata(m) => UNCHANGED << nucleoVars, ciclo, turno >>
    BY DEF Lanza, Mata
  <2>2. Main(m) => SoloMain
    BY DEF Main, Escuchar, Connect, Saluda, Respuesta, Espera, EnviaTamPagina,
       ObtieneTamPagina, EnviaNombre, MandaDato
  <2> QED
    BY <1>1, <1>3, <2>1, <2>2 DEF SoloMain
<1>4. CASE AceptaMemoria \/ AceptaKernel
  BY <1>1, <1>4 DEF AceptaMemoria, AceptaKernel, SoloHilo
<1>5. ASSUME NEW c \in DeInterfaz, Hilo(c)
      PROVE  TipoTrabajo'
  <2>1. UNCHANGED << destino, ciclo, turno >>
    BY <1>5 DEF Hilo, HiloSaluda, MemoriaInterfaz, HiloNombre, HiloPide, HiloResultado,
       HiloLibera, HiloCierra, SoloHilo, SinMain, nucleoVars
  <2>2. proceso' \in {proceso, "READY", "ninguno"}
    BY <1>5 DEF Hilo, HiloSaluda, MemoriaInterfaz, HiloNombre, HiloPide, HiloResultado,
       HiloLibera, HiloCierra, SoloHilo, Va, FinalizaEnMemoria, nucleoVars
  <2> QED
    BY <2>1, <2>2, <1>0 DEF TipoTrabajo
<1>6. CASE KernelEnObra
  <2>1. UNCHANGED << ciclo, turno >>
    BY <1>6 DEF KernelEnObra, KernelTrabaja, KernelCrea, KernelConfirma, KernelDespacha,
       KernelContexto, KernelTermina, KernelOrdena, KernelSinPath, KernelCae, SinTocar,
       SinTocarNada
  <2>2. proceso' \in {proceso, "pedido", "READY", "ninguno", "EXEC", "sin_hilo", "termina", "BLOCKED"}
    BY <1>6 DEF KernelEnObra, KernelTrabaja, KernelCrea, KernelConfirma, KernelDespacha,
       KernelContexto, KernelTermina, KernelOrdena, KernelSinPath, KernelCae, Va,
       FinalizaEnMemoria, nucleoVars
  <2>3. destino' = destino \/ destino' \in { IOKernel(i) : i \in Registradas }
    BY <1>6 DEF KernelEnObra, KernelTrabaja, KernelCrea, KernelConfirma, KernelDespacha,
       KernelContexto, KernelTermina, KernelOrdena, KernelSinPath, KernelCae, nucleoVars
  <2>4. Registradas \subseteq Interfaz
    BY DEF Registradas
  <2> QED
    BY <2>1, <2>2, <2>3, <2>4, <1>0 DEF TipoTrabajo, AlKernel
<1>7. CASE CicloCpu \/ HiloInterrupcion
  <2>1. UNCHANGED << nucleoVars, turno >>
    BY <1>7 DEF CicloCpu, CicloRecibe, CicloPide, CicloMemoria, CicloContesta,
       CicloRechazado, CicloDesfasado, HiloInterrupcion, SoloCpu, SoloCiclo
  <2>2. ciclo' \in {ciclo, "pide", "muerto", "memoria", "contesta", "desaloja", "espera"}
    BY <1>7 DEF CicloCpu, CicloRecibe, CicloPide, CicloMemoria, CicloContesta,
       CicloRechazado, CicloDesfasado, HiloInterrupcion
  <2> QED
    BY <2>1, <2>2, <1>0 DEF TipoTrabajo, nucleoVars
<1>8. CASE MemoriaEnObra
  BY <1>1, <1>8 DEF MemoriaEnObra, MemoriaKernel, AtiendeCpu, MemoriaCpu, MemoriaSinProceso,
     MemoriaSinInstruccion, SoloMemoria, SoloAtiende
<1>9. ASSUME NEW i \in Interfaz, IO(i) \/ Teclea(i)
      PROVE  TipoTrabajo'
  <2>1. UNCHANGED << nucleoVars, ciclo >>
    BY <1>9 DEF IO, Teclea, IORecibe, IOPide, IOMemoriaResponde, IOResponde, IOFalla,
       IORechazada, SoloIO, SoloSuyo
  <2>2. turno' = turno \/ \E e \in {"usuario", "pide", "responde", "memoria", "espera"} : Queda(i, e)
    BY <1>9 DEF IO, Teclea, IORecibe, IOPide, IOMemoriaResponde, IOResponde, IOFalla,
       IORechazada, SinMemoria
  <2> QED
    BY <2>1, <2>2, <1>0 DEF TipoTrabajo, Queda, nucleoVars
<1> QED
  BY <1>2, <1>3, <1>4, <1>5, <1>6, <1>7, <1>8, <1>9, NextEs DEF NextCasos, EnObra

\* The queues of the ports.
Esta(q, c) == \E k \in 1 .. Len(q) : q[k] = c
Distintos(q) == \A j, k \in 1 .. Len(q) : q[j] = q[k] => j = k

LEMMA ColaSaca ==
  ASSUME NEW q \in Seq(Conexiones), q # << >>, Distintos(q)
  PROVE  /\ Tail(q) \in Seq(Conexiones) /\ Distintos(Tail(q))
         /\ Head(q) \in Conexiones /\ Esta(q, Head(q)) /\ ~Esta(Tail(q), Head(q))
         /\ \A c : Esta(Tail(q), c) => Esta(q, c)
<1>1. /\ Tail(q) \in Seq(Conexiones) /\ Len(q) \in Nat \ {0} /\ Len(Tail(q)) = Len(q) - 1
      /\ \A k \in 1 .. Len(Tail(q)) : Tail(q)[k] = q[k + 1] /\ k + 1 \in 1 .. Len(q)
      /\ Head(q) = q[1] /\ 1 \in 1 .. Len(q) /\ q[1] \in Conexiones
  OBVIOUS
<1>2. Distintos(Tail(q))
  <2> SUFFICES ASSUME NEW j \in 1 .. Len(Tail(q)), NEW k \in 1 .. Len(Tail(q)),
                      Tail(q)[j] = Tail(q)[k]
               PROVE  j = k
    BY DEF Distintos
  <2>1. q[j + 1] = q[k + 1] /\ j + 1 \in 1 .. Len(q) /\ k + 1 \in 1 .. Len(q)
    BY <1>1
  <2>2. j + 1 = k + 1
    BY <2>1 DEF Distintos
  <2> QED
    BY <2>2
<1>3. ASSUME NEW c, Esta(Tail(q), c)
      PROVE  Esta(q, c)
  <2>1. PICK k \in 1 .. Len(Tail(q)) : Tail(q)[k] = c
    BY <1>3 DEF Esta
  <2>2. q[k + 1] = c /\ k + 1 \in 1 .. Len(q)
    BY <1>1, <2>1
  <2> QED
    BY <2>2 DEF Esta
<1>4. ASSUME Esta(Tail(q), Head(q))
      PROVE  FALSE
  <2>1. PICK k \in 1 .. Len(Tail(q)) : Tail(q)[k] = Head(q)
    BY <1>4 DEF Esta
  <2>2. q[k + 1] = q[1] /\ k + 1 \in 1 .. Len(q) /\ 1 \in 1 .. Len(q)
    BY <1>1, <2>1
  <2>3. k + 1 = 1
    BY <2>2 DEF Distintos
  <2> QED
    BY <2>3
<1>5. Esta(q, Head(q))
  BY <1>1 DEF Esta
<1> QED
  BY <1>1, <1>2, <1>3, <1>4, <1>5

LEMMA ColaPone ==
  ASSUME NEW q \in Seq(Conexiones), Distintos(q), NEW c \in Conexiones, ~Esta(q, c)
  PROVE  /\ Append(q, c) \in Seq(Conexiones) /\ Distintos(Append(q, c))
         /\ \A d : Esta(Append(q, c), d) => Esta(q, d) \/ d = c
<1> DEFINE r == Append(q, c)
<1>1. /\ r \in Seq(Conexiones) /\ Len(q) \in Nat /\ Len(r) = Len(q) + 1
      /\ \A k \in 1 .. Len(q) : r[k] = q[k]
      /\ r[Len(q) + 1] = c
  OBVIOUS
<1> HIDE DEF r
<1>2. \A k \in 1 .. Len(r) : k \in 1 .. Len(q) \/ k = Len(q) + 1
  BY <1>1
<1>3. Distintos(r)
  <2> SUFFICES ASSUME NEW j \in 1 .. Len(r), NEW k \in 1 .. Len(r), r[j] = r[k]
               PROVE  j = k
    BY DEF Distintos
  <2>1. CASE j \in 1 .. Len(q) /\ k \in 1 .. Len(q)
    BY <2>1, <1>1 DEF Distintos
  <2>2. CASE j = Len(q) + 1 /\ k \in 1 .. Len(q)
    BY <2>2, <1>1 DEF Esta
  <2>3. CASE k = Len(q) + 1 /\ j \in 1 .. Len(q)
    BY <2>3, <1>1 DEF Esta
  <2> QED
    BY <1>2, <2>1, <2>2, <2>3
<1>4. ASSUME NEW d, Esta(r, d)
      PROVE  Esta(q, d) \/ d = c
  <2>1. PICK k \in 1 .. Len(r) : r[k] = d
    BY <1>4 DEF Esta
  <2> QED
    BY <1>1, <1>2, <2>1 DEF Esta
<1> QED
  BY <1>1, <1>3, <1>4 DEF r

LEMMA ColasSon ==
  /\ \A c : EnCola(c) <=> Esta(pendientes[c[2]], c)
  /\ Colas <=>
        /\ \A p \in Puertos : Distintos(pendientes[p])
        /\ \A c \in Conexiones : EnCola(c) => Conectado(c)
        /\ \A c \in DeInterfaz : hilo[c] # "ninguno" => Conectado(c) /\ ~EnCola(c)
  BY DEF EnCola, Esta, Colas, Distintos


LEMMA ConexionEs ==
  ASSUME NEW c \in Conexiones
  PROVE  /\ Cliente(c) \in Modulos /\ c[2] \in Puertos
         /\ c[2] = "kernel" => c \in AlKernel
         /\ c[2] = "memoria" => c \in ALaMemoria \/ c = CpuMemoria \/ c = KernelMemoria
<1>1. CASE c \in Principales
  BY <1>1, ModulosEs DEF Principales, Cliente, Puertos, CpuMemoria, KernelMemoria,
     KernelDispatch, KernelInterrupt
<1>2. CASE c \in AlKernel
  <2>1. PICK i \in Interfaz : c = IOKernel(i)
    BY <1>2 DEF AlKernel
  <2> QED
    BY <1>2, <2>1, ModulosEs DEF IOKernel, Cliente, Puertos
<1>3. CASE c \in ALaMemoria
  <2>1. PICK i \in Interfaz : c = IOMemoria(i)
    BY <1>3 DEF ALaMemoria
  <2> QED
    BY <1>3, <2>1, ModulosEs DEF IOMemoria, Cliente, Puertos
<1> QED
  BY <1>1, <1>2, <1>3, ConexionesEs

LEMMA ColasQuietas ==
  ASSUME TipoColas, Colas, UNCHANGED << paso, pendientes, escenario >>,
         \A c \in DeInterfaz : hilo'[c] # "ninguno" => hilo[c] # "ninguno"
  PROVE  TipoColas' /\ Colas'
<1>1. \A c : EnCola(c)' <=> EnCola(c)
  BY DEF EnCola
<1>2. \A m : Guion(m)' = Guion(m)
  BY GuionFijo
<1>3. \A c : Conectado(c)' <=> Conectado(c)
  BY <1>2 DEF Conectado
<1>4. TipoColas'
  BY DEF TipoColas
<1>5. \A p \in Puertos : \A j, k \in 1..Len(pendientes'[p]) :
          pendientes'[p][j] = pendientes'[p][k] => j = k
  BY DEF Colas
<1>6. \A c \in Conexiones : EnCola(c)' => Conectado(c)'
  BY <1>1, <1>3 DEF Colas
<1>7. \A c \in DeInterfaz : hilo'[c] # "ninguno" => Conectado(c)' /\ ~EnCola(c)'
  BY <1>1, <1>3 DEF Colas
<1> QED
  BY <1>4, <1>5, <1>6, <1>7 DEF Colas

\* The first of a queue leaves it.
LEMMA ColasSaca ==
  ASSUME TipoColas, Colas, \A c \in Conexiones : Conectado(c) => Conectado(c)',
         NEW p \in Puertos, pendientes[p] # << >>,
         pendientes' = [pendientes EXCEPT ![p] = Tail(@)],
         \A c \in DeInterfaz :
            hilo'[c] # "ninguno" => hilo[c] # "ninguno" \/ c = Head(pendientes[p])
  PROVE  /\ TipoColas' /\ Colas'
         /\ Head(pendientes[p]) \in Conexiones /\ Head(pendientes[p])[2] = p
         /\ EnCola(Head(pendientes[p]))
<1> DEFINE q == pendientes[p]
           h == Head(q)
<1>1. q \in Seq(Conexiones) /\ q # << >> /\ Distintos(q)
  BY DEF TipoColas, Colas, Distintos
<1> HIDE DEF q
<1>2. /\ Tail(q) \in Seq(Conexiones) /\ Distintos(Tail(q))
      /\ h \in Conexiones /\ Esta(q, h) /\ ~Esta(Tail(q), h)
      /\ \A c : Esta(Tail(q), c) => Esta(q, c)
  BY <1>1, ColaSaca
<1>3. pendientes'[p] = Tail(q) /\ \A r \in Puertos : r # p => pendientes'[r] = pendientes[r]
  BY DEF q, TipoColas
<1>4. h[2] = p
  <2>1. PICK k \in 1 .. Len(q) : q[k] = h
    BY <1>2 DEF Esta
  <2> QED
    BY <2>1 DEF TipoColas, q
<1>5. EnCola(h)
  BY <1>2, <1>4, ColasSon DEF q
<1>6. pendientes' \in [Puertos -> Seq(Conexiones)]
  BY <1>2, <1>3 DEF TipoColas
<1>7. ASSUME NEW c \in Conexiones, EnCola(c)'
      PROVE  EnCola(c) /\ c # h
  <2>1. PICK k \in 1 .. Len(pendientes'[c[2]]) : pendientes'[c[2]][k] = c
    BY <1>7 DEF EnCola
  <2>2. c[2] \in Puertos
    BY ConexionEs
  <2>3. CASE c[2] = p
    <3>1. Esta(Tail(q), c)
      BY <2>1, <2>3, <1>3 DEF Esta
    <3> QED
      BY <3>1, <1>2, <2>3, ColasSon DEF q
  <2>4. CASE c[2] # p
    <3>1. pendientes'[c[2]] = pendientes[c[2]]
      BY <1>3, <2>2, <2>4
    <3> QED
      BY <1>4, <2>1, <2>4, <3>1 DEF EnCola
  <2> QED
    BY <2>3, <2>4
<1>9. \A c \in Conexiones : Conectado(c) => Conectado(c)'
  OBVIOUS
<1>10. TipoColas'
  <2>1. ASSUME NEW k \in 1 .. Len(Tail(q))
        PROVE  Tail(q)[k][2] = p
    <3>1. Esta(Tail(q), Tail(q)[k])
      BY DEF Esta
    <3>2. PICK j \in 1 .. Len(q) : q[j] = Tail(q)[k]
      BY <1>2, <3>1 DEF Esta
    <3> QED
      BY <3>2 DEF TipoColas, q
  <2> QED
    BY <2>1, <1>3, <1>6 DEF TipoColas
<1>11. \A r \in Puertos : \A j, k \in 1..Len(pendientes'[r]) :
          pendientes'[r][j] = pendientes'[r][k] => j = k
  BY <1>2, <1>3 DEF Colas, Distintos
<1>12. \A c \in Conexiones : EnCola(c)' => Conectado(c)'
  BY <1>7, <1>9 DEF Colas
<1>13. \A c \in DeInterfaz : hilo'[c] # "ninguno" => Conectado(c)' /\ ~EnCola(c)'
  <2> SUFFICES ASSUME NEW c \in DeInterfaz, hilo'[c] # "ninguno"
               PROVE  Conectado(c)' /\ ~EnCola(c)'
    OBVIOUS
  <2>1. c \in Conexiones
    BY ConexionesEs
  <2>2. CASE c = h
    BY <2>2, <1>2, <1>5, <1>7, <1>9 DEF Colas
  <2>3. CASE c # h
    BY <2>1, <2>3, <1>7, <1>9 DEF Colas, q
  <2> QED
    BY <2>2, <2>3
<1> QED
  BY <1>2, <1>4, <1>5, <1>10, <1>11, <1>12, <1>13 DEF Colas, q

LEMMA ColasMainEs ==
  ASSUME TipoArranque, NEW m \in Modulos, EfectoMain(m), paso[m] \in 1 .. Len(Guion(m))
  PROVE  TipoColas' /\ Colas'
<1>0. /\ TipoProgramas /\ TipoColas /\ Colas
      /\ ColasMain(m) /\ UNCHANGED << hilo, escenario >>
      /\ Sigue(m) \/ UNCHANGED paso
  BY DEF TipoArranque, EfectoMain, SoloMain, SeRinde, historia, inicioVars
<1>1. \A n : Guion(n)' = Guion(n)
  BY <1>0, GuionFijo
<1>2. /\ \A n \in Modulos : n # m => paso'[n] = paso[n]
      /\ paso'[m] \in {paso[m], paso[m] + 1}
      /\ Sigue(m) => paso'[m] = paso[m] + 1
  BY <1>0 DEF Sigue, TipoProgramas
<1>3. \A n \in Modulos : paso[n] \in Nat /\ paso'[n] \in Nat /\ paso[n] <= paso'[n]
  BY <1>2, <1>0 DEF TipoProgramas
<1>4. ASSUME NEW c \in Conexiones, Conectado(c)
      PROVE  Conectado(c)'
  <2>1. PICK k \in 1..(paso[Cliente(c)] - 1) : Guion(Cliente(c))[k] = << "connect", c >>
    BY <1>4 DEF Conectado
  <2>2. Cliente(c) \in Modulos
    BY ConexionEs
  <2>3. k \in 1..(paso'[Cliente(c)] - 1)
    BY <2>2, <1>3
  <2> QED
    BY <1>1, <2>1, <2>3 DEF Conectado
<1>5. CASE pendientes' = pendientes
  <2>1. \A c : EnCola(c)' <=> EnCola(c)
    BY <1>5 DEF EnCola
  <2>2. TipoColas'
    BY <1>0, <1>5 DEF TipoColas
  <2>3. \A p \in Puertos : \A j, k \in 1..Len(pendientes'[p]) :
            pendientes'[p][j] = pendientes'[p][k] => j = k
    BY <1>0, <1>5 DEF Colas
  <2>4. \A c \in Conexiones : EnCola(c)' => Conectado(c)'
    BY <1>0, <1>4, <2>1 DEF Colas
  <2>5. \A c \in DeInterfaz : hilo'[c] # "ninguno" => Conectado(c)' /\ ~EnCola(c)'
    BY <1>0, <1>4, <2>1, ConexionesEs DEF Colas
  <2> QED
    BY <2>2, <2>3, <2>4, <2>5 DEF Colas
<1>6. ASSUME NEW c \in Conexiones, Toca(m, "connect", c), Cliente(c) = m, c[2] \in Puertos,
             Sigue(m), pendientes' = [pendientes EXCEPT ![c[2]] = Append(@, c)]
      PROVE  TipoColas' /\ Colas'
  <2>0. DeInterfaz \subseteq Conexiones
    BY ConexionesEs
  <2>1. ~Conectado(c)
    <3> SUFFICES ASSUME NEW k \in 1..(paso[m] - 1), Guion(m)[k] = << "connect", c >>
                 PROVE  FALSE
      BY <1>6 DEF Conectado
    <3>1. Len(Guion(m)) \in Nat /\ paso[m] \in Nat
      BY <1>0, <1>3, LargoGuion
    <3>2. k \in 1 .. Len(Guion(m)) /\ k # paso[m]
      BY <3>1
    <3>3. Guion(m)[paso[m]] = << "connect", c >>
      BY <1>6 DEF Toca
    <3>4. m \in Interfaz => Tipo(m) \in Tipos
      BY <1>0, TiposEs
    <3> QED
      BY <3>2, <3>3, <3>4, ConnectUnico
  <2>2. ~EnCola(c) /\ (c \in DeInterfaz => hilo[c] = "ninguno")
    BY <1>0, <2>1 DEF Colas
  <2> DEFINE q == pendientes[c[2]]
             r == Append(q, c)
  <2>3. q \in Seq(Conexiones) /\ Distintos(q) /\ ~Esta(q, c)
    BY <1>0, <1>6, <2>2, ColasSon DEF TipoColas
  <2> HIDE DEF q
  <2>4. /\ r \in Seq(Conexiones) /\ Distintos(r)
        /\ \A d : Esta(r, d) => Esta(q, d) \/ d = c
    BY <2>3, ColaPone
  <2>5. pendientes'[c[2]] = r /\ \A p \in Puertos : p # c[2] => pendientes'[p] = pendientes[p]
    BY <1>0, <1>6 DEF q, TipoColas
  <2> HIDE DEF r
  <2>6. ASSUME NEW d \in Conexiones, EnCola(d)'
        PROVE  EnCola(d) \/ d = c
    <3>1. PICK k \in 1 .. Len(pendientes'[d[2]]) : pendientes'[d[2]][k] = d
      BY <2>6 DEF EnCola
    <3>2. CASE d[2] = c[2]
      <4>1. Esta(r, d)
        BY <3>1, <3>2, <2>5 DEF Esta
      <4> QED
        BY <4>1, <2>4, <3>2, ColasSon DEF q
    <3>3. CASE d[2] # c[2]
      <4>1. pendientes'[d[2]] = pendientes[d[2]]
        BY <2>5, <3>3, ConexionEs
      <4> QED
        BY <3>1, <4>1 DEF EnCola
    <3> QED
      BY <3>2, <3>3
  <2>7. Conectado(c)'
    <3>1. paso[m] \in 1..(paso'[m] - 1) /\ Guion(m)'[paso[m]] = << "connect", c >>
      <4>1. paso'[m] = paso[m] + 1 /\ paso[m] \in Nat /\ paso[m] >= 1
        BY <1>2, <1>3, <1>6, <1>0 DEF TipoProgramas
      <4> QED
        BY <4>1, <1>1, <1>6 DEF Toca
    <3> QED
      BY <3>1, <1>6 DEF Conectado
  <2>8. TipoColas'
    <3>1. ASSUME NEW k \in 1 .. Len(r)
          PROVE  r[k][2] = c[2]
      <4>1. Esta(r, r[k])
        BY DEF Esta
      <4>2. Esta(q, r[k]) \/ r[k] = c
        BY <2>4, <4>1
      <4>3. CASE Esta(q, r[k])
        <5>1. PICK j \in 1 .. Len(q) : q[j] = r[k]
          BY <4>3 DEF Esta
        <5> QED
          BY <1>0, <1>6, <5>1 DEF TipoColas, q
      <4> QED
        BY <4>2, <4>3
    <3>2. pendientes' \in [Puertos -> Seq(Conexiones)]
      BY <1>0, <1>6, <2>4, <2>5 DEF TipoColas
    <3> QED
      BY <3>1, <3>2, <2>5, <1>0 DEF TipoColas
  <2>9. \A p \in Puertos : \A j, k \in 1..Len(pendientes'[p]) :
            pendientes'[p][j] = pendientes'[p][k] => j = k
    BY <2>4, <2>5, <1>0 DEF Colas, Distintos
  <2>10. \A d \in Conexiones : EnCola(d)' => Conectado(d)'
    BY <2>6, <2>7, <1>4, <1>0 DEF Colas
  <2>11. \A d \in DeInterfaz : hilo'[d] # "ninguno" => Conectado(d)' /\ ~EnCola(d)'
    BY <2>0, <2>2, <2>6, <1>4, <1>0 DEF Colas
  <2> QED
    BY <2>8, <2>9, <2>10, <2>11 DEF Colas
<1>7. ASSUME NEW c \in Principales, Toca(m, "espera", c), pendientes[c[2]] # << >>,
             pendientes' = [pendientes EXCEPT ![c[2]] = Tail(@)]
      PROVE  TipoColas' /\ Colas'
  <2>1. c[2] \in Puertos
    BY ConexionEs, ConexionesEs
  <2>2. \A d \in Conexiones : Conectado(d) => Conectado(d)'
    BY <1>4
  <2>3. \A d \in DeInterfaz : hilo'[d] # "ninguno" => hilo[d] # "ninguno"
    BY <1>0
  <2> QED
    BY <1>0, <1>7, <2>1, <2>2, <2>3, ColasSaca
<1> QED
  BY <1>0, <1>5, <1>6, <1>7 DEF ColasMain

LEMMA ConectadoIgual ==
  ASSUME UNCHANGED << paso, escenario >>
  PROVE  \A c \in Conexiones : Conectado(c) => Conectado(c)'
<1>1. \A m : Guion(m)' = Guion(m)
  BY GuionFijo
<1> QED
  BY <1>1 DEF Conectado

\* What an accept of the kernel takes: the connection and the descriptor.
Aceptada(i, n) ==
    /\ Head(pendientes["kernel"]) = IOKernel(i) /\ pendientes["kernel"] # << >>
    /\ hilo[IOKernel(i)] = "ninguno" /\ tabla[n] = Libre
    /\ hilo' = [hilo EXCEPT ![IOKernel(i)] = "saludo"]
    /\ fd' = [fd EXCEPT ![i] = n]
    /\ tabla' = [tabla EXCEPT ![n] = IOKernel(i)]

LEMMA AceptaKernelEs ==
  ASSUME TipoColas, Colas, TipoHilos, Descriptores, AceptaKernel
  PROVE  \E i \in Interfaz, n \in Fds : Aceptada(i, n)
<1> DEFINE q == pendientes["kernel"]
           h == Head(q)
           n == CHOOSE x \in Fds : /\ tabla[x] = Libre
                                   /\ \A y \in Fds : tabla[y] = Libre => x <= y
<1>1. /\ q # << >> /\ hilo' = [hilo EXCEPT ![h] = "saludo"]
      /\ fd' = [fd EXCEPT ![Cliente(h)] = n] /\ tabla' = [tabla EXCEPT ![n] = h]
  BY DEF AceptaKernel
<1>2. q \in Seq(Conexiones) /\ Distintos(q)
  BY DEF TipoColas, Colas, Distintos, Puertos
<1>3. h \in Conexiones /\ Esta(q, h)
  BY <1>1, <1>2, ColaSaca
<1>4. h[2] = "kernel"
  BY <1>3 DEF Esta, TipoColas, Puertos
<1>5. PICK i \in Interfaz : h = IOKernel(i)
  BY <1>3, <1>4, ConexionEs DEF AlKernel
<1>6. EnCola(h) /\ Cliente(h) = i /\ h \in DeInterfaz
  <2>1. h \in DeInterfaz
    BY <1>5, ConexionesEs
  <2>2. Cliente(h) = i
    BY <1>5 DEF IOKernel, Cliente
  <2>3. pendientes[h[2]] = q
    BY <1>4
  <2>4. EnCola(h) <=> Esta(pendientes[h[2]], h)
    BY ColasSon
  <2> HIDE DEF q, h
  <2>5. EnCola(h)
    BY <1>3, <2>3, <2>4
  <2> QED
    BY <2>1, <2>2, <2>5
<1>7. hilo[h] = "ninguno"
  <2> HIDE DEF q, h
  <2> QED
    BY <1>6 DEF Colas
<1>8. \E x \in Fds : tabla[x] = Libre /\ \A y \in Fds : tabla[y] = Libre => x <= y
  BY <1>5, <1>7, HayLibre
<1>9. n \in Fds /\ tabla[n] = Libre
  BY <1>8
<1> HIDE DEF n
<1> QED
  BY <1>1, <1>5, <1>6, <1>7, <1>9 DEF Aceptada

LEMMA PasoDeLugares ==
  ASSUME TipoArranque, [Next]_vars
  PROVE  TipoColas' /\ Colas' /\ TipoHilos' /\ Descriptores'
<1> DEFINE Meta == TipoColas' /\ Colas' /\ TipoHilos' /\ Descriptores'
<1>0. /\ TipoProgramas /\ TipoCierres /\ TipoBuzon /\ TipoColas /\ TipoHilos /\ TipoTrabajo
      /\ Descriptores /\ Colas
  BY DEF TipoArranque
<1>1. ASSUME UNCHANGED << paso, pendientes, escenario, hilo, fd, tabla >>
      PROVE  Meta
  <2>1. TipoColas' /\ Colas'
    BY <1>0, <1>1, ColasQuietas
  <2>2. TipoHilos' /\ Descriptores'
    BY <1>0, <1>1 DEF TipoHilos, Descriptores
  <2> QED
    BY <2>1, <2>2
<1>2. CASE UNCHANGED vars
  BY <1>1, <1>2 DEF vars, redVars, fdVars, historia, inicioVars
<1>3. ASSUME NEW m \in Modulos, Lanza(m) \/ Mata(m)
      PROVE  Meta
  BY <1>1, <1>3 DEF Lanza, Mata, SinRed, redVars, fdVars
<1>4. ASSUME NEW m \in Modulos, Main(m)
      PROVE  Meta
  <2>1. EfectoMain(m) /\ paso[m] \in 1 .. Len(Guion(m))
    BY <1>0, <1>4, MainEs, MainToca
  <2>2. TipoColas' /\ Colas'
    BY <2>1, ColasMainEs
  <2>3. UNCHANGED << hilo, fd, tabla >>
    BY <2>1 DEF EfectoMain, SoloMain, fdVars
  <2> QED
    BY <1>0, <2>2, <2>3 DEF TipoHilos, Descriptores
<1>5. CASE AceptaMemoria
  <2> DEFINE h == Head(pendientes["memoria"])
  <2>1. /\ pendientes["memoria"] # << >> /\ hilo' = [hilo EXCEPT ![h] = "saludo"]
        /\ pendientes' = [pendientes EXCEPT !["memoria"] = Tail(@)]
        /\ UNCHANGED << paso, escenario, fd, tabla >> /\ "memoria" \in Puertos
    BY <1>5 DEF AceptaMemoria, Sigan, SoloHilo, fdVars, historia, inicioVars, Puertos
  <2>2. \A d \in Conexiones : Conectado(d) => Conectado(d)'
    BY <2>1, ConectadoIgual
  <2>3. \A d \in DeInterfaz : hilo'[d] # "ninguno" => hilo[d] # "ninguno" \/ d = h
    BY <2>1, <1>0 DEF TipoHilos
  <2>4. TipoColas' /\ Colas' /\ h \in Conexiones /\ h[2] = "memoria"
    BY <1>0, <2>1, <2>2, <2>3, ColasSaca
  <2>5. \A d \in DeInterfaz : d # h => hilo'[d] = hilo[d]
    BY <2>1, <1>0 DEF TipoHilos
  <2>6. \A i \in Interfaz : hilo'[IOKernel(i)] = hilo[IOKernel(i)]
    <3> SUFFICES ASSUME NEW i \in Interfaz
                 PROVE  hilo'[IOKernel(i)] = hilo[IOKernel(i)]
      OBVIOUS
    <3>1. IOKernel(i) # h /\ IOKernel(i) \in DeInterfaz
      BY <2>4, ConexionesEs DEF IOKernel
    <3> QED
      BY <2>5, <3>1
  <2>7. hilo' \in [DeInterfaz -> Hilos]
    BY <2>1, <1>0 DEF TipoHilos, Hilos
  <2>8. \A i \in Interfaz : hilo'[IOMemoria(i)] \in {"ninguno", "saludo", "sirve", "fin"}
    <3> SUFFICES ASSUME NEW i \in Interfaz
                 PROVE  hilo'[IOMemoria(i)] \in {"ninguno", "saludo", "sirve", "fin"}
      OBVIOUS
    <3>1. IOMemoria(i) \in DeInterfaz
      BY ConexionesEs
    <3>2. CASE IOMemoria(i) = h
      BY <2>1, <3>1, <3>2, <1>0 DEF TipoHilos
    <3>3. CASE IOMemoria(i) # h
      BY <2>5, <3>1, <3>3, <1>0 DEF TipoHilos
    <3> QED
      BY <3>2, <3>3
  <2>9. TipoHilos' /\ Descriptores'
    BY <1>0, <2>1, <2>6, <2>7, <2>8 DEF TipoHilos, Descriptores
  <2> QED
    BY <2>4, <2>9
<1>6. CASE AceptaKernel
  <2>1. PICK i \in Interfaz, n \in Fds : Aceptada(i, n)
    BY <1>0, <1>6, AceptaKernelEs
  <2>2. /\ pendientes' = [pendientes EXCEPT !["kernel"] = Tail(@)]
        /\ UNCHANGED << paso, escenario >> /\ "kernel" \in Puertos
    BY <1>6 DEF AceptaKernel, Sigan, SoloHilo, historia, inicioVars, Puertos
  <2>3. \A d \in Conexiones : Conectado(d) => Conectado(d)'
    BY <2>2, ConectadoIgual
  <2>4. IOKernel(i) \in DeInterfaz /\ \A j \in Interfaz : IOKernel(j) = IOKernel(i) => j = i
    BY ConexionesEs DEF IOKernel
  <2>5. \A d \in DeInterfaz : hilo'[d] = IF d = IOKernel(i) THEN "saludo" ELSE hilo[d]
    BY <2>1, <1>0 DEF Aceptada, TipoHilos
  <2>6. TipoColas' /\ Colas'
    <3>1. pendientes["kernel"] # << >> /\ Head(pendientes["kernel"]) = IOKernel(i)
      BY <2>1 DEF Aceptada
    <3>2. \A d \in DeInterfaz :
             hilo'[d] # "ninguno" => hilo[d] # "ninguno" \/ d = Head(pendientes["kernel"])
      BY <2>5, <3>1
    <3> QED
      BY <1>0, <2>2, <2>3, <3>1, <3>2, ColasSaca
  <2>7. /\ \A j \in Interfaz : fd'[j] = IF j = i THEN n ELSE fd[j]
        /\ \A x \in Fds : tabla'[x] = IF x = n THEN IOKernel(i) ELSE tabla[x]
        /\ fd' \in [Interfaz -> Fds \cup {0}]
        /\ tabla' \in [Fds -> {Libre} \cup AlKernel]
        /\ hilo' \in [DeInterfaz -> Hilos]
    BY <2>1, <1>0, ConexionesEs DEF Aceptada, TipoHilos, Hilos
  <2>8. \A j \in Interfaz : hilo'[IOMemoria(j)] \in {"ninguno", "saludo", "sirve", "fin"}
    <3> SUFFICES ASSUME NEW j \in Interfaz
                 PROVE  hilo'[IOMemoria(j)] \in {"ninguno", "saludo", "sirve", "fin"}
      OBVIOUS
    <3>1. IOMemoria(j) \in DeInterfaz
      BY ConexionesEs
    <3> QED
      BY <2>5, <3>1, <1>0 DEF TipoHilos
  <2>9. TipoHilos'
    BY <2>7, <2>8 DEF TipoHilos
  <2>10. hilo[IOKernel(i)] = "ninguno"
    BY <2>1 DEF Aceptada
  <2>11. \A j \in Interfaz : hilo'[IOKernel(j)] # "ninguno" => fd'[j] \in Fds
    <3> SUFFICES ASSUME NEW j \in Interfaz, hilo'[IOKernel(j)] # "ninguno"
                 PROVE  fd'[j] \in Fds
      OBVIOUS
    <3>1. IOKernel(j) \in DeInterfaz
      BY ConexionesEs
    <3>2. CASE j = i
      BY <2>7, <3>2
    <3>3. CASE j # i
      BY <2>4, <2>5, <2>7, <3>1, <3>3, <1>0 DEF Descriptores
    <3> QED
      BY <3>2, <3>3
  <2>12. ASSUME NEW j \in Interfaz, NEW x \in Fds, tabla'[x] = IOKernel(j)
         PROVE  fd'[j] = x /\ hilo'[IOKernel(j)] # "ninguno"
    <3>1. IOKernel(j) \in DeInterfaz
      BY ConexionesEs
    <3>2. CASE x = n
      <4>1. j = i
        BY <2>4, <2>7, <2>12, <3>2
      <4> QED
        BY <2>5, <2>7, <3>1, <3>2, <4>1
    <3>3. CASE x # n
      <4>1. tabla[x] = IOKernel(j)
        BY <2>7, <2>12, <3>3
      <4>2. fd[j] = x /\ hilo[IOKernel(j)] # "ninguno"
        BY <4>1, <1>0 DEF Descriptores
      <4>3. j # i
        BY <2>10, <4>2
      <4> QED
        BY <2>4, <2>5, <2>7, <3>1, <4>2, <4>3
    <3> QED
      BY <3>2, <3>3
  <2>13. Descriptores'
    BY <2>11, <2>12 DEF Descriptores
  <2> QED
    BY <2>6, <2>9, <2>13
<1>7. ASSUME NEW c \in DeInterfaz, Hilo(c)
      PROVE  Meta
  <2>1. /\ EfectoTabla(c) /\ UNCHANGED << paso, pendientes, fd, historia >>
        /\ hilo[c] # "ninguno"
    BY <1>0, <1>7, HiloEs
  <2>2. \/ hilo' = hilo
        \/ c[2] = "memoria" /\ \E e \in {"sirve", "fin"} : Pasa(c, e)
        \/ c[2] = "kernel" /\ \E e \in Hilos \ {"ninguno"} : Pasa(c, e)
    BY <2>1 DEF EfectoTabla, Vivas, Hilos
  <2>3. \/ tabla' = tabla
        \/ c[2] = "kernel" /\ tabla' = [tabla EXCEPT ![fd[Cliente(c)]] = Libre]
    BY <2>1 DEF EfectoTabla
  <2>4. /\ c[2] = "kernel" => c \in AlKernel /\ fd[Cliente(c)] \in Fds
        /\ c[2] # "kernel" => c \in ALaMemoria
    BY <1>0, <2>1, RealEs
  <2>5. \A d \in DeInterfaz : d # c => hilo'[d] = hilo[d]
    BY <2>2, <1>0 DEF Pasa, TipoHilos
  <2>6. hilo'[c] # "ninguno" /\ hilo' \in [DeInterfaz -> Hilos]
    BY <2>1, <2>2, <1>0 DEF Pasa, TipoHilos, Hilos
  <2>7. TipoColas' /\ Colas'
    <3>1. \A d \in DeInterfaz : hilo'[d] # "ninguno" => hilo[d] # "ninguno"
      BY <2>1, <2>5
    <3> QED
      BY <1>0, <2>1, <3>1, ColasQuietas DEF historia, inicioVars
  <2>8. \A i \in Interfaz : hilo'[IOMemoria(i)] \in {"ninguno", "saludo", "sirve", "fin"}
    <3> SUFFICES ASSUME NEW i \in Interfaz
                 PROVE  hilo'[IOMemoria(i)] \in {"ninguno", "saludo", "sirve", "fin"}
      OBVIOUS
    <3>1. IOMemoria(i) \in DeInterfaz /\ IOMemoria(i)[2] = "memoria"
      BY ConexionesEs DEF IOMemoria
    <3>2. CASE IOMemoria(i) = c
      BY <2>2, <3>1, <3>2, <1>0 DEF TipoHilos, Pasa
    <3>3. CASE IOMemoria(i) # c
      BY <2>5, <3>1, <3>3, <1>0 DEF TipoHilos
    <3> QED
      BY <3>2, <3>3
  <2>9. /\ tabla' \in [Fds -> {Libre} \cup AlKernel]
        /\ \A x \in Fds : tabla'[x] = tabla[x] \/ tabla'[x] = Libre
    BY <2>3, <2>4, <1>0 DEF TipoHilos
  <2>10. TipoHilos'
    BY <2>1, <2>6, <2>8, <2>9, <1>0 DEF TipoHilos
  <2>11. \A i \in Interfaz : hilo'[IOKernel(i)] # "ninguno" <=> hilo[IOKernel(i)] # "ninguno"
    BY <2>1, <2>5, <2>6, ConexionesEs
  <2>12. \A i \in Interfaz : IOKernel(i) # Libre
    BY DEF IOKernel, Libre
  <2>13. Descriptores'
    BY <2>1, <2>9, <2>11, <2>12, <1>0 DEF Descriptores
  <2> QED
    BY <2>7, <2>10, <2>13
<1>8. CASE EnObra
  BY <1>0, <1>1, <1>8, ObraEs DEF fdVars, EfectoHistoria, inicioVars
<1> QED
  BY <1>2, <1>3, <1>4, <1>5, <1>6, <1>7, <1>8, NextEs DEF NextCasos

LEMMA InicioTipos ==
  ASSUME Init
  PROVE  TipoArranque
<1>1. TipoProgramas
  <2>1. \A m \in Modulos : Tipo(m) \in Tipos \/ m \notin Interfaz
    BY CotasArranque DEF Init, Tipo
  <2>2. ASSUME NEW m \in Modulos
        PROVE  1 \in 1 .. (Len(Guion(m)) + 1)
    <3>1. m \in Interfaz => Len(Guion(m)) = 4 \/ Len(Guion(m)) = 7
      BY <2>1, GuionInterfazEs
    <3>2. Len(Guion(m)) \in {4, 7, 8, 10}
      BY <3>1, GuionMemoriaEs, GuionCpuEs, GuionKernelEs, ModulosEs
    <3> QED
      BY <3>2
  <2> QED
    BY <2>2 DEF Init, TipoProgramas
<1>2. TipoColas /\ TipoBuzon /\ TipoCierres
  BY DEF Init, TipoColas, TipoBuzon, TipoCierres
<1>3. TipoHilos
  BY ConexionesEs DEF Init, TipoHilos, Hilos
<1>4. TipoTrabajo
  BY DEF Init, TipoTrabajo
<1>5. Colas
  <2>1. \A c \in Conexiones : c[2] \in Puertos
    BY ConexionEs
  <2>2. \A p \in Puertos : pendientes[p] = << >> /\ Len(pendientes[p]) = 0
    BY DEF Init
  <2>3. \A c \in DeInterfaz : hilo[c] = "ninguno"
    BY DEF Init
  <2> QED
    BY <2>1, <2>2, <2>3 DEF Colas, EnCola
<1>6. Descriptores
  <2>1. \A i \in Interfaz : hilo[IOKernel(i)] = "ninguno" /\ IOKernel(i) # Libre
    BY ConexionesEs DEF Init, IOKernel, Libre
  <2>2. \A n \in Fds : tabla[n] = Libre
    BY DEF Init
  <2> QED
    BY <2>1, <2>2 DEF Descriptores
<1> QED
  BY <1>1, <1>2, <1>3, <1>4, <1>5, <1>6 DEF TipoArranque

LEMMA PasoDeTipos ==
  ASSUME TipoArranque, [Next]_vars
  PROVE  TipoArranque'
  BY PasoDeProgramas, PasoDeTrabajo, PasoDeLugares DEF TipoArranque

-----------------------------------------------------------------------------
(* What a closed end means.                                                 *)

Enciende(m) ==
    /\ Lanza(m)
    /\ vida[m] = "apagado" /\ vida' = [vida EXCEPT ![m] = "corre"]
    /\ cerrado' = cerrado

LEMMA VidaDeUnPaso ==
  ASSUME TipoArranque, [Next]_vars
  PROVE  EfectoVida \/ \E m \in Modulos : Enciende(m)
<1>0. /\ TipoProgramas /\ TipoCierres /\ TipoBuzon /\ TipoColas /\ TipoHilos /\ TipoTrabajo
      /\ Descriptores
  BY DEF TipoArranque
<1>1. CASE UNCHANGED vars
  BY <1>1 DEF vars, redVars, EfectoVida
<1>2. ASSUME NEW m \in Modulos, Lanza(m)
      PROVE  Enciende(m)
  BY <1>2 DEF Lanza, Enciende, redVars
<1>3. ASSUME NEW m \in Modulos, Mata(m)
      PROVE  EfectoVida
  BY <1>3 DEF Mata, EfectoVida
<1>4. ASSUME NEW m \in Modulos, Main(m)
      PROVE  EfectoVida
  <2>1. EfectoMain(m) /\ EnFuncion(m)
    BY <1>0, <1>4, MainEs, MainToca
  <2> QED
    BY <2>1 DEF EfectoMain, Sigue, SeRinde, EfectoVida
<1>5. CASE AceptaMemoria \/ AceptaKernel
  BY <1>5 DEF AceptaMemoria, AceptaKernel, Sigan, EfectoVida
<1>6. ASSUME NEW c \in DeInterfaz, Hilo(c)
      PROVE  EfectoVida
  <2>1. EfectoHilo(c) /\ hilo[c] # "ninguno"
    BY <1>0, <1>6, HiloEs
  <2> QED
    BY <2>1, <1>0, EfectoDeHilo
<1>7. CASE EnObra
  <2>1. EfectoCaida
    BY <1>0, <1>7, ObraEs
  <2> QED
    BY <2>1 DEF EfectoCaida, EfectoVida
<1> QED
  BY <1>1, <1>2, <1>3, <1>4, <1>5, <1>6, <1>7, NextEs DEF NextCasos

\* Nobody comes back from the end, and a closed end stays closed.
SinVuelta ==
    /\ \A m \in Modulos : Termino(m) => vida'[m] = "fin"
    /\ \A c \in Conexiones : cerrado[c] \subseteq cerrado'[c]

LEMMA PasoDeCierres ==
  ASSUME TipoArranque, Cierres, [Next]_vars
  PROVE  SinVuelta /\ Cierres'
<1>0. TipoProgramas /\ TipoCierres
  BY DEF TipoArranque
<1>1. EfectoVida \/ \E m \in Modulos : Enciende(m)
  BY VidaDeUnPaso
<1>2. EfectoRoto
  BY PasoDeProgramas
<1>3. ASSUME NEW c \in Conexiones, NEW l \in Lados
      PROVE  Programa(c, l) \in Modulos /\ (Programa(c, l))' = Programa(c, l)
  <2>1. Cliente(c) \in Modulos /\ c[2] \in Puertos
    BY ConexionEs
  <2>2. Servidor(c[2]) \in Modulos
    BY <2>1, ModulosEs DEF Puertos, Servidor
  <2> QED
    BY <2>1, <2>2 DEF Programa, Cliente, Servidor
<1> DEFINE Causa(c, l) == \/ vida'[Programa(c, l)] = "fin"
                          \/ c = KernelMemoria /\ l = "c"
                          \/ c \in DeInterfaz /\ l = "s"
           Meta == /\ SinVuelta
                   /\ \A c \in Conexiones, l \in Lados : l \in cerrado'[c] => Causa(c, l)
<1>4. ASSUME UNCHANGED << vida, cerrado >>
      PROVE  Meta
  BY <1>0, <1>3, <1>4 DEF SinVuelta, Termino, Cierres
<1>5. ASSUME NEW m \in Modulos, Enciende(m)
      PROVE  Meta
  <2>1. \A n \in Modulos : vida[n] = "fin" => vida'[n] = "fin"
    BY <1>0, <1>5 DEF Enciende, TipoProgramas
  <2> QED
    BY <1>3, <1>5, <2>1 DEF Enciende, SinVuelta, Termino, Cierres
<1>6. ASSUME NEW m \in Modulos, Termina(m)
      PROVE  Meta
  <2>1. /\ \A n \in Modulos : vida[n] = "fin" => vida'[n] = "fin"
        /\ vida'[m] = "fin"
        /\ \A c \in Conexiones, l \in Lados :
              l \in cerrado'[c] => l \in cerrado[c] \/ Programa(c, l) = m
        /\ \A c \in Conexiones : cerrado[c] \subseteq cerrado'[c]
    BY <1>0, <1>6, TerminaEs
  <2> QED
    BY <1>3, <2>1 DEF SinVuelta, Termino, Cierres
<1>7. ASSUME UNCHANGED vida, Cierra(KernelMemoria, "c")
      PROVE  Meta
  <2>1. /\ cerrado'[KernelMemoria] = cerrado[KernelMemoria] \cup {"c"}
        /\ \A d \in Conexiones : d # KernelMemoria => cerrado'[d] = cerrado[d]
    BY <1>0, <1>7, CierraEs, ConexionesEs, LadosEs
  <2> QED
    BY <1>3, <1>7, <2>1 DEF SinVuelta, Termino, Cierres
<1>8. ASSUME UNCHANGED vida, NEW c \in DeInterfaz, Cierra(c, "s")
      PROVE  Meta
  <2>1. /\ cerrado'[c] = cerrado[c] \cup {"s"}
        /\ \A d \in Conexiones : d # c => cerrado'[d] = cerrado[d]
    BY <1>0, <1>8, CierraEs, ConexionesEs, LadosEs
  <2> QED
    BY <1>3, <1>8, <2>1 DEF SinVuelta, Termino, Cierres
<1>9. Meta
  BY <1>1, <1>4, <1>5, <1>6, <1>7, <1>8 DEF EfectoVida
<1>10. \A c \in Conexiones, l \in Lados : l \in roto'[c] => Otro(l) \in cerrado'[c]
  BY <1>2, <1>9, LadosEs DEF EfectoRoto, Cierres, SinVuelta
<1>11. Cierres'
  <2> SUFFICES ASSUME NEW c \in Conexiones, NEW l \in Lados
               PROVE  /\ l \in cerrado'[c] =>
                            \/ vida'[(Programa(c, l))'] = "fin"
                            \/ c = KernelMemoria /\ l = "c"
                            \/ c \in DeInterfaz /\ l = "s"
                      /\ l \in roto'[c] => Otro(l) \in cerrado'[c]
    BY DEF Cierres, Termino
  <2> QED
    BY <1>3, <1>9, <1>10
<1> QED
  BY <1>9, <1>11

\* What was done out of turn, by a kill, or over a request, is not forgotten.
LEMMA HistoriaCrece ==
  ASSUME TipoArranque, [Next]_vars
  PROVE  /\ desorden => desorden'
         /\ matados \subseteq matados' /\ fallados \subseteq fallados'
         /\ desconocio => desconocio'
<1> DEFINE Crece == /\ desorden => desorden'
                    /\ matados \subseteq matados' /\ fallados \subseteq fallados'
                    /\ desconocio => desconocio'
<1>0. /\ TipoProgramas /\ TipoCierres /\ TipoBuzon /\ TipoColas /\ TipoHilos /\ TipoTrabajo
      /\ Descriptores
  BY DEF TipoArranque
<1>1. UNCHANGED historia => Crece
  BY DEF historia, inicioVars
<1>2. ASSUME NEW m \in Modulos, Lanza(m)
      PROVE  Crece
  <2>1. /\ desorden' = (desorden \/ ~EnTurno(m))
        /\ UNCHANGED << matados, fallados, desconocio >>
    BY <1>2 DEF Lanza
  <2>2. desorden => desorden'
    BY <2>1, Zenon
  <2> QED
    BY <2>1, <2>2
<1>3. ASSUME NEW m \in Modulos, Mata(m)
      PROVE  Crece
  <2>1. UNCHANGED << desorden, fallados, desconocio >> /\ matados = {}
    BY <1>3 DEF Mata
  <2> QED
    BY <2>1
<1>4. ASSUME NEW m \in Modulos, Main(m)
      PROVE  UNCHANGED historia
  BY <1>0, <1>4, MainEs DEF EfectoMain, SoloMain
<1>5. ASSUME AceptaMemoria \/ AceptaKernel
      PROVE  UNCHANGED historia
  BY <1>5 DEF AceptaMemoria, AceptaKernel, SoloHilo
<1>6. ASSUME NEW c \in DeInterfaz, Hilo(c)
      PROVE  UNCHANGED historia
  BY <1>0, <1>6, HiloEs
<1>7. ASSUME EnObra
      PROVE  Crece
  <2>1. EfectoHistoria
    BY <1>0, <1>7, ObraEs
  <2>2. UNCHANGED << desorden, matados >> /\ fallados \subseteq fallados'
    BY <2>1 DEF EfectoHistoria, inicioVars
  <2>3. desconocio' = desconocio \/ desconocio' = TRUE
    BY <2>1 DEF EfectoHistoria
  <2>4. desconocio => desconocio'
    BY <2>3, Zenon
  <2> QED
    BY <2>2, <2>4
<1>8. UNCHANGED vars => UNCHANGED historia
  BY DEF vars
<1> QED
  BY <1>1, <1>2, <1>3, <1>4, <1>5, <1>6, <1>7, <1>8, NextEs DEF NextCasos

\* The memory refuses the CPU only after it did not know a process.
LEMMA PasoDeRechazos ==
  ASSUME TipoArranque, Rechazos, [Next]_vars
  PROVE  Rechazos'
<1>0. /\ TipoProgramas /\ TipoCierres /\ TipoBuzon /\ TipoColas /\ TipoHilos /\ TipoTrabajo
      /\ Descriptores
  BY DEF TipoArranque
<1>1. desconocio => desconocio'
  BY HistoriaCrece
<1>2. ASSUME SinRechazos
      PROVE  Rechazos'
  BY <1>1, <1>2, Zenon DEF SinRechazos, Rechazos
<1>3. ASSUME UNCHANGED buzon
      PROVE  Rechazos'
  <2>1. Rechazada(buzon') => Rechazada(buzon)
    BY <1>3
  <2> QED
    BY <1>1, <2>1, Zenon DEF Rechazos
<1>4. CASE UNCHANGED vars
  BY <1>3, <1>4 DEF vars, redVars
<1>5. ASSUME NEW m \in Modulos, Lanza(m) \/ Mata(m)
      PROVE  Rechazos'
  BY <1>3, <1>5 DEF Lanza, Mata, SinRed, redVars
<1>6. ASSUME NEW m \in Modulos, Main(m)
      PROVE  Rechazos'
  BY <1>0, <1>2, <1>6, MainEs DEF EfectoMain, RedMain
<1>7. CASE AceptaMemoria \/ AceptaKernel
  BY <1>3, <1>7 DEF AceptaMemoria, AceptaKernel, Sigan
<1>8. ASSUME NEW c \in DeInterfaz, Hilo(c)
      PROVE  Rechazos'
  BY <1>0, <1>2, <1>8, HiloEs DEF RedBien
<1>9. CASE EnObra
  BY <1>0, <1>2, <1>9, ObraEs DEF RedBien
<1> QED
  BY <1>4, <1>5, <1>6, <1>7, <1>8, <1>9, NextEs DEF NextCasos

\* The cycle of the CPU ends only when one of its two sockets was closed, or
\* when the memory did not know a process.
LEMMA PasoDelCiclo ==
  ASSUME TipoArranque, Cierres, CicloMuerto, Rechazos, [Next]_vars
  PROVE  CicloMuerto'
<1>0. SinVuelta /\ TipoTrabajo /\ TipoProgramas /\ TipoCierres /\ TipoBuzon
  BY PasoDeCierres DEF TipoArranque
<1>1. \A m \in {"cpu", "kernel", "memoria"} : Termino(m) => vida'[m] = "fin"
  BY <1>0, ModulosEs DEF SinVuelta
<1>7. desconocio => desconocio'
  BY HistoriaCrece
<1>8. ASSUME ciclo = "muerto" => Termino("cpu") \/ Termino("kernel") \/ Termino("memoria")
                                 \/ desconocio,
             ciclo' = ciclo \/ ciclo = "muerto"
      PROVE  CicloMuerto'
  <2>1. CASE desconocio /\ ciclo = "muerto"
    BY <2>1, <1>7, Zenon DEF CicloMuerto
  <2>2. CASE ~(desconocio /\ ciclo = "muerto")
    BY <1>1, <1>8, <2>2 DEF CicloMuerto, Termino
  <2> QED
    BY <2>1, <2>2
<1>2. CASE ciclo = "muerto"
  BY <1>2, <1>8 DEF CicloMuerto
<1>3. ASSUME NEW c \in {KernelDispatch, CpuMemoria}, NEW l \in Lados,
             Agotada(c, l) \/ NoEnvia(c, l)
      PROVE  Termino("cpu") \/ Termino("kernel") \/ Termino("memoria")
  <2>1. /\ c \in Conexiones /\ Otro(l) \in Lados /\ c \notin DeInterfaz /\ c # KernelMemoria
    BY ConexionesEs, LadosEs DEF Principales, KernelDispatch, KernelMemoria, CpuMemoria
  <2>2. l \in cerrado[c] \/ Otro(l) \in cerrado[c]
    BY <1>3, <2>1 DEF Agotada, NoEnvia, Cierres
  <2>3. Termino(Programa(c, l)) \/ Termino(Programa(c, Otro(l)))
    BY <2>1, <2>2 DEF Cierres
  <2>4. \A e : Programa(c, e) \in {"cpu", "kernel", "memoria"}
    BY DEF Programa, Cliente, Servidor, KernelDispatch, CpuMemoria
  <2> QED
    BY <2>3, <2>4
<1>4. CASE CicloCpu
  <2>1. ciclo' = "muerto" => \/ Agotada(KernelDispatch, "s")
                             \/ NoEnvia(CpuMemoria, "c") \/ Agotada(CpuMemoria, "c")
                             \/ Recibe(CpuMemoria, "c", "desconoce")
                             \/ Recibe(CpuMemoria, "c", "invalido") /\ vida'["cpu"] = "fin"
                             \/ Recibe(CpuMemoria, "c", "resto")
    <3>1. Falla("cpu") => vida'["cpu"] = "fin"
      BY <1>0, TerminaEs, ModulosEs DEF Falla
    <3>2. CicloRechazado /\ ciclo' = "muerto" =>
             \/ Recibe(CpuMemoria, "c", "desconoce")
             \/ Recibe(CpuMemoria, "c", "invalido") /\ vida'["cpu"] = "fin"
      BY <3>1 DEF CicloRechazado
    <3>3. CicloDesfasado /\ ciclo' = "muerto" => Recibe(CpuMemoria, "c", "resto")
      BY DEF CicloDesfasado
    <3> QED
      BY <1>4, <3>2, <3>3 DEF CicloCpu, CicloRecibe, CicloPide, CicloMemoria, CicloContesta
  <2>2. ASSUME NEW x \in {"desconoce", "resto"}, Recibe(CpuMemoria, "c", x)
        PROVE  desconocio
    <3>1. "c" \in Lados /\ CpuMemoria \in Conexiones
      BY LadosEs, ConexionesEs
    <3>2. x \in Contenido(buzon, CpuMemoria, "c")
      BY <1>0, <2>2, <3>1, RecibeEs
    <3> QED
      BY <3>2 DEF Rechazos, Rechazada
  <2>3. CASE ciclo' = "muerto" /\ desconocio
    BY <1>7, <2>3, Zenon DEF CicloMuerto
  <2>4. CASE ciclo' = "muerto" /\ ~desconocio
    <3>1. Termino("cpu") \/ Termino("kernel") \/ Termino("memoria") \/ vida'["cpu"] = "fin"
      BY <1>3, <2>1, <2>2, <2>4, LadosEs
    <3> QED
      BY <1>1, <3>1 DEF CicloMuerto, Termino
  <2>5. CASE ciclo' # "muerto"
    BY <2>5 DEF CicloMuerto
  <2> QED
    BY <2>3, <2>4, <2>5
<1>5. CASE ciclo' = ciclo
  BY <1>5, <1>8 DEF CicloMuerto
<1>6. CicloCpu \/ ciclo' = ciclo
  <2>1. UNCHANGED vars => ciclo' = ciclo
    BY DEF vars
  <2>2. \A m \in Modulos : Lanza(m) \/ Mata(m) \/ Main(m) => ciclo' = ciclo
    BY DEF Lanza, Mata, Main, SoloMain, Escuchar, Connect, Saluda, Respuesta, Espera,
       EnviaTamPagina, EnviaNombre, MandaDato, ObtieneTamPagina
  <2>3. AceptaMemoria \/ AceptaKernel => ciclo' = ciclo
    BY DEF AceptaMemoria, AceptaKernel, SoloHilo
  <2>4. \A c \in DeInterfaz : Hilo(c) => ciclo' = ciclo
    BY DEF Hilo, HiloSaluda, MemoriaInterfaz, HiloNombre, HiloPide, HiloResultado,
       HiloLibera, HiloCierra, SoloHilo, SinMain
  <2>5. KernelEnObra => ciclo' = ciclo
    BY DEF KernelEnObra, KernelTrabaja, KernelCrea, KernelConfirma, KernelDespacha,
       KernelContexto, KernelTermina, KernelOrdena, KernelSinPath, KernelCae, SinTocar,
       SinTocarNada
  <2>6. HiloInterrupcion \/ MemoriaEnObra => ciclo' = ciclo
    BY DEF HiloInterrupcion, MemoriaEnObra, MemoriaKernel, AtiendeCpu, MemoriaCpu,
       MemoriaSinProceso, MemoriaSinInstruccion, SoloMemoria, SoloAtiende
  <2>7. \A i \in Interfaz : IO(i) \/ Teclea(i) => ciclo' = ciclo
    BY DEF IO, Teclea, IORecibe, IOPide, IOMemoriaResponde, IOResponde, IOFalla,
       IORechazada, SoloIO, SoloSuyo
  <2> QED
    BY <2>1, <2>2, <2>3, <2>4, <2>5, <2>6, <2>7, NextEs DEF NextCasos, EnObra
<1> QED
  BY <1>4, <1>5, <1>6

-----------------------------------------------------------------------------
(* How far the others are when a program is started.                        *)

LEMMA EscuchasEs ==
  ASSUME TipoProgramas
  PROVE  /\ Escucha("memoria") <=> EnFuncion("memoria") /\ paso["memoria"] >= 2
         /\ Escucha("dispatch") <=> EnFuncion("cpu") /\ paso["cpu"] >= 6
         /\ Escucha("interrupt") <=> EnFuncion("cpu") /\ paso["cpu"] >= 7
         /\ Escucha("kernel") <=> EnFuncion("kernel") /\ paso["kernel"] >= 11
<1>1. /\ Servidor("memoria") = "memoria" /\ Servidor("dispatch") = "cpu"
      /\ Servidor("interrupt") = "cpu" /\ Servidor("kernel") = "kernel"
  BY DEF Servidor
<1>2. paso["memoria"] \in 1 .. 5 /\ paso["cpu"] \in 1 .. 9 /\ paso["kernel"] \in 1 .. 11
  <2>1. \A m \in {"memoria", "cpu", "kernel"} : paso[m] \in 1 .. (Len(Guion(m)) + 1)
    BY ModulosEs DEF TipoProgramas
  <2>2. paso["memoria"] \in 1 .. (4 + 1)
    BY <2>1, GuionMemoriaEs
  <2>3. paso["cpu"] \in 1 .. (8 + 1)
    BY <2>1, GuionCpuEs
  <2>4. paso["kernel"] \in 1 .. (10 + 1)
    BY <2>1, GuionKernelEs
  <2> QED
    BY <2>2, <2>3, <2>4
<1>3. Escucha("memoria") <=> EnFuncion("memoria") /\ paso["memoria"] >= 2
  <2>1. \A k \in 1 .. (paso["memoria"] - 1) : k \in {1, 2, 3, 4}
    BY <1>2
  <2>2. \A k \in {1, 2, 3, 4} : Guion("memoria")[k] = << "escucha", "memoria" >> <=> k = 1
    BY GuionMemoriaEs
  <2>3. (\E k \in 1 .. (paso["memoria"] - 1) : Guion("memoria")[k] = << "escucha", "memoria" >>)
        <=> 1 \in 1 .. (paso["memoria"] - 1)
    BY <2>1, <2>2
  <2>4. 1 \in 1 .. (paso["memoria"] - 1) <=> paso["memoria"] >= 2
    BY <1>2
  <2> QED
    BY <1>1, <2>3, <2>4 DEF Escucha
<1>4. \A k \in 1 .. (paso["cpu"] - 1) : k \in {1, 2, 3, 4, 5, 6, 7, 8}
  <2>1. \A k \in 1 .. (paso["cpu"] - 1) : k \in 1 .. 8
    BY <1>2
  <2> QED
    BY <2>1
<1>5. Escucha("dispatch") <=> EnFuncion("cpu") /\ paso["cpu"] >= 6
  <2>2. \A k \in {1, 2, 3, 4, 5, 6, 7, 8} :
           Guion("cpu")[k] = << "escucha", "dispatch" >> <=> k = 5
    BY GuionCpuEs
  <2>3. (\E k \in 1 .. (paso["cpu"] - 1) : Guion("cpu")[k] = << "escucha", "dispatch" >>)
        <=> 5 \in 1 .. (paso["cpu"] - 1)
    BY <1>4, <2>2
  <2>4. 5 \in 1 .. (paso["cpu"] - 1) <=> paso["cpu"] >= 6
    BY <1>2
  <2> QED
    BY <1>1, <2>3, <2>4 DEF Escucha
<1>6. Escucha("interrupt") <=> EnFuncion("cpu") /\ paso["cpu"] >= 7
  <2>2. \A k \in {1, 2, 3, 4, 5, 6, 7, 8} :
           Guion("cpu")[k] = << "escucha", "interrupt" >> <=> k = 6
    BY GuionCpuEs
  <2>3. (\E k \in 1 .. (paso["cpu"] - 1) : Guion("cpu")[k] = << "escucha", "interrupt" >>)
        <=> 6 \in 1 .. (paso["cpu"] - 1)
    BY <1>4, <2>2
  <2>4. 6 \in 1 .. (paso["cpu"] - 1) <=> paso["cpu"] >= 7
    BY <1>2
  <2> QED
    BY <1>1, <2>3, <2>4 DEF Escucha
<1>7. Escucha("kernel") <=> EnFuncion("kernel") /\ paso["kernel"] >= 11
  <2>0. \A k \in 1 .. (paso["kernel"] - 1) : k \in 1 .. 10
    BY <1>2
  <2>1. \A k \in 1 .. (paso["kernel"] - 1) : k \in {1, 2, 3, 4, 5, 6, 7, 8, 9, 10}
    BY <2>0
  <2>2. \A k \in {1, 2, 3, 4, 5, 6, 7, 8, 9, 10} :
           Guion("kernel")[k] = << "escucha", "kernel" >> <=> k = 10
    BY GuionKernelEs
  <2>3. (\E k \in 1 .. (paso["kernel"] - 1) : Guion("kernel")[k] = << "escucha", "kernel" >>)
        <=> 10 \in 1 .. (paso["kernel"] - 1)
    BY <2>1, <2>2
  <2>4. 10 \in 1 .. (paso["kernel"] - 1) <=> paso["kernel"] >= 11
    BY <1>2
  <2> QED
    BY <1>1, <2>3, <2>4 DEF Escucha
<1> QED
  BY <1>3, <1>5, <1>6, <1>7

LEMMA TocaEs ==
  ASSUME TipoProgramas, NEW m \in Modulos, paso[m] \in 1 .. Len(Guion(m))
  PROVE  /\ \A c : Toca(m, "espera", c) =>
               \/ m = "memoria" /\ paso[m] = 2 /\ c = CpuMemoria
               \/ m = "memoria" /\ paso[m] = 4 /\ c = KernelMemoria
               \/ m = "cpu" /\ paso[m] = 7 /\ c = KernelDispatch
               \/ m = "cpu" /\ paso[m] = 8 /\ c = KernelInterrupt
         /\ \A c : Toca(m, "envia_tam", c) => m = "memoria" /\ paso[m] = 3
         /\ \A c : Toca(m, "recibe_tam", c) => m = "cpu" /\ paso[m] = 4
<1>0. \A v, c : Toca(m, v, c) => Guion(m)[paso[m]][1] = v
  BY DEF Toca
<1>1. CASE m = "memoria"
  <2>1. paso[m] \in {1, 2, 3, 4}
    BY <1>1, GuionMemoriaEs
  <2> QED
    BY <1>1, <2>1, GuionMemoriaEs DEF Toca
<1>2. CASE m = "cpu"
  <2>0. paso[m] \in 1 .. 8
    BY <1>2, GuionCpuEs
  <2>1. paso[m] \in {1, 2, 3, 4, 5, 6, 7, 8}
    BY <2>0
  <2> QED
    BY <1>2, <2>1, GuionCpuEs DEF Toca
<1>3. CASE m = "kernel"
  <2>0. paso[m] \in 1 .. 10
    BY <1>3, GuionKernelEs
  <2>1. paso[m] \in {1, 2, 3, 4, 5, 6, 7, 8, 9, 10}
    BY <2>0
  <2>2. Guion(m)[paso[m]][1] \in {"connect", "saluda", "respuesta", "escucha"}
    BY <1>3, <2>1, GuionKernelEs, SMTT(40)
  <2> QED
    BY <1>0, <2>2
<1>4. CASE m \in Interfaz
  <2>0. paso[m] \in 1 .. 7
    <3>1. Len(Guion(m)) = 4 \/ Len(Guion(m)) = 7
      BY <1>4, GuionInterfazEs, TiposEs
    <3>2. CASE Len(Guion(m)) = 4
      BY <3>2
    <3>3. CASE Len(Guion(m)) = 7
      BY <3>3
    <3> QED
      BY <3>1, <3>2, <3>3
  <2>1. paso[m] \in {1, 2, 3, 4, 5, 6, 7}
    BY <2>0
  <2>2. Guion(m)[paso[m]][1] \in {"connect", "saluda", "respuesta", "nombre"}
    BY <1>4, <2>1, GuionInterfazEs, TiposEs
  <2> QED
    BY <1>0, <2>2
<1> QED
  BY <1>1, <1>2, <1>3, <1>4, ModulosEs

LEMMA QuienEs ==
  ASSUME NEW c \in Conexiones
  PROVE  /\ \/ Cliente(c) \in Interfaz /\ c[2] \in {"kernel", "memoria"}
            \/ Cliente(c) = "cpu" /\ c = CpuMemoria
            \/ Cliente(c) = "kernel" /\ c \in {KernelMemoria, KernelDispatch, KernelInterrupt}
         /\ c[2] = "dispatch" => c = KernelDispatch
         /\ c[2] = "interrupt" => c = KernelInterrupt
<1>1. CASE c \in Principales
  BY <1>1 DEF Principales, Cliente, CpuMemoria, KernelMemoria, KernelDispatch, KernelInterrupt
<1>2. CASE c \in DeInterfaz
  <2>1. PICK i \in Interfaz : c = IOKernel(i) \/ c = IOMemoria(i)
    BY <1>2 DEF DeInterfaz
  <2> QED
    BY <2>1 DEF IOKernel, IOMemoria, Cliente
<1> QED
  BY <1>1, <1>2, ConexionesEs

\* Who got through a connect was started.
LEMMA ConectadoEs ==
  ASSUME TipoProgramas, NEW c \in Conexiones, Conectado(c)
  PROVE  Cliente(c) \in Modulos /\ vida[Cliente(c)] # "apagado" /\ paso[Cliente(c)] >= 2
<1>1. Cliente(c) \in Modulos /\ paso[Cliente(c)] \in Nat
  BY ConexionEs DEF TipoProgramas
<1>2. PICK k \in 1 .. (paso[Cliente(c)] - 1) : TRUE
  BY DEF Conectado
<1>3. paso[Cliente(c)] >= 2
  BY <1>1, <1>2
<1> QED
  BY <1>1, <1>3 DEF TipoProgramas

\* Among programs started in their turn, one that gives up at its start lost a
\* connection: never a refused connect nor somebody else at its port.
LEMMA MotivoEs ==
  ASSUME TipoArranque, Encadenados, Sano, NEW m \in Modulos, EnFuncion(m),
         paso[m] \in 1 .. Len(Guion(m)), MotivoMain(m)
  PROVE  Motivo(m)
<1>0. /\ TipoProgramas /\ TipoColas /\ Colas /\ Vivos /\ Saludos
  BY DEF TipoArranque, Encadenados
<1>1. /\ paso["memoria"] \in Nat /\ paso["cpu"] \in Nat /\ paso["kernel"] \in Nat
  BY <1>0, ModulosEs DEF TipoProgramas
<1>2. ASSUME NEW c \in Conexiones, Cliente(c) = m
      PROVE  Escucha(c[2])
  <2>1. EnFuncion("cpu") => Escucha("memoria")
    BY <1>0, EscuchasEs DEF Vivos
  <2>2. EnFuncion("kernel") => Escucha("memoria") /\ Escucha("dispatch") /\ Escucha("interrupt")
    <3>1. EnFuncion("kernel") => EnFuncion("cpu") /\ paso["cpu"] >= 7 /\ paso["cpu"] >= 6
      BY <1>0, <1>1 DEF Vivos
    <3> QED
      BY <1>0, <2>1, <3>1, EscuchasEs
  <2>3. CASE m \in Interfaz
    <3>1. EnFuncion("kernel") /\ Escucha("kernel")
      BY <1>0, <2>3, EscuchasEs DEF Vivos, EnFuncion
    <3> QED
      BY <1>2, <2>2, <2>3, <3>1, QuienEs, ModulosEs
  <2>4. CASE m \notin Interfaz
    <3>1. \/ m = "cpu" /\ c[2] = "memoria"
          \/ m = "kernel" /\ c[2] \in {"memoria", "dispatch", "interrupt"}
      BY <1>2, <2>4, QuienEs
      DEF CpuMemoria, KernelMemoria, KernelDispatch, KernelInterrupt
    <3> QED
      BY <2>1, <2>2, <3>1
  <2> QED
    BY <2>3, <2>4
<1>3. ASSUME NEW c, Toca(m, "espera", c), pendientes[c[2]] # << >>
      PROVE  Head(pendientes[c[2]]) = c
  <2> DEFINE q == pendientes[c[2]]
             h == Head(q)
  <2>1. \/ m = "memoria" /\ paso[m] = 2 /\ c = CpuMemoria
        \/ m = "memoria" /\ paso[m] = 4 /\ c = KernelMemoria
        \/ m = "cpu" /\ paso[m] = 7 /\ c = KernelDispatch
        \/ m = "cpu" /\ paso[m] = 8 /\ c = KernelInterrupt
    BY <1>0, <1>3, TocaEs
  <2>2. c[2] \in Puertos
    BY <2>1 DEF CpuMemoria, KernelMemoria, KernelDispatch, KernelInterrupt, Puertos
  <2>3. q \in Seq(Conexiones) /\ Distintos(q)
    BY <1>0, <2>2 DEF TipoColas, Colas, Distintos
  <2>4. h \in Conexiones /\ Esta(q, h)
    BY <1>3, <2>3, ColaSaca
  <2>5. h[2] = c[2]
    BY <1>0, <2>2, <2>4 DEF Esta, TipoColas
  <2>6. EnCola(h) <=> Esta(pendientes[h[2]], h)
    BY ColasSon
  <2> HIDE DEF h
  <2>7. EnCola(h) /\ Conectado(h)
    BY <1>0, <2>4, <2>5, <2>6 DEF Colas
  <2>8. vida[Cliente(h)] # "apagado" /\ paso[Cliente(h)] >= 2
    BY <1>0, <2>4, <2>7, ConectadoEs
  <2>9. CASE c[2] # "memoria"
    BY <2>1, <2>4, <2>5, <2>9, QuienEs
    DEF CpuMemoria, KernelMemoria, KernelDispatch, KernelInterrupt, h
  <2>10. CASE c[2] = "memoria"
    <3>1. m = "memoria"
      BY <2>1, <2>10 DEF KernelDispatch, KernelInterrupt
    <3>2. h \in ALaMemoria \/ h = CpuMemoria \/ h = KernelMemoria
      BY <2>4, <2>5, <2>10, ConexionEs
    <3>3. ASSUME h \in ALaMemoria
          PROVE  FALSE
      <4>1. Cliente(h) \in Interfaz
        BY <3>3 DEF ALaMemoria, IOMemoria, Cliente
      <4>2. paso["kernel"] >= 4
        BY <4>1, <2>8, <1>0, <1>1 DEF Vivos
      <4>3. paso["memoria"] >= 5
        BY <4>2, <1>0 DEF Saludos
      <4> QED
        BY <4>3, <3>1, <2>1
    <3>4. ASSUME h = CpuMemoria, paso[m] = 4
          PROVE  FALSE
      BY <3>1, <3>4, <2>7, <1>0 DEF Saludos
    <3>5. ASSUME h = KernelMemoria, paso[m] = 2
          PROVE  FALSE
      <4>1. vida["kernel"] # "apagado"
        BY <2>8, <3>5 DEF KernelMemoria, Cliente
      <4>2. EnFuncion("kernel")
        BY <4>1, <1>0, ModulosEs DEF TipoProgramas, Sano, Termino, EnFuncion
      <4>3. paso["cpu"] >= 5
        BY <4>2, <1>0, <1>1 DEF Vivos
      <4>4. paso["memoria"] >= 4
        BY <4>3, <1>0 DEF Saludos
      <4> QED
        BY <3>1, <3>5, <4>4
    <3> QED
      BY <2>1, <3>1, <3>2, <3>3, <3>4, <3>5 DEF h
  <2> QED
    BY <2>9, <2>10
<1> QED
  BY <1>2, <1>3 DEF MotivoMain

\* Taking the first of a queue puts nobody in a queue, and it is in none.
LEMMA ColaQuita ==
  ASSUME TipoColas, Colas, NEW p \in Puertos, pendientes[p] # << >>,
         pendientes' = [pendientes EXCEPT ![p] = Tail(@)]
  PROVE  \A c \in Conexiones :
            EnCola(c)' => EnCola(c) /\ (c[2] = p => c # Head(pendientes[p]))
<1> SUFFICES ASSUME NEW c \in Conexiones, EnCola(c)'
             PROVE  EnCola(c) /\ (c[2] = p => c # Head(pendientes[p]))
  OBVIOUS
<1>1. c[2] \in Puertos
  BY ConexionEs
<1>2. PICK k \in 1 .. Len(pendientes'[c[2]]) : pendientes'[c[2]][k] = c
  BY DEF EnCola
<1>3. CASE c[2] # p
  <2>1. pendientes'[c[2]] = pendientes[c[2]]
    BY <1>1, <1>3 DEF TipoColas
  <2> QED
    BY <1>2, <1>3, <2>1 DEF EnCola
<1>4. CASE c[2] = p
  <2> DEFINE q == pendientes[p]
  <2>1. q \in Seq(Conexiones) /\ q # << >> /\ Distintos(q)
    BY DEF TipoColas, Colas, Distintos
  <2>2. pendientes'[c[2]] = Tail(q)
    BY <1>1, <1>4 DEF TipoColas
  <2>3. pendientes[c[2]] = q
    BY <1>4
  <2> HIDE DEF q
  <2>4. Esta(Tail(q), c)
    BY <1>2, <2>2 DEF Esta
  <2>5. Esta(q, c) /\ c # Head(q)
    BY <2>1, <2>4, ColaSaca
  <2> QED
    BY <2>3, <2>5, ColasSon DEF q
<1> QED
  BY <1>3, <1>4

\* A step is of a main thread, or greets nobody and queues nobody.
Callado ==
    /\ UNCHANGED paso /\ SinSaludos
    /\ \A c \in Conexiones : EnCola(c)' => EnCola(c)
DeMain(m) == EnFuncion(m) /\ paso[m] \in 1 .. Len(Guion(m)) /\ EfectoMain(m)

LEMMA PasoEsDeMain ==
  ASSUME TipoArranque, [Next]_vars
  PROVE  Callado \/ \E m \in Modulos : DeMain(m)
<1>0. /\ TipoProgramas /\ TipoCierres /\ TipoBuzon /\ TipoColas /\ TipoHilos /\ TipoTrabajo
      /\ Descriptores /\ Colas
  BY DEF TipoArranque
<1>1. UNCHANGED pendientes => \A c \in Conexiones : EnCola(c)' => EnCola(c)
  BY DEF EnCola
<1>2. UNCHANGED buzon => SinSaludos
  BY DEF SinSaludos, Contenido
<1>3. CASE UNCHANGED vars
  BY <1>1, <1>2, <1>3 DEF vars, redVars, Callado
<1>4. ASSUME NEW m \in Modulos, Lanza(m) \/ Mata(m)
      PROVE  Callado
  BY <1>1, <1>2, <1>4 DEF Lanza, Mata, SinRed, redVars, Callado
<1>5. ASSUME NEW m \in Modulos, Main(m)
      PROVE  DeMain(m)
  BY <1>0, <1>5, MainEs, MainToca DEF DeMain
<1>6. ASSUME NEW p \in Puertos, pendientes[p] # << >>,
             pendientes' = [pendientes EXCEPT ![p] = Tail(@)]
      PROVE  \A c \in Conexiones : EnCola(c)' => EnCola(c)
  BY <1>0, <1>6, ColaQuita
<1>7. CASE AceptaMemoria \/ AceptaKernel
  <2>1. /\ UNCHANGED << paso, buzon >>
        /\ \E p \in Puertos : /\ pendientes[p] # << >>
                              /\ pendientes' = [pendientes EXCEPT ![p] = Tail(@)]
    BY <1>7 DEF AceptaMemoria, AceptaKernel, Sigan, Puertos
  <2> QED
    BY <2>1, <1>2, <1>6 DEF Callado
<1>8. ASSUME NEW c \in DeInterfaz, Hilo(c)
      PROVE  Callado
  <2>1. RedBien /\ UNCHANGED << paso, pendientes >>
    BY <1>0, <1>8, HiloEs
  <2> QED
    BY <2>1, <1>1 DEF RedBien, Callado
<1>9. CASE EnObra
  <2>1. RedBien /\ UNCHANGED << paso, pendientes >>
    BY <1>0, <1>9, ObraEs
  <2> QED
    BY <2>1, <1>1 DEF RedBien, Callado
<1> QED
  BY <1>3, <1>4, <1>5, <1>7, <1>8, <1>9, NextEs DEF NextCasos

\* Why a program ends or an end closes, when all were started in their turn.
CausaDeCaida ==
    \/ EfectoCaida
    \/ \E m \in Modulos : Enciende(m)
    \/ \E m \in Modulos : Mata(m) /\ EnFuncion(m) /\ Termina(m) /\ matados' = {m}
    \/ \E m \in Modulos : EnFuncion(m) /\ Termina(m) /\ paso' = paso
                          /\ paso[m] <= Len(Guion(m)) /\ Motivo(m)
    \/ \E c \in DeInterfaz : /\ hilo[c] # "ninguno" /\ EfectoHilo(c) /\ EfectoTabla(c)
                             /\ UNCHANGED fd

LEMMA CausaDeUnPaso ==
  ASSUME TipoArranque, Encadenados, Sano, [Next]_vars
  PROVE  CausaDeCaida
<1>0. /\ TipoProgramas /\ TipoCierres /\ TipoBuzon /\ TipoColas /\ TipoHilos /\ TipoTrabajo
      /\ Descriptores
  BY DEF TipoArranque
<1>1. UNCHANGED << vida, cerrado >> => CausaDeCaida
  BY DEF CausaDeCaida, EfectoCaida
<1>2. UNCHANGED vars => UNCHANGED << vida, cerrado >>
  BY DEF vars, redVars
<1>3. ASSUME NEW m \in Modulos, Lanza(m) \/ Mata(m)
      PROVE  CausaDeCaida
  BY <1>3 DEF Lanza, Mata, Enciende, redVars, CausaDeCaida
<1>4. ASSUME NEW m \in Modulos, Main(m)
      PROVE  CausaDeCaida
  <2>1. EfectoMain(m) /\ EnFuncion(m) /\ paso[m] \in 1 .. Len(Guion(m))
    BY <1>0, <1>4, MainEs, MainToca
  <2>2. CASE Sigue(m)
    BY <2>2, <1>1 DEF Sigue
  <2>3. CASE SeRinde(m) /\ MotivoMain(m)
    <3>1. Motivo(m)
      BY <2>1, <2>3, MotivoEs
    <3>2. paso[m] <= Len(Guion(m))
      <4>1. Len(Guion(m)) \in Nat
        BY <1>0, LargoGuion
      <4> QED
        BY <2>1, <4>1
    <3> QED
      BY <2>1, <2>3, <3>1, <3>2 DEF SeRinde, CausaDeCaida
  <2> QED
    BY <2>1, <2>2, <2>3 DEF EfectoMain
<1>5. CASE AceptaMemoria \/ AceptaKernel
  BY <1>1, <1>5 DEF AceptaMemoria, AceptaKernel, Sigan
<1>6. ASSUME NEW c \in DeInterfaz, Hilo(c)
      PROVE  CausaDeCaida
  BY <1>0, <1>6, HiloEs DEF CausaDeCaida
<1>7. CASE EnObra
  BY <1>0, <1>7, ObraEs DEF CausaDeCaida
<1> QED
  BY <1>1, <1>2, <1>3, <1>4, <1>5, <1>6, <1>7, NextEs DEF NextCasos

\* While the kernel runs, and only interfaces are killed, the memory and the
\* CPU run and the connections among the three are open.
LEMMA PrincipalesAbiertas ==
  ASSUME TipoArranque, Cierres, Encadenados, Sano, Sano', [Next]_vars
  PROVE  /\ vida'["memoria"] # "fin" /\ vida'["cpu"] # "fin"
         /\ \A c \in Principales : cerrado'[c] = {} /\ roto'[c] = {}
<1>0. /\ TipoProgramas /\ TipoCierres /\ TipoHilos /\ Descriptores /\ Vivos
  BY DEF TipoArranque, Encadenados
<1>1. /\ vida["memoria"] # "fin" /\ vida["cpu"] # "fin" /\ vida["kernel"] # "fin"
      /\ vida'["kernel"] # "fin" /\ matados' \cup fallados' \subseteq Interfaz
      /\ \A c \in Principales : cerrado[c] = {} /\ roto[c] = {} /\ Abierta(c)
  BY <1>0 DEF Vivos, Sano, Termino, Abierta
<1> DEFINE Meta == /\ vida'["memoria"] # "fin" /\ vida'["cpu"] # "fin"
                   /\ \A c \in Principales : cerrado'[c] = {}
<1>2. \A c \in Principales, l \in Lados : Programa(c, l) \in {"memoria", "cpu", "kernel"}
  BY DEF Principales, Programa, Cliente, Servidor, CpuMemoria, KernelMemoria,
     KernelDispatch, KernelInterrupt
<1>3. ASSUME UNCHANGED << vida, cerrado >>
      PROVE  Meta
  BY <1>1, <1>3
<1>4. ASSUME NEW m \in Interfaz, Termina(m)
      PROVE  Meta
  <2>1. /\ \A n \in Modulos : n # m => vida'[n] = vida[n]
        /\ cerrado' \in [Conexiones -> SUBSET Lados]
        /\ \A c \in Conexiones, l \in Lados :
              l \in cerrado'[c] => l \in cerrado[c] \/ Programa(c, l) = m
    BY <1>0, <1>4, TerminaEs, ModulosEs
  <2>2. \A c \in Principales : cerrado'[c] = {}
    BY <1>1, <1>2, <2>1, ModulosEs, ConexionesEs
  <2> QED
    BY <1>1, <2>1, <2>2, ModulosEs
<1>5. ASSUME NEW m \in Modulos, EnFuncion(m), Termina(m), Motivo(m) \/ m \in fallados'
      PROVE  Meta
  <2>1. m \in Interfaz
    BY <1>1, <1>5 DEF Motivo
  <2> QED
    BY <2>1, <1>4, <1>5
<1>6. ASSUME EfectoCaida
      PROVE  Meta
  <2>1. CASE UNCHANGED vida /\ Cierra(KernelMemoria, "c") /\ ~Abierta(KernelMemoria)
    BY <2>1, <1>1 DEF Principales
  <2> QED
    BY <1>3, <1>5, <1>6, <2>1 DEF EfectoCaida
<1>7. ASSUME NEW m \in Modulos, Enciende(m)
      PROVE  Meta
  <2>1. \A n \in Modulos : vida'[n] = vida[n] \/ vida'[n] = "corre"
    BY <1>0, <1>7 DEF Enciende, TipoProgramas
  <2> QED
    BY <1>1, <1>7, <2>1, ModulosEs DEF Enciende
<1>8. ASSUME NEW m \in Modulos, Termina(m), matados' = {m}
      PROVE  Meta
  BY <1>1, <1>4, <1>8
<1>9. ASSUME Termina("kernel")
      PROVE  FALSE
  BY <1>0, <1>1, <1>9, TerminaEs, ModulosEs
<1>10. ASSUME NEW c \in DeInterfaz, UNCHANGED vida, Cierra(c, "s")
       PROVE  Meta
  <2>1. \A d \in Conexiones : d # c => cerrado'[d] = cerrado[d]
    BY <1>0, <1>10, CierraEs, ConexionesEs, LadosEs
  <2>2. \A d \in Principales : d \in Conexiones /\ d # c
    BY ConexionesEs
  <2> QED
    BY <1>1, <1>10, <2>1, <2>2
<1>11. ASSUME NEW c \in DeInterfaz, hilo[c] # "ninguno", EfectoHilo(c)
       PROVE  Meta
  <2>1. Real(c) # Libre => Real(c) \in DeInterfaz
    BY <1>0, <1>11, RealEs
  <2> QED
    BY <1>3, <1>9, <1>10, <1>11, <2>1 DEF EfectoHilo
<1>12. Meta
  BY <1>3, <1>5, <1>6, <1>7, <1>8, <1>11, CausaDeUnPaso DEF CausaDeCaida
<1>13. EfectoRoto /\ roto' \in [Conexiones -> SUBSET Lados]
  BY PasoDeProgramas DEF TipoCierres
<1>14. \A c \in Principales : roto'[c] = {}
  <2> SUFFICES ASSUME NEW c \in Principales, NEW l \in roto'[c]
               PROVE  FALSE
    OBVIOUS
  <2>1. c \in Conexiones /\ l \in Lados
    BY <1>13, ConexionesEs
  <2> QED
    BY <1>1, <1>13, <2>1 DEF EfectoRoto
<1> QED
  BY <1>12, <1>14

\* A program that was started does not go back, and one that starts was not.
LEMMA VidaAvanza ==
  ASSUME TipoArranque, [Next]_vars, NEW m \in Modulos
  PROVE  /\ vida[m] # "apagado" => vida'[m] # "apagado"
         /\ vida[m] = "apagado" /\ vida'[m] # "apagado" => Lanza(m)
<1>0. TipoProgramas /\ TipoCierres
  BY DEF TipoArranque
<1>1. ASSUME NEW n \in Modulos, EnFuncion(n), Termina(n)
      PROVE  /\ vida[m] # "apagado" => vida'[m] # "apagado"
             /\ vida[m] = "apagado" => vida'[m] = "apagado"
  <2>1. vida'[n] = "fin" /\ (n # m => vida'[m] = vida[m])
    BY <1>0, <1>1, TerminaEs
  <2> QED
    BY <1>1, <2>1 DEF EnFuncion
<1>2. ASSUME NEW n \in Modulos, Enciende(n)
      PROVE  /\ vida[m] # "apagado" => vida'[m] # "apagado"
             /\ vida[m] = "apagado" /\ vida'[m] # "apagado" => Lanza(m)
  BY <1>0, <1>2 DEF Enciende, TipoProgramas
<1> QED
  BY <1>1, <1>2, VidaDeUnPaso DEF EfectoVida

LEMMA SanoAntes ==
  ASSUME TipoArranque, Cierres, [Next]_vars
  PROVE  /\ Sano' => Sano
         /\ EnOrden' => EnOrden
<1>1. /\ desorden => desorden'
      /\ matados \subseteq matados' /\ fallados \subseteq fallados'
  BY HistoriaCrece
<1>2. vida["kernel"] = "fin" => vida'["kernel"] = "fin"
  BY PasoDeCierres, ModulosEs DEF SinVuelta, Termino
<1>3. ASSUME Sano'
      PROVE  Sano
  <2>1. ~desorden' /\ matados' \cup fallados' \subseteq Interfaz /\ vida'["kernel"] # "fin"
    BY <1>3 DEF Sano, Termino
  <2>2. ~desorden
    BY <2>1, <1>1, Zenon
  <2> QED
    BY <2>1, <2>2, <1>1, <1>2 DEF Sano, Termino
<1>4. ASSUME EnOrden'
      PROVE  EnOrden
  <2>1. ~desorden' /\ matados' = {} /\ fallados' = {}
    BY <1>4 DEF EnOrden
  <2>2. ~desorden
    BY <2>1, <1>1, Zenon
  <2> QED
    BY <2>1, <2>2, <1>1 DEF EnOrden
<1> QED
  BY <1>3, <1>4

LEMMA PasoCrece ==
  ASSUME TipoArranque, [Next]_vars, NEW m \in Modulos
  PROVE  paso[m] \in Nat /\ paso'[m] \in Nat /\ paso'[m] >= paso[m]
<1>0. /\ paso \in [Modulos -> Nat] /\ paso[m] \in Nat
  BY DEF TipoArranque, TipoProgramas
<1>1. CASE UNCHANGED paso
  BY <1>0, <1>1
<1>2. ASSUME NEW n \in Modulos, DeMain(n)
      PROVE  paso'[m] \in Nat /\ paso'[m] >= paso[m]
  <2>1. CASE paso' = [paso EXCEPT ![n] = @ + 1]
    BY <1>0, <2>1
  <2>2. CASE UNCHANGED paso
    BY <1>0, <2>2
  <2> QED
    BY <1>2, <2>1, <2>2 DEF DeMain, EfectoMain, Sigue, SeRinde
<1> QED
  BY <1>0, <1>1, <1>2, PasoEsDeMain DEF Callado

LEMMA PasoDeVivos ==
  ASSUME TipoArranque, Cierres, Encadenados, Sano, Sano', [Next]_vars
  PROVE  Vivos'
<1>0. TipoProgramas /\ Vivos
  BY DEF TipoArranque, Encadenados
<1>1. /\ vida'["memoria"] # "fin" /\ vida'["cpu"] # "fin" /\ vida'["kernel"] # "fin"
      /\ \A c \in Principales : cerrado'[c] = {} /\ roto'[c] = {}
  BY PrincipalesAbiertas DEF Sano, Termino
<1>2. \A m \in Modulos : /\ paso[m] \in Nat /\ paso'[m] \in Nat /\ paso'[m] >= paso[m]
  BY PasoCrece
<1>3. \A m \in Modulos :
         /\ vida[m] # "apagado" => vida'[m] # "apagado"
         /\ vida[m] = "apagado" /\ vida'[m] # "apagado" => Lanza(m)
         /\ vida'[m] \in {"apagado", "corre", "fin"}
         /\ vida[m] \in {"apagado", "corre", "fin"}
  BY VidaAvanza, PasoDeProgramas, <1>0 DEF TipoProgramas
<1>4. ASSUME NEW m \in Modulos, Lanza(m)
      PROVE  EnTurno(m)
  <2>1. (desorden' = (desorden \/ ~EnTurno(m)))
    BY <1>4 DEF Lanza
  <2>2. ~desorden'
    BY DEF Sano
  <2> QED
    BY <2>1, <2>2, Zenon
<1>5. /\ vida["memoria"] \in {"apagado", "corre"} /\ vida["cpu"] \in {"apagado", "corre"}
      /\ vida["kernel"] \in {"apagado", "corre"}
  BY <1>0, <1>3, ModulosEs DEF Vivos, Sano, Termino
<1>6. \A m \in {"memoria", "cpu", "kernel"} : EnFuncion(m) => vida'[m] = "corre"
  BY <1>1, <1>3, ModulosEs DEF EnFuncion
<1>7. vida'["cpu"] = "corre" => vida'["memoria"] = "corre" /\ paso'["memoria"] >= 2
  <2> SUFFICES ASSUME vida'["cpu"] = "corre"
               PROVE  EnFuncion("memoria") /\ paso["memoria"] >= 2
    BY <1>2, <1>6, ModulosEs
  <2>1. CASE vida["cpu"] = "corre"
    BY <2>1, <1>0 DEF Vivos, EnFuncion
  <2>2. CASE vida["cpu"] = "apagado"
    <3>1. EnTurno("cpu")
      BY <2>2, <1>3, <1>4, ModulosEs
    <3> QED
      BY <3>1, <1>0, EscuchasEs DEF EnTurno
  <2> QED
    BY <1>5, <2>1, <2>2
<1>8. vida'["kernel"] = "corre" => vida'["cpu"] = "corre" /\ paso'["cpu"] >= 7
  <2> SUFFICES ASSUME vida'["kernel"] = "corre"
               PROVE  EnFuncion("cpu") /\ paso["cpu"] >= 7
    BY <1>2, <1>6, ModulosEs
  <2>1. CASE vida["kernel"] = "corre"
    BY <2>1, <1>0 DEF Vivos, EnFuncion
  <2>2. CASE vida["kernel"] = "apagado"
    <3>1. EnTurno("kernel")
      BY <2>2, <1>3, <1>4, ModulosEs
    <3> QED
      BY <3>1, <1>0, EscuchasEs DEF EnTurno
  <2> QED
    BY <1>5, <2>1, <2>2
<1>9. ASSUME NEW i \in Interfaz, vida'[i] # "apagado"
      PROVE  vida'["kernel"] = "corre" /\ paso'["kernel"] >= 11
  <2> SUFFICES EnFuncion("kernel") /\ paso["kernel"] >= 11
    BY <1>2, <1>6, ModulosEs
  <2>1. CASE vida[i] # "apagado"
    BY <2>1, <1>0 DEF Vivos
  <2>2. CASE vida[i] = "apagado"
    <3>1. EnTurno(i)
      BY <1>9, <2>2, <1>3, <1>4, ModulosEs
    <3>2. i # "memoria" /\ i # "cpu" /\ i # "kernel"
      BY ModulosEs
    <3> QED
      BY <3>1, <3>2, <1>0, EscuchasEs DEF EnTurno
  <2> QED
    BY <2>1, <2>2
<1> QED
  BY <1>1, <1>7, <1>8, <1>9 DEF Vivos, Termino, EnFuncion, Abierta

LEMMA ColaDeMain ==
  ASSUME TipoColas, Colas, NEW m \in Modulos, ColasMain(m), NEW c \in Conexiones, EnCola(c)'
  PROVE  EnCola(c) \/ Toca(m, "connect", c)
<1>1. CASE pendientes' = pendientes
  BY <1>1 DEF EnCola
<1>2. ASSUME NEW d \in Conexiones, Toca(m, "connect", d), d[2] \in Puertos,
             pendientes' = [pendientes EXCEPT ![d[2]] = Append(@, d)]
      PROVE  EnCola(c) \/ Toca(m, "connect", c)
  <2>1. c[2] \in Puertos
    BY ConexionEs
  <2>2. PICK k \in 1 .. Len(pendientes'[c[2]]) : pendientes'[c[2]][k] = c
    BY DEF EnCola
  <2>3. CASE c[2] # d[2]
    <3>1. pendientes'[c[2]] = pendientes[c[2]]
      BY <1>2, <2>1, <2>3 DEF TipoColas
    <3> QED
      BY <2>2, <3>1 DEF EnCola
  <2>4. CASE c[2] = d[2]
    <3> DEFINE q == pendientes[c[2]]
    <3>1. q \in Seq(Conexiones)
      BY <2>1 DEF TipoColas
    <3>2. pendientes'[c[2]] = Append(q, d)
      BY <1>2, <2>1, <2>4 DEF TipoColas
    <3> HIDE DEF q
    <3>3. /\ Len(Append(q, d)) = Len(q) + 1 /\ Len(q) \in Nat
          /\ \A j \in 1 .. Len(q) : Append(q, d)[j] = q[j]
          /\ Append(q, d)[Len(q) + 1] = d
      BY <3>1
    <3>4. k \in 1 .. Len(q) \/ k = Len(q) + 1
      BY <2>2, <3>2, <3>3
    <3>5. (\E j \in 1 .. Len(q) : q[j] = c) \/ c = d
      BY <2>2, <3>2, <3>3, <3>4
    <3> QED
      BY <1>2, <3>5 DEF EnCola, q
  <2> QED
    BY <2>3, <2>4
<1>3. ASSUME NEW d \in Principales, pendientes[d[2]] # << >>,
             pendientes' = [pendientes EXCEPT ![d[2]] = Tail(@)]
      PROVE  EnCola(c)
  <2>1. d[2] \in Puertos
    BY ConexionEs, ConexionesEs
  <2> QED
    BY <1>3, <2>1, ColaQuita
<1> QED
  BY <1>1, <1>2, <1>3 DEF ColasMain

\* A main thread that gives up is of an interface, and it tells nobody.
LEMMA SeRindeCallado ==
  ASSUME TipoArranque, Cierres, Encadenados, Sano, Sano', [Next]_vars,
         NEW m \in Modulos, DeMain(m), SeRinde(m)
  PROVE  Callado
<1>0. /\ TipoProgramas /\ TipoCierres /\ TipoColas /\ Colas
  BY DEF TipoArranque
<1>1. vida'[m] = "fin" /\ UNCHANGED paso /\ vida[m] = "corre"
  BY <1>0, TerminaEs DEF SeRinde, DeMain, EnFuncion
<1>2. m \notin {"memoria", "cpu"}
  BY <1>1, PrincipalesAbiertas
<1>3. \A c : ~Toca(m, "espera", c) /\ ~Toca(m, "envia_tam", c)
  BY <1>0, <1>2, TocaEs DEF DeMain
<1>4. SinSaludos
  BY <1>3 DEF DeMain, EfectoMain, MensajesMain, SinSaludos
<1>5. ~Sigue(m)
  BY <1>1 DEF Sigue
<1>6. UNCHANGED pendientes
  BY <1>3, <1>5 DEF DeMain, EfectoMain, ColasMain
<1>7. \A c \in Conexiones : EnCola(c)' => EnCola(c)
  BY <1>6 DEF EnCola
<1> QED
  BY <1>1, <1>4, <1>7 DEF Callado

LEMMA PasoDeSaludos ==
  ASSUME TipoArranque, Cierres, Encadenados, Sano, Sano', [Next]_vars
  PROVE  Saludos'
<1>0. TipoProgramas /\ TipoCierres /\ TipoColas /\ Colas /\ Vivos /\ Saludos
  BY DEF TipoArranque, Encadenados
<1> DEFINE Llego(c, x) == x \in Contenido(buzon', c, "c")
           pm == paso["memoria"]
           pc == paso["cpu"]
           pk == paso["kernel"]
<1>1. \A m \in {"memoria", "cpu", "kernel"} :
         m \in Modulos /\ paso[m] \in Nat /\ paso'[m] \in Nat /\ paso'[m] >= paso[m]
  BY PasoCrece, ModulosEs
<1> DEFINE Meta ==
             /\ Llego(CpuMemoria, "tam") \/ paso'["cpu"] >= 5 => paso'["memoria"] >= 4
             /\ Llego(KernelMemoria, "0") \/ paso'["kernel"] >= 4 => paso'["memoria"] >= 5
             /\ Llego(KernelDispatch, "0") \/ paso'["kernel"] >= 7 => paso'["cpu"] >= 8
             /\ Llego(KernelInterrupt, "0") \/ paso'["kernel"] >= 10 => paso'["cpu"] >= 9
             /\ paso'["memoria"] >= 3 => paso'["cpu"] >= 2 /\ ~EnCola(CpuMemoria)'
<1>2. SUFFICES Meta
  BY DEF Saludos, Trae
<1>3. /\ CpuMemoria \in Principales /\ KernelMemoria \in Principales
      /\ KernelDispatch \in Principales /\ KernelInterrupt \in Principales
      /\ Principales \subseteq Conexiones
  BY ConexionesEs DEF Principales
<1>4. /\ CpuMemoria # KernelMemoria /\ KernelMemoria # KernelDispatch
      /\ KernelMemoria # KernelInterrupt /\ KernelDispatch # KernelInterrupt
      /\ CpuMemoria # KernelDispatch /\ CpuMemoria # KernelInterrupt
  BY DEF CpuMemoria, KernelMemoria, KernelDispatch, KernelInterrupt
<1>5. ASSUME Callado
      PROVE  Meta
  <2>1. UNCHANGED paso /\ (EnCola(CpuMemoria)' => EnCola(CpuMemoria))
    BY <1>3, <1>5 DEF Callado
  <2>2. \A c \in Principales, x \in {"0", "tam"} : Llego(c, x) => Trae(c, x)
    BY <1>5 DEF Callado, SinSaludos, Trae
  <2> HIDE DEF Llego
  <2> QED
    BY <2>1, <2>2, <1>0, <1>3 DEF Saludos
<1>6. ASSUME NEW m \in Modulos, DeMain(m), Sigue(m), Avanza(m)
      PROVE  Meta
  <2>1. /\ paso[m] \in 1 .. Len(Guion(m)) /\ vida'[m] = "corre"
        /\ MensajesMain(m) /\ ColasMain(m)
        /\ paso'[m] = paso[m] + 1 /\ \A n \in Modulos : n # m => paso'[n] = paso[n]
    BY <1>0, <1>6 DEF DeMain, EfectoMain, Sigue, EnFuncion, TipoProgramas
  <2>2. ~SeRinde(m)
    <3>1. SeRinde(m) => vida'[m] = "fin"
      BY <1>0, TerminaEs DEF SeRinde
    <3> QED
      BY <2>1, <3>1
  <2>3. \A c \in Principales, x \in {"0", "tam"} :
           Llego(c, x) => \/ Trae(c, x)
                          \/ x = "0" /\ Toca(m, "espera", c)
                          \/ x = "tam" /\ m = "memoria" /\ paso[m] = 3
    BY <1>0, <2>1, <2>2, TocaEs DEF MensajesMain, Trae
  <2>4. \A c : Toca(m, "espera", c) =>
               \/ m = "memoria" /\ paso[m] = 2 /\ c = CpuMemoria
               \/ m = "memoria" /\ paso[m] = 4 /\ c = KernelMemoria
               \/ m = "cpu" /\ paso[m] = 7 /\ c = KernelDispatch
               \/ m = "cpu" /\ paso[m] = 8 /\ c = KernelInterrupt
    BY <1>0, <2>1, TocaEs
  <2>5. \A c \in Principales : Abierta(c)
    BY <1>0 DEF Vivos
  <2>6. \A n \in Modulos : paso'[n] = paso[n] \/ (n = m /\ paso'[n] = paso[n] + 1)
    BY <2>1
  <2> HIDE DEF Llego
  <2>7. Llego(CpuMemoria, "tam") \/ paso'["cpu"] >= 5 => paso'["memoria"] >= 4
    <3>1. CASE Llego(CpuMemoria, "tam")
      <4>1. Trae(CpuMemoria, "tam") \/ (m = "memoria" /\ paso[m] = 3)
        BY <1>3, <2>3, <3>1
      <4> QED
        BY <4>1, <1>0, <1>1, <2>1 DEF Saludos
    <3>2. CASE paso'["cpu"] >= 5
      <4>1. paso["cpu"] >= 5 \/ (m = "cpu" /\ paso["cpu"] = 4)
        BY <1>1, <2>6, <3>2
      <4>2. m = "cpu" /\ paso["cpu"] = 4 => Trae(CpuMemoria, "tam")
        BY <1>3, <1>6, GuionCpuEs DEF Avanza, Toca
      <4> QED
        BY <4>1, <4>2, <1>0, <1>1 DEF Saludos
    <3> QED
      BY <3>1, <3>2
  <2>8. Llego(KernelMemoria, "0") \/ paso'["kernel"] >= 4 => paso'["memoria"] >= 5
    <3>1. CASE Llego(KernelMemoria, "0")
      <4>1. Trae(KernelMemoria, "0") \/ (m = "memoria" /\ paso[m] = 4)
        BY <1>3, <1>4, <2>3, <2>4, <3>1
      <4> QED
        BY <4>1, <1>0, <1>1, <2>1 DEF Saludos
    <3>2. CASE paso'["kernel"] >= 4
      <4>1. paso["kernel"] >= 4 \/ (m = "kernel" /\ paso["kernel"] = 3)
        BY <1>1, <2>6, <3>2
      <4>2. m = "kernel" /\ paso["kernel"] = 3 => Trae(KernelMemoria, "0")
        BY <1>3, <1>6, <2>5, GuionKernelEs DEF Avanza, Toca
      <4> QED
        BY <4>1, <4>2, <1>0, <1>1 DEF Saludos
    <3> QED
      BY <3>1, <3>2
  <2>9. Llego(KernelDispatch, "0") \/ paso'["kernel"] >= 7 => paso'["cpu"] >= 8
    <3>1. CASE Llego(KernelDispatch, "0")
      <4>1. Trae(KernelDispatch, "0") \/ (m = "cpu" /\ paso[m] = 7)
        BY <1>3, <1>4, <2>3, <2>4, <3>1
      <4> QED
        BY <4>1, <1>0, <1>1, <2>1 DEF Saludos
    <3>2. CASE paso'["kernel"] >= 7
      <4>1. paso["kernel"] >= 7 \/ (m = "kernel" /\ paso["kernel"] = 6)
        BY <1>1, <2>6, <3>2
      <4>2. m = "kernel" /\ paso["kernel"] = 6 => Trae(KernelDispatch, "0")
        BY <1>3, <1>6, <2>5, GuionKernelEs DEF Avanza, Toca
      <4> QED
        BY <4>1, <4>2, <1>0, <1>1 DEF Saludos
    <3> QED
      BY <3>1, <3>2
  <2>10. Llego(KernelInterrupt, "0") \/ paso'["kernel"] >= 10 => paso'["cpu"] >= 9
    <3>1. CASE Llego(KernelInterrupt, "0")
      <4>1. Trae(KernelInterrupt, "0") \/ (m = "cpu" /\ paso[m] = 8)
        BY <1>3, <1>4, <2>3, <2>4, <3>1
      <4> QED
        BY <4>1, <1>0, <1>1, <2>1 DEF Saludos
    <3>2. CASE paso'["kernel"] >= 10
      <4>1. paso["kernel"] >= 10 \/ (m = "kernel" /\ paso["kernel"] = 9)
        BY <1>1, <2>6, <3>2
      <4>2. m = "kernel" /\ paso["kernel"] = 9 => Trae(KernelInterrupt, "0")
        BY <1>3, <1>6, <2>5, GuionKernelEs DEF Avanza, Toca
      <4> QED
        BY <4>1, <4>2, <1>0, <1>1 DEF Saludos
    <3> QED
      BY <3>1, <3>2
  <2>11. paso'["memoria"] >= 3 => paso'["cpu"] >= 2 /\ ~EnCola(CpuMemoria)'
    <3>1. CASE paso["memoria"] >= 3
      <4>1. paso["cpu"] >= 2 /\ ~EnCola(CpuMemoria)
        BY <3>1, <1>0 DEF Saludos
      <4>2. ~Toca(m, "connect", CpuMemoria)
        <5>1. ASSUME Toca(m, "connect", CpuMemoria)
              PROVE  FALSE
          <6>1. m = "cpu"
            <7>1. \E v \in {"connect"} : Guion(m)[paso[m]] = << v, CpuMemoria >>
              BY <5>1 DEF Toca
            <7>2. PasoValido(m, paso[m])
              BY <1>0, <2>1, PasoEs, TiposEs
            <7>3. Guion(m)[paso[m]][1] = "connect" /\ Guion(m)[paso[m]][2] = CpuMemoria
              BY <5>1 DEF Toca
            <7>4. PICK c \in Conexiones : Guion(m)[paso[m]][2] = c /\ Cliente(c) = m
              BY <7>2, <7>3 DEF PasoValido
            <7> QED
              BY <7>3, <7>4 DEF Cliente, CpuMemoria
          <6>2. paso[m] \in 1 .. 8
            BY <6>1, <2>1, GuionCpuEs
          <6>3. paso[m] \in {1, 2, 3, 4, 5, 6, 7, 8}
            BY <6>2
          <6>4. Guion(m)[paso[m]][1] = "connect"
            BY <5>1 DEF Toca
          <6>5. paso[m] = 1
            BY <6>1, <6>3, <6>4, GuionCpuEs
          <6> QED
            BY <4>1, <6>1, <6>5
        <5> QED
          BY <5>1
      <4>3. ~EnCola(CpuMemoria)'
        BY <1>0, <1>3, <2>1, <4>1, <4>2, ColaDeMain
      <4> QED
        BY <4>1, <4>3, <1>1
    <3>2. CASE m = "memoria" /\ paso["memoria"] = 2
      <4> DEFINE q == pendientes["memoria"]
      <4>1. Toca(m, "espera", CpuMemoria) /\ CpuMemoria[2] = "memoria" /\ "memoria" \in Puertos
        BY <3>2, GuionMemoriaEs DEF Toca, CpuMemoria, Puertos
      <4>2. /\ q # << >> /\ Head(q) = CpuMemoria
            /\ pendientes' = [pendientes EXCEPT !["memoria"] = Tail(@)]
        BY <1>3, <1>6, <4>1 DEF Avanza
      <4>3. ~EnCola(CpuMemoria)'
        BY <1>0, <1>3, <4>1, <4>2, ColaQuita
      <4>4. q \in Seq(Conexiones) /\ Distintos(q)
        BY <1>0, <4>1 DEF TipoColas, Colas, Distintos
      <4>5. Esta(q, CpuMemoria)
        BY <4>2, <4>4, ColaSaca
      <4>6. EnCola(CpuMemoria)
        BY <4>1, <4>5, ColasSon
      <4>7. Conectado(CpuMemoria)
        BY <1>0, <1>3, <4>6 DEF Colas
      <4>8. paso["cpu"] >= 2
        BY <1>0, <1>3, <4>7, ConectadoEs DEF Cliente, CpuMemoria
      <4> QED
        BY <4>3, <4>8, <1>1
    <3> QED
      BY <1>1, <2>6, <3>1, <3>2
  <2> QED
    BY <2>7, <2>8, <2>9, <2>10, <2>11
<1>7. ASSUME NEW m \in Modulos, DeMain(m)
      PROVE  Meta
  BY <1>5, <1>6, <1>7, SeRindeCallado DEF DeMain, EfectoMain
<1> QED
  BY <1>5, <1>7, PasoEsDeMain

LEMMA PasoDeEncadenados ==
  ASSUME TipoArranque, Cierres, Encadenados, [Next]_vars
  PROVE  Encadenados'
<1>1. ASSUME Sano'
      PROVE  Vivos' /\ Saludos'
  BY <1>1, SanoAntes, PasoDeVivos, PasoDeSaludos
<1> QED
  BY <1>1 DEF Encadenados

-----------------------------------------------------------------------------
(* Whose the descriptors are.                                               *)

\* What a step does to the threads and the descriptors of the kernel.
SinTablas ==
    /\ UNCHANGED << fd, tabla >>
    /\ \A i \in Interfaz : hilo'[IOKernel(i)] = hilo[IOKernel(i)]
EfectoProgramas ==
    \/ UNCHANGED << vida, cerrado >>
    \/ \E m \in Modulos : Enciende(m)
    \/ \E m \in Modulos : EnFuncion(m) /\ Termina(m)
    \/ UNCHANGED vida /\ Cierra(KernelMemoria, "c")
DeHilo(c) == /\ hilo[c] # "ninguno" /\ EfectoHilo(c) /\ EfectoTabla(c)
             /\ UNCHANGED << paso, fd, historia >>

LEMMA CasosDeTabla ==
  ASSUME TipoArranque, [Next]_vars
  PROVE  \/ SinTablas /\ EfectoProgramas
         \/ \E i \in Interfaz, n \in Fds :
               Aceptada(i, n) /\ UNCHANGED << vida, cerrado >> /\ EnFuncion("kernel")
         \/ \E c \in DeInterfaz : DeHilo(c)
<1>0. /\ TipoProgramas /\ TipoCierres /\ TipoBuzon /\ TipoColas /\ TipoHilos /\ TipoTrabajo
      /\ Descriptores /\ Colas
  BY DEF TipoArranque
<1>1. UNCHANGED << hilo, fdVars >> => SinTablas
  BY DEF SinTablas, fdVars
<1>2. CASE UNCHANGED vars
  BY <1>1, <1>2 DEF vars, redVars, EfectoProgramas
<1>3. ASSUME NEW m \in Modulos, Lanza(m)
      PROVE  SinTablas /\ EfectoProgramas
  <2>1. UNCHANGED << hilo, fdVars >> /\ Enciende(m)
    BY <1>3 DEF Lanza, Enciende, redVars
  <2> QED
    BY <2>1, <1>1 DEF EfectoProgramas
<1>4. ASSUME NEW m \in Modulos, Mata(m)
      PROVE  SinTablas /\ EfectoProgramas
  BY <1>1, <1>4 DEF Mata, EfectoProgramas
<1>5. ASSUME NEW m \in Modulos, Main(m)
      PROVE  SinTablas /\ EfectoProgramas
  <2>1. EfectoMain(m) /\ EnFuncion(m)
    BY <1>0, <1>5, MainEs, MainToca
  <2> QED
    BY <2>1, <1>1 DEF EfectoMain, SoloMain, Sigue, SeRinde, EfectoProgramas
<1>6. ASSUME AceptaMemoria
      PROVE  SinTablas /\ EfectoProgramas
  <2> DEFINE h == Head(pendientes["memoria"])
  <2>1. /\ pendientes["memoria"] # << >> /\ hilo' = [hilo EXCEPT ![h] = "saludo"]
        /\ UNCHANGED << vida, cerrado, fd, tabla >> /\ "memoria" \in Puertos
    BY <1>6 DEF AceptaMemoria, Sigan, fdVars, Puertos
  <2>2. pendientes["memoria"] \in Seq(Conexiones) /\ Distintos(pendientes["memoria"])
    BY <1>0, <2>1 DEF TipoColas, Colas, Distintos
  <2>3. Esta(pendientes["memoria"], h)
    BY <2>1, <2>2, ColaSaca
  <2>4. h[2] = "memoria"
    BY <1>0, <2>1, <2>3 DEF Esta, TipoColas
  <2> HIDE DEF h
  <2>5. \A i \in Interfaz : IOKernel(i) \in DeInterfaz /\ IOKernel(i) # h
    <3>1. \A i \in Interfaz : IOKernel(i)[2] = "kernel"
      BY DEF IOKernel
    <3> QED
      BY <2>4, <3>1, ConexionesEs
  <2> QED
    BY <1>0, <2>1, <2>5 DEF SinTablas, EfectoProgramas, TipoHilos
<1>7. ASSUME AceptaKernel
      PROVE  \E i \in Interfaz, n \in Fds :
                Aceptada(i, n) /\ UNCHANGED << vida, cerrado >> /\ EnFuncion("kernel")
  <2>1. UNCHANGED << vida, cerrado >> /\ EnFuncion("kernel")
    BY <1>7 DEF AceptaKernel, Sigan, Listo
  <2> QED
    BY <1>0, <1>7, <2>1, AceptaKernelEs
<1>8. ASSUME NEW c \in DeInterfaz, Hilo(c)
      PROVE  DeHilo(c)
  BY <1>0, <1>8, HiloEs DEF DeHilo
<1>9. ASSUME EnObra
      PROVE  SinTablas /\ EfectoProgramas
  <2>1. EfectoCaida /\ UNCHANGED << hilo, fdVars >>
    BY <1>0, <1>9, ObraEs
  <2> QED
    BY <2>1, <1>1 DEF EfectoCaida, EfectoProgramas
<1> QED
  BY <1>2, <1>3, <1>4, <1>5, <1>6, <1>7, <1>8, <1>9, NextEs DEF NextCasos

LEMMA PasoDeSinCaidas ==
  ASSUME TipoArranque, Cierres, Encadenados, SinCaidas, [Next]_vars
  PROVE  SinCaidas'
<1> SUFFICES ASSUME EnOrden'
             PROVE  /\ \A m \in Modulos : vida'[m] # "fin"
                    /\ \A c \in Conexiones : cerrado'[c] = {} /\ roto'[c] = {}
                    /\ \A i \in Interfaz :
                          /\ hilo'[IOKernel(i)] \in {"ninguno"} \cup Vivas
                          /\ hilo'[IOKernel(i)] # "ninguno" => tabla'[fd'[i]] = IOKernel(i)
  BY DEF SinCaidas, Termino, Abierta, Vivas
<1>0. /\ TipoProgramas /\ TipoCierres /\ TipoHilos /\ Descriptores
  BY DEF TipoArranque
<1>1. EnOrden /\ matados' = {} /\ fallados' = {}
  BY SanoAntes DEF EnOrden
<1>2. /\ \A m \in Modulos : vida[m] # "fin"
      /\ \A c \in Conexiones : cerrado[c] = {} /\ roto[c] = {} /\ Abierta(c)
      /\ \A i \in Interfaz :
            /\ hilo[IOKernel(i)] \in {"ninguno"} \cup Vivas
            /\ hilo[IOKernel(i)] # "ninguno" => tabla[fd[i]] = IOKernel(i)
  BY <1>1 DEF SinCaidas, Termino, Abierta, Vivas
<1>3. Sano
  BY <1>1, <1>2, ModulosEs DEF Sano, EnOrden, Termino
<1>4. ASSUME NEW m \in Modulos, Motivo(m)
      PROVE  FALSE
  BY <1>2, <1>4, ConexionesEs DEF Motivo
<1>5. ASSUME NEW c \in DeInterfaz, hilo[c] # "ninguno"
      PROVE  ~SinMas(c) /\ hilo[c] \notin {"cierra", "libera"}
  <2>1. Real(c) = c /\ c # Libre /\ hilo[c] \notin {"cierra", "libera"} /\ c \in Conexiones
    <3>1. c \in Conexiones
      BY ConexionesEs
    <3>2. CASE c[2] = "kernel"
      <4>1. PICK i \in Interfaz : c = IOKernel(i)
        BY <3>1, <3>2, ConexionEs DEF AlKernel
      <4>2. Cliente(c) = i /\ c # Libre
        BY <4>1 DEF IOKernel, Cliente, Libre
      <4>3. tabla[fd[i]] = c /\ hilo[c] \in {"ninguno"} \cup Vivas
        BY <4>1, <1>2, <1>5
      <4> QED
        BY <3>1, <3>2, <4>2, <4>3 DEF Real, Vivas
    <3>3. CASE c[2] # "kernel"
      <4>1. Real(c) = c /\ c \in ALaMemoria /\ hilo[c] \in {"saludo", "sirve", "fin"}
        BY <1>0, <1>5, <3>3, RealEs
      <4>2. PICK i \in Interfaz : c = IOMemoria(i)
        BY <4>1 DEF ALaMemoria
      <4>3. c # Libre
        BY <4>2 DEF IOMemoria, Libre
      <4> QED
        BY <3>1, <4>1, <4>3
    <3> QED
      BY <3>2, <3>3
  <2>2. ~Agotada(c, "s")
    BY <1>2, <2>1, CortadaEs, LadosEs
  <2> QED
    BY <2>1, <2>2 DEF SinMas
<1>6. ASSUME NEW c \in DeInterfaz, hilo[c] # "ninguno", EfectoHilo(c)
      PROVE  UNCHANGED << vida, cerrado >>
  <2>1. ~SinMas(c) /\ hilo[c] # "cierra"
    BY <1>5, <1>6
  <2>2. Abierta(KernelMemoria)
    BY <1>2, ConexionesEs
  <2> QED
    BY <1>6, <2>1, <2>2 DEF EfectoHilo
<1>7. EfectoCaida => UNCHANGED << vida, cerrado >>
  BY <1>1, <1>2, <1>4, ConexionesEs DEF EfectoCaida
<1>8. /\ \A m \in Modulos : vida'[m] # "fin"
      /\ cerrado' = cerrado
  <2>1. UNCHANGED << vida, cerrado >> \/ \E m \in Modulos : Enciende(m)
    BY <1>1, <1>3, <1>4, <1>6, <1>7, CausaDeUnPaso DEF CausaDeCaida
  <2> QED
    BY <1>0, <1>2, <2>1 DEF Enciende, TipoProgramas
<1>9. EfectoRoto /\ roto' \in [Conexiones -> SUBSET Lados]
  BY PasoDeProgramas DEF TipoCierres
<1>10. \A c \in Conexiones : cerrado'[c] = {} /\ roto'[c] = {}
  <2> SUFFICES ASSUME NEW c \in Conexiones, NEW l \in roto'[c]
               PROVE  FALSE
    BY <1>2, <1>8
  <2> QED
    BY <1>2, <1>9 DEF EfectoRoto
<1> DEFINE Meta == \A i \in Interfaz :
                     /\ hilo'[IOKernel(i)] \in {"ninguno"} \cup Vivas
                     /\ hilo'[IOKernel(i)] # "ninguno" => tabla'[fd'[i]] = IOKernel(i)
<1>11. ASSUME SinTablas
       PROVE  Meta
  BY <1>2, <1>11 DEF SinTablas
<1>12. ASSUME NEW i \in Interfaz, NEW n \in Fds, Aceptada(i, n)
       PROVE  Meta
  <2>1. /\ hilo[IOKernel(i)] = "ninguno" /\ tabla[n] = Libre
        /\ hilo' = [hilo EXCEPT ![IOKernel(i)] = "saludo"]
        /\ fd' = [fd EXCEPT ![i] = n]
        /\ tabla' = [tabla EXCEPT ![n] = IOKernel(i)]
    BY <1>12 DEF Aceptada
  <2>2. \A j \in Interfaz : /\ IOKernel(j) \in DeInterfaz /\ IOKernel(j) # Libre
                            /\ IOKernel(j) = IOKernel(i) => j = i
    BY ConexionesEs DEF IOKernel, Libre
  <2>3. hilo'[IOKernel(i)] = "saludo" /\ fd'[i] = n /\ tabla'[n] = IOKernel(i)
    BY <1>0, <2>1, <2>2 DEF TipoHilos
  <2>4. ASSUME NEW j \in Interfaz, j # i
        PROVE  /\ hilo'[IOKernel(j)] \in {"ninguno"} \cup Vivas
               /\ hilo'[IOKernel(j)] # "ninguno" => tabla'[fd'[j]] = IOKernel(j)
    <3>1. hilo'[IOKernel(j)] = hilo[IOKernel(j)] /\ fd'[j] = fd[j]
      BY <1>0, <2>1, <2>2, <2>4 DEF TipoHilos
    <3>2. hilo[IOKernel(j)] # "ninguno" => fd[j] # n /\ fd[j] \in Fds
      BY <1>0, <1>2, <2>1, <2>2 DEF Descriptores
    <3>3. \A x \in Fds : x # n => tabla'[x] = tabla[x]
      BY <1>0, <2>1 DEF TipoHilos
    <3> QED
      BY <1>2, <3>1, <3>2, <3>3
  <2> QED
    BY <2>3, <2>4 DEF Vivas
<1>13. ASSUME NEW c \in DeInterfaz, DeHilo(c)
       PROVE  Meta
  <2>1. /\ fd' = fd /\ EfectoTabla(c) /\ hilo[c] # "ninguno"
        /\ ~SinMas(c) /\ hilo[c] \notin {"cierra", "libera"}
    BY <1>5, <1>13 DEF DeHilo
  <2>2. /\ tabla' = tabla
        /\ \/ UNCHANGED hilo
           \/ c[2] = "memoria" /\ \E e \in Hilos : Pasa(c, e)
           \/ c[2] = "kernel" /\ \E e \in Vivas : Pasa(c, e)
    BY <2>1 DEF EfectoTabla, Hilos
  <2>3. \A i \in Interfaz : IOKernel(i) \in DeInterfaz /\ IOKernel(i)[2] = "kernel"
    BY ConexionesEs DEF IOKernel
  <2>4. \A i \in Interfaz :
           \/ hilo'[IOKernel(i)] = hilo[IOKernel(i)]
           \/ c = IOKernel(i) /\ hilo'[IOKernel(i)] \in Vivas
    BY <1>0, <2>2, <2>3 DEF Pasa, TipoHilos
  <2> QED
    BY <1>2, <2>1, <2>2, <2>4
<1>14. Meta
  BY <1>11, <1>12, <1>13, CasosDeTabla
<1> QED
  BY <1>8, <1>10, <1>14

LEMMA IOKernelEs ==
  /\ \A i \in Interfaz :
        /\ IOKernel(i) \in DeInterfaz /\ IOKernel(i) \in Conexiones
        /\ IOKernel(i) # Libre /\ IOKernel(i) # KernelMemoria
        /\ IOKernel(i)[2] = "kernel" /\ Cliente(IOKernel(i)) = i
        /\ Programa(IOKernel(i), "s") = "kernel" /\ Programa(IOKernel(i), "c") = i
  /\ \A i, j \in Interfaz : IOKernel(i) = IOKernel(j) => i = j
<1>1. \A i \in Interfaz : /\ IOKernel(i)[2] = "kernel" /\ Cliente(IOKernel(i)) = i
                          /\ IOKernel(i) # Libre
  BY DEF IOKernel, Cliente, Libre
<1>2. \A i \in Interfaz : /\ Programa(IOKernel(i), "s") = "kernel"
                          /\ Programa(IOKernel(i), "c") = i
  BY <1>1 DEF Programa, Servidor
<1>3. \A i, j \in Interfaz : IOKernel(i) = IOKernel(j) => i = j
  BY <1>1
<1>4. KernelMemoria[2] = "memoria"
  BY DEF KernelMemoria
<1>5. \A i \in Interfaz : IOKernel(i) \in DeInterfaz /\ IOKernel(i) \in Conexiones
  BY ConexionesEs
<1> QED
  BY <1>1, <1>2, <1>3, <1>4, <1>5

\* The thread of a connection of i: only the kernel closes its end there, and
\* what there is to read ends only when the interface did.
LEMMA SoloSiTermino ==
  ASSUME Cierres, NEW i \in Interfaz, "s" \notin cerrado[IOKernel(i)],
         Agotada(IOKernel(i), "s")
  PROVE  Termino(i)
<1>1. "c" \in cerrado[IOKernel(i)]
  BY LadosEs DEF Agotada
<1> QED
  BY <1>1, IOKernelEs, LadosEs DEF Cierres

LEMMA PasoDeDuenos ==
  ASSUME TipoArranque, Cierres, Duenos, [Next]_vars
  PROVE  Duenos'
<1> DEFINE D1 == \A i \in Interfaz, n \in Fds :
                   tabla'[n] = IOKernel(i) => "s" \notin cerrado'[IOKernel(i)]
           D2 == \A i \in Interfaz :
                   hilo'[IOKernel(i)] = "ninguno" => "s" \notin cerrado'[IOKernel(i)]
           D3 == \A i \in Interfaz :
                   /\ vida'[i] = "corre" /\ hilo'[IOKernel(i)] \in Vivas
                   /\ tabla'[fd'[i]] # IOKernel(i)
                   => \E j \in Interfaz \ {i} : fd'[j] = fd'[i] /\ hilo'[IOKernel(j)] = "fin"
           Meta == D1 /\ D2 /\ D3
<1> SUFFICES ASSUME vida'["kernel"] # "fin"
             PROVE  Meta
  BY DEF Duenos, Termino, EnFuncion, Vivas
<1>0. /\ TipoProgramas /\ TipoCierres /\ TipoHilos /\ Descriptores /\ Colas /\ SinVuelta
  BY PasoDeCierres DEF TipoArranque
<1>1. ~Termino("kernel")
  BY <1>0, ModulosEs DEF SinVuelta
<1>2. /\ \A i \in Interfaz, n \in Fds : tabla[n] = IOKernel(i) => "s" \notin cerrado[IOKernel(i)]
      /\ \A i \in Interfaz :
            hilo[IOKernel(i)] = "ninguno" => "s" \notin cerrado[IOKernel(i)]
      /\ \A i \in Interfaz :
            /\ vida[i] = "corre" /\ hilo[IOKernel(i)] \in Vivas
            /\ tabla[fd[i]] # IOKernel(i)
            => \E j \in Interfaz \ {i} : fd[j] = fd[i] /\ hilo[IOKernel(j)] = "fin"
  BY <1>1 DEF Duenos, EnFuncion, Vivas
<1>3. ASSUME NEW i \in Interfaz, vida'[i] = "corre", hilo[IOKernel(i)] # "ninguno"
      PROVE  vida[i] = "corre"
  <2>1. Conectado(IOKernel(i))
    BY <1>0, <1>3, IOKernelEs DEF Colas
  <2>2. vida[i] # "apagado"
    BY <1>0, <2>1, IOKernelEs, ConectadoEs
  <2>3. vida[i] # "fin"
    BY <1>0, <1>3, ModulosEs DEF SinVuelta, Termino
  <2> QED
    BY <1>0, <2>2, <2>3, ModulosEs DEF TipoProgramas
<1>4. ~Termina("kernel")
  BY <1>0, TerminaEs, ModulosEs
<1>5. ASSUME EfectoProgramas
      PROVE  \A i \in Interfaz : "s" \in cerrado'[IOKernel(i)] => "s" \in cerrado[IOKernel(i)]
  <2>1. ASSUME NEW m \in Modulos, Termina(m), NEW i \in Interfaz
        PROVE  "s" \in cerrado'[IOKernel(i)] => "s" \in cerrado[IOKernel(i)]
    <3>1. m # "kernel"
      BY <1>4, <2>1
    <3>2. "s" \in cerrado'[IOKernel(i)] =>
             "s" \in cerrado[IOKernel(i)] \/ Programa(IOKernel(i), "s") = m
      BY <1>0, <2>1, TerminaEs, IOKernelEs, LadosEs
    <3> QED
      BY <3>1, <3>2, IOKernelEs
  <2>2. ASSUME Cierra(KernelMemoria, "c"), NEW i \in Interfaz
        PROVE  cerrado'[IOKernel(i)] = cerrado[IOKernel(i)]
    BY <1>0, <2>2, CierraEs, IOKernelEs, ConexionesEs, LadosEs
  <2> QED
    BY <1>5, <2>1, <2>2 DEF EfectoProgramas, Enciende
<1>6. ASSUME SinTablas,
             \A i \in Interfaz : "s" \in cerrado'[IOKernel(i)] => "s" \in cerrado[IOKernel(i)]
      PROVE  Meta
  <2>1. D1 /\ D2
    BY <1>2, <1>6 DEF SinTablas
  <2>2. D3
    <3> SUFFICES ASSUME NEW i \in Interfaz, vida'[i] = "corre", hilo'[IOKernel(i)] \in Vivas,
                        tabla'[fd'[i]] # IOKernel(i)
                 PROVE  \E j \in Interfaz \ {i} :
                           fd'[j] = fd'[i] /\ hilo'[IOKernel(j)] = "fin"
      OBVIOUS
    <3>1. hilo[IOKernel(i)] \in Vivas /\ tabla[fd[i]] # IOKernel(i)
      BY <1>6 DEF SinTablas
    <3>2. vida[i] = "corre"
      BY <1>3, <3>1 DEF Vivas
    <3>3. PICK j \in Interfaz \ {i} : fd[j] = fd[i] /\ hilo[IOKernel(j)] = "fin"
      BY <1>2, <3>1, <3>2
    <3> QED
      BY <1>6, <3>3 DEF SinTablas
  <2> QED
    BY <2>1, <2>2
<1>7. ASSUME NEW i \in Interfaz, NEW n \in Fds, Aceptada(i, n), UNCHANGED << vida, cerrado >>
      PROVE  Meta
  <2>1. /\ hilo[IOKernel(i)] = "ninguno" /\ tabla[n] = Libre
        /\ hilo' = [hilo EXCEPT ![IOKernel(i)] = "saludo"]
        /\ fd' = [fd EXCEPT ![i] = n]
        /\ tabla' = [tabla EXCEPT ![n] = IOKernel(i)]
    BY <1>7 DEF Aceptada
  <2>2. /\ hilo'[IOKernel(i)] = "saludo" /\ fd'[i] = n /\ tabla'[n] = IOKernel(i)
        /\ \A x \in Fds : x # n => tabla'[x] = tabla[x]
        /\ \A j \in Interfaz : j # i => fd'[j] = fd[j] /\ hilo'[IOKernel(j)] = hilo[IOKernel(j)]
    BY <1>0, <2>1, IOKernelEs DEF TipoHilos
  <2>3. "s" \notin cerrado[IOKernel(i)]
    BY <1>2, <2>1
  <2>4. D1
    BY <1>2, <1>7, <2>2, <2>3, IOKernelEs
  <2>5. D2
    BY <1>2, <1>7, <2>2, <2>3
  <2>6. D3
    <3> SUFFICES ASSUME NEW j \in Interfaz, vida'[j] = "corre", hilo'[IOKernel(j)] \in Vivas,
                        tabla'[fd'[j]] # IOKernel(j)
                 PROVE  \E w \in Interfaz \ {j} :
                           fd'[w] = fd'[j] /\ hilo'[IOKernel(w)] = "fin"
      OBVIOUS
    <3>1. j # i
      BY <2>2
    <3>2. vida[j] = "corre" /\ hilo[IOKernel(j)] \in Vivas /\ fd'[j] = fd[j]
      BY <1>7, <2>2, <3>1
    <3>3. fd[j] \in Fds
      BY <1>0, <3>2 DEF Descriptores, Vivas
    <3>4. tabla[fd[j]] # IOKernel(j)
      BY <2>1, <2>2, <3>2, <3>3, IOKernelEs
    <3>5. PICK w \in Interfaz \ {j} : fd[w] = fd[j] /\ hilo[IOKernel(w)] = "fin"
      BY <1>2, <3>2, <3>4
    <3>6. w # i
      BY <2>1, <3>5
    <3> QED
      BY <2>2, <3>2, <3>5, <3>6
  <2> QED
    BY <2>4, <2>5, <2>6
<1>8. ASSUME NEW c \in DeInterfaz, DeHilo(c), c[2] # "kernel"
      PROVE  Meta
  <2>1. /\ fd' = fd /\ EfectoTabla(c) /\ hilo[c] # "ninguno" /\ EfectoHilo(c)
    BY <1>8 DEF DeHilo
  <2>2. /\ c \in ALaMemoria /\ c[2] = "memoria" /\ Real(c) = c
    BY <1>0, <1>8, <2>1, RealEs
  <2>3. /\ tabla' = tabla
        /\ UNCHANGED hilo \/ \E e \in Hilos : Pasa(c, e)
    BY <1>8, <2>1 DEF EfectoTabla, Hilos
  <2>4. \A i \in Interfaz : IOKernel(i) # c
    BY <1>8, IOKernelEs
  <2>5. SinTablas
    BY <1>0, <2>1, <2>3, <2>4, IOKernelEs DEF SinTablas, Pasa, TipoHilos
  <2>6. UNCHANGED cerrado \/ Cierra(c, "s")
    BY <1>4, <2>1, <2>2 DEF EfectoHilo
  <2>7. \A i \in Interfaz : cerrado'[IOKernel(i)] = cerrado[IOKernel(i)]
    BY <1>0, <2>4, <2>6, CierraEs, IOKernelEs, ConexionesEs, LadosEs
  <2> QED
    BY <1>6, <2>5, <2>7
<1>9. ASSUME NEW j \in Interfaz, DeHilo(IOKernel(j))
      PROVE  Meta
  <2> DEFINE c == IOKernel(j)
             r == tabla[fd[j]]
  <2>1. /\ fd' = fd /\ EfectoTabla(c) /\ hilo[c] # "ninguno" /\ EfectoHilo(c)
        /\ c \in DeInterfaz /\ c[2] = "kernel" /\ Cliente(c) = j
    BY <1>9, IOKernelEs DEF DeHilo
  <2>2. /\ fd[j] \in Fds /\ Real(c) = r /\ r \in AlKernel \cup {Libre}
    <3> HIDE DEF c
    <3> QED
      BY <1>0, <2>1, RealEs
  <2>3. \/ UNCHANGED << vida, cerrado >>
        \/ /\ UNCHANGED vida /\ r # Libre /\ Cierra(r, "s")
           /\ tabla' = [tabla EXCEPT ![fd[j]] = Libre]
    <3> HIDE DEF c, r
    <3> QED
      BY <1>4, <2>1, <2>2 DEF EfectoHilo
  <2>4. \/ UNCHANGED << hilo, tabla >>
        \/ UNCHANGED tabla /\ hilo[c] \in Vivas /\ \E e \in Vivas : Pasa(c, e)
        \/ UNCHANGED tabla /\ hilo[c] = "libera" /\ Pasa(c, "cierra")
        \/ /\ tabla' = [tabla EXCEPT ![fd[j]] = Libre]
           /\ \/ hilo[c] = "cierra" /\ Pasa(c, "fin")
              \/ hilo[c] \in {"saludo", "resultado"} /\ SinMas(c)
                 /\ \E e \in {"fin", "libera"} : Pasa(c, e)
    <3> HIDE DEF c
    <3> QED
      BY <2>1 DEF EfectoTabla
  <2>5. /\ tabla' = tabla \/ tabla' = [tabla EXCEPT ![fd[j]] = Libre]
        /\ tabla'[fd[j]] # Libre => tabla' = tabla
        /\ \A x \in Fds : x # fd[j] => tabla'[x] = tabla[x]
    <3>1. tabla' = tabla \/ tabla' = [tabla EXCEPT ![fd[j]] = Libre]
      BY <2>4
    <3> QED
      BY <1>0, <2>2, <3>1 DEF TipoHilos
  <2>6. /\ \A i \in Interfaz : i # j => hilo'[IOKernel(i)] = hilo[IOKernel(i)]
        /\ hilo'[c] # "ninguno"
        /\ hilo'[c] \in Vivas => hilo[c] \in Vivas /\ tabla' = tabla
        /\ hilo[c] = "fin" => hilo'[c] = "fin"
    <3>1. \A e : Pasa(c, e) =>
             /\ hilo'[c] = e
             /\ \A i \in Interfaz : i # j => hilo'[IOKernel(i)] = hilo[IOKernel(i)]
      BY <1>0, IOKernelEs DEF Pasa, TipoHilos
    <3> QED
      BY <2>1, <2>4, <3>1 DEF Vivas
  <2>7. ASSUME NEW i \in Interfaz, "s" \in cerrado'[IOKernel(i)], "s" \notin cerrado[IOKernel(i)]
        PROVE  r = IOKernel(i) /\ tabla'[fd[j]] = Libre
    <3>1. UNCHANGED vida /\ r # Libre /\ Cierra(r, "s") /\ tabla' = [tabla EXCEPT ![fd[j]] = Libre]
      BY <2>3, <2>7
    <3>2. r \in Conexiones
      BY <2>2, <3>1, ConexionesEs
    <3> HIDE DEF r
    <3>3. r = IOKernel(i)
      BY <1>0, <2>7, <3>1, <3>2, CierraEs, IOKernelEs, LadosEs
    <3> QED
      BY <1>0, <2>2, <3>1, <3>3 DEF TipoHilos
  <2>8. D1
    <3> SUFFICES ASSUME NEW i \in Interfaz, NEW n \in Fds, tabla'[n] = IOKernel(i),
                        "s" \in cerrado'[IOKernel(i)]
                 PROVE  FALSE
      OBVIOUS
    <3>1. tabla[n] = IOKernel(i) /\ (n = fd[j] => tabla' = tabla)
      BY <2>5, IOKernelEs
    <3>2. "s" \notin cerrado[IOKernel(i)]
      BY <1>2, <3>1
    <3>3. r = IOKernel(i) /\ tabla'[fd[j]] = Libre
      BY <2>7, <3>2
    <3>4. fd[i] = fd[j] /\ fd[i] = n
      BY <1>0, <2>2, <3>1, <3>3 DEF Descriptores
    <3> QED
      BY <3>3, <3>4, IOKernelEs
  <2>9. D2
    <3> SUFFICES ASSUME NEW i \in Interfaz, hilo'[IOKernel(i)] = "ninguno",
                        "s" \in cerrado'[IOKernel(i)]
                 PROVE  FALSE
      OBVIOUS
    <3>1. hilo[IOKernel(i)] = "ninguno"
      BY <2>6
    <3>2. r = IOKernel(i)
      BY <1>2, <2>7, <3>1
    <3> QED
      BY <1>0, <2>2, <3>1, <3>2 DEF Descriptores
  <2>10. D3
    <3> SUFFICES ASSUME NEW i \in Interfaz, vida'[i] = "corre", hilo'[IOKernel(i)] \in Vivas,
                        tabla'[fd'[i]] # IOKernel(i)
                 PROVE  \E w \in Interfaz \ {i} :
                           fd'[w] = fd'[i] /\ hilo'[IOKernel(w)] = "fin"
      OBVIOUS
    <3>1. hilo[IOKernel(i)] \in Vivas /\ (i = j => tabla' = tabla)
      BY <2>6
    <3>2. vida[i] = "corre" /\ fd[i] \in Fds
      BY <1>0, <1>3, <3>1 DEF Vivas, Descriptores
    <3>3. CASE tabla[fd[i]] # IOKernel(i)
      <4>1. PICK w \in Interfaz \ {i} : fd[w] = fd[i] /\ hilo[IOKernel(w)] = "fin"
        BY <1>2, <3>1, <3>2, <3>3
      <4>2. hilo'[IOKernel(w)] = "fin"
        BY <2>6, <4>1
      <4> QED
        BY <2>1, <4>1, <4>2
    <3>4. CASE tabla[fd[i]] = IOKernel(i)
      <4>1. tabla' # tabla
        BY <2>1, <3>4
      <4>2. i # j
        BY <3>1, <4>1
      <4>3. fd[i] = fd[j]
        BY <2>1, <2>5, <3>2, <3>4
      <4>4. \/ hilo[c] = "cierra" /\ Pasa(c, "fin")
            \/ SinMas(c)
        BY <2>4, <4>1
      <4>5. ~SinMas(c)
        <5>1. "s" \notin cerrado[IOKernel(i)]
          BY <1>2, <3>2, <3>4
        <5>2. vida[i] # "fin"
          BY <3>2
        <5>3. ~Agotada(IOKernel(i), "s")
          BY <5>1, <5>2, SoloSiTermino DEF Termino
        <5>4. Real(c) = IOKernel(i) /\ Real(c) # Libre
          BY <2>2, <3>4, <4>3, IOKernelEs
        <5> HIDE DEF c
        <5> QED
          BY <5>3, <5>4 DEF SinMas
      <4>6. hilo'[c] = "fin"
        BY <1>0, <2>1, <4>4, <4>5 DEF Pasa, TipoHilos
      <4> QED
        BY <2>1, <4>2, <4>3, <4>6
    <3> QED
      BY <3>3, <3>4
  <2> QED
    BY <2>8, <2>9, <2>10
<1>10. ASSUME NEW c \in DeInterfaz, DeHilo(c)
       PROVE  Meta
  <2>1. CASE c[2] = "kernel"
    <3>1. PICK j \in Interfaz : c = IOKernel(j)
      BY <2>1, ConexionEs, ConexionesEs DEF AlKernel
    <3> QED
      BY <1>9, <1>10, <3>1
  <2> QED
    BY <1>8, <1>10, <2>1
<1> HIDE DEF Meta
<1> QED
  BY <1>5, <1>6, <1>7, <1>10, CasosDeTabla

-----------------------------------------------------------------------------
(* How the kernel may end.                                                  *)

LEMMA YaTermino ==
  ASSUME TipoArranque, Cierres, [Next]_vars, Termino("kernel")
  PROVE  /\ paso'["kernel"] = paso["kernel"]
         /\ \A i \in Interfaz : hilo'[IOKernel(i)] = hilo[IOKernel(i)]
         /\ UNCHANGED << fd, tabla >>
<1>0. TipoProgramas /\ TipoHilos /\ Descriptores
  BY DEF TipoArranque
<1>1. ~EnFuncion("kernel")
  BY DEF Termino, EnFuncion
<1>2. paso'["kernel"] = paso["kernel"]
  <2>1. ASSUME NEW m \in Modulos, DeMain(m)
        PROVE  paso'["kernel"] = paso["kernel"]
    <3>1. m # "kernel"
      BY <1>1, <2>1 DEF DeMain
    <3> QED
      BY <1>0, <2>1, <3>1, ModulosEs DEF DeMain, EfectoMain, Sigue, SeRinde, TipoProgramas
  <2> QED
    BY <2>1, PasoEsDeMain DEF Callado
<1>3. ASSUME NEW c \in DeInterfaz, DeHilo(c)
      PROVE  SinTablas
  <2>1. fd' = fd /\ EfectoTabla(c) /\ hilo[c] # "ninguno"
    BY <1>3 DEF DeHilo
  <2>2. /\ tabla' = tabla
        /\ UNCHANGED hilo \/ (c[2] = "memoria" /\ \E e \in Hilos : Pasa(c, e))
    BY <1>1, <2>1 DEF EfectoTabla, Hilos
  <2>3. \A j \in Interfaz : c[2] = "memoria" => IOKernel(j) # c
    BY IOKernelEs
  <2> QED
    BY <1>0, <2>1, <2>2, <2>3, IOKernelEs DEF SinTablas, Pasa, TipoHilos
<1>4. SinTablas
  BY <1>1, <1>3, CasosDeTabla
<1> QED
  BY <1>2, <1>4 DEF SinTablas

LEMMA PasoDeNucleo ==
  ASSUME TipoArranque, Cierres, Encadenados, Duenos, NucleoSobrevive, [Next]_vars
  PROVE  NucleoSobrevive'
<1>0. /\ TipoProgramas /\ TipoCierres /\ TipoHilos /\ Descriptores /\ SinVuelta
  BY PasoDeCierres DEF TipoArranque
<1>1. Guion("kernel")' = Guion("kernel")
  BY PasoDeProgramas, GuionFijo
<1> SUFFICES ASSUME vida'["kernel"] = "fin", paso'["kernel"] > Len(Guion("kernel")),
                    ~desorden', matados' \cup fallados' \subseteq Interfaz
             PROVE  \E i \in Interfaz :
                       /\ hilo'[IOKernel(i)] = "nombre"
                       /\ vida'[i] = "fin" \/ tabla'[fd'[i]] # IOKernel(i)
  BY <1>1 DEF NucleoSobrevive, TerminoListo, Termino
<1>2. ~desorden /\ matados \cup fallados \subseteq Interfaz
  <2>1. /\ desorden => desorden'
        /\ matados \subseteq matados' /\ fallados \subseteq fallados'
    BY HistoriaCrece
  <2>2. ~desorden
    BY <2>1, Zenon
  <2> QED
    BY <2>1, <2>2
<1>3. CASE Termino("kernel")
  <2>2. paso'["kernel"] = paso["kernel"]
    BY <1>3, YaTermino
  <2>3. TerminoListo("kernel")
    BY <1>3, <2>2 DEF TerminoListo
  <2>4. PICK i \in Interfaz : /\ hilo[IOKernel(i)] = "nombre"
                              /\ Termino(i) \/ tabla[fd[i]] # IOKernel(i)
    BY <1>2, <2>3 DEF NucleoSobrevive
  <2>5. hilo'[IOKernel(i)] = hilo[IOKernel(i)] /\ UNCHANGED << fd, tabla >>
    BY <1>3, YaTermino
  <2>6. Termino(i) => vida'[i] = "fin"
    BY <1>0, ModulosEs DEF SinVuelta
  <2> QED
    BY <2>4, <2>5, <2>6
<1>4. CASE ~Termino("kernel")
  <2>1. Sano /\ Vivos
    BY <1>2, <1>4 DEF Sano, Encadenados
  <2>2. \A m \in Modulos : Termina(m) => m = "kernel"
    BY <1>0, <1>4, TerminaEs, ModulosEs DEF Termino
  <2>3. vida' # vida
    BY <1>4 DEF Termino
  <2>4. \A c \in Principales : Abierta(c)
    BY <2>1 DEF Vivos
  <2>5. ~Motivo("kernel")
    BY <2>4, ModulosEs DEF Motivo
  <2>6. ~EfectoCaida
    <3>1. "kernel" \notin fallados'
      BY ModulosEs
    <3> QED
      BY <2>2, <2>3, <2>5, <3>1 DEF EfectoCaida
  <2>7. ~\E m \in Modulos : Enciende(m)
    BY <1>0, <1>4, ModulosEs DEF Enciende, TipoProgramas, Termino
  <2>8. ~\E m \in Modulos : Termina(m) /\ matados' = {m}
    BY <2>2, ModulosEs
  <2>9. PICK c \in DeInterfaz : hilo[c] # "ninguno" /\ EfectoHilo(c) /\ UNCHANGED fd
    BY <2>1, <2>2, <2>5, <2>6, <2>7, <2>8, CausaDeUnPaso DEF CausaDeCaida
  <2>10. /\ c[2] = "kernel" /\ hilo[c] = "nombre" /\ SinMas(c)
         /\ UNCHANGED << hilo, tabla, fd >>
    BY <2>3, <2>4, <2>9 DEF EfectoHilo, Principales
  <2>11. PICK i \in Interfaz : c = IOKernel(i)
    BY <2>10, ConexionEs, ConexionesEs DEF AlKernel
  <2>12. CASE tabla[fd[i]] # IOKernel(i)
    BY <2>10, <2>11, <2>12
  <2>13. CASE tabla[fd[i]] = IOKernel(i)
    <3>1. Real(c) = c /\ c # Libre
      BY <2>11, <2>13, IOKernelEs DEF Real
    <3>2. Agotada(IOKernel(i), "s")
      BY <2>10, <2>11, <3>1 DEF SinMas
    <3>3. fd[i] \in Fds
      BY <1>0, <2>10, <2>11 DEF Descriptores
    <3>4. "s" \notin cerrado[IOKernel(i)]
      BY <1>4, <2>13, <3>3 DEF Duenos
    <3>5. Termino(i)
      BY <3>2, <3>4, SoloSiTermino
    <3>6. vida'[i] = "fin"
      BY <1>0, <3>5, ModulosEs DEF SinVuelta
    <3> QED
      BY <2>10, <2>11, <3>6
  <2> QED
    BY <2>12, <2>13
<1> QED
  BY <1>3, <1>4

-----------------------------------------------------------------------------
(* The theorems.                                                            *)

LEMMA InicioArranque ==
  ASSUME Init
  PROVE  InvarianteArranque
<1>1. TipoArranque
  BY InicioTipos
<1>2. \A m \in Modulos : vida[m] = "apagado" /\ paso[m] = 1
  BY DEF Init
<1>3. \A c \in Conexiones : cerrado[c] = {} /\ roto[c] = {} /\ Abierta(c)
  BY DEF Init, Abierta
<1>4. Cierres
  BY <1>3 DEF Cierres
<1>5. CicloMuerto /\ Rechazos
  <2>1. CpuMemoria \in Conexiones /\ "c" \in Lados
    BY ConexionesEs, LadosEs
  <2>2. Contenido(buzon, CpuMemoria, "c") = {}
    BY <2>1 DEF Init, Contenido
  <2>3. ~Rechazada(buzon)
    BY <2>2 DEF Rechazada
  <2> QED
    BY <2>3 DEF Init, CicloMuerto, Rechazos
<1>6. Encadenados
  <2>1. Vivos
    BY <1>2, <1>3, ModulosEs, ConexionesEs DEF Vivos, Termino, EnFuncion
  <2>2. Saludos
    <3>1. \A c \in Conexiones : Contenido(buzon, c, "c") = {}
      BY LadosEs DEF Init, Contenido
    <3> QED
      BY <1>2, <3>1, ModulosEs, ConexionesEs DEF Saludos, Trae
  <2> QED
    BY <2>1, <2>2 DEF Encadenados
<1>7. \A i \in Interfaz : hilo[IOKernel(i)] = "ninguno"
  BY IOKernelEs DEF Init
<1>8. SinCaidas
  BY <1>2, <1>3, <1>7 DEF SinCaidas, Termino
<1>9. Duenos
  BY <1>3, <1>7, IOKernelEs DEF Duenos
<1>10. NucleoSobrevive
  BY <1>2, ModulosEs DEF NucleoSobrevive, TerminoListo, Termino
<1> QED
  BY <1>1, <1>4, <1>5, <1>6, <1>8, <1>9, <1>10 DEF InvarianteArranque

LEMMA PasoDeArranque ==
  ASSUME InvarianteArranque, [Next]_vars
  PROVE  InvarianteArranque'
<1>0. /\ TipoArranque /\ Cierres /\ CicloMuerto /\ Rechazos /\ Encadenados /\ SinCaidas
      /\ Duenos /\ NucleoSobrevive
  BY DEF InvarianteArranque
<1>1. TipoArranque'
  BY <1>0, PasoDeTipos
<1>2. Cierres' /\ CicloMuerto' /\ Rechazos'
  BY <1>0, PasoDeCierres, PasoDelCiclo, PasoDeRechazos
<1>3. Encadenados' /\ SinCaidas'
  BY <1>0, PasoDeEncadenados, PasoDeSinCaidas
<1>4. Duenos' /\ NucleoSobrevive'
  BY <1>0, PasoDeDuenos, PasoDeNucleo
<1> QED
  BY <1>1, <1>2, <1>3, <1>4 DEF InvarianteArranque

\* Types, closed ends, refused requests, the order of the start and the owners
\* of the descriptors: what the other theorems rest on (main.c of the four
\* programs, servidor.c, cliente.c, kernel_interface_handler.c).
THEOREM ArranqueInvariante == Spec => []InvarianteArranque
<1>1. Init => InvarianteArranque
  BY InicioArranque
<1>2. InvarianteArranque /\ [Next]_vars => InvarianteArranque'
  BY PasoDeArranque
<1> QED
  BY <1>1, <1>2, PTL DEF Spec

\* If the kernel waits for a context of a CPU that runs but whose cycle is
\* dead, the memory ended, or it answered MEMORY_INVALID_PID to a fetch or to a
\* RESIZE: nothing else ends the cycle and leaves both programs running
\* (instruccion.c:317 and 325 end the thread and not the CPU).
THEOREM EsperaSiempreConocida == Spec => []EsperaConocida
<1>1. InvarianteArranque => EsperaConocida
  BY DEF InvarianteArranque, CicloMuerto, EsperaConocida, EnFuncion, Termino
<1> QED
  BY <1>1, ArranqueInvariante, PTL

\* With any number of interfaces of any type: started in the order memoria,
\* cpu, kernel, interfaces, and nobody killed, the first program that ends is
\* one in its loop that fell over a request of a process; the handshakes, a
\* refused access or process, and the threads end none
\* (servidor.c:79, cliente.c, and the main.c of each).
THEOREM OrdenSiempreBasta == Spec => []OrdenBasta
<1>1. InvarianteArranque => OrdenBasta
  BY DEF InvarianteArranque, SinCaidas, OrdenBasta
<1> QED
  BY <1>1, ArranqueInvariante, PTL

\* With any number of interfaces that die or fall when they want: a kernel that got to
\* its loop ends only by "exit" or a kill, or in recibir_nombre_interfaz of an
\* interface that died or that lost its descriptor to a second close
\* (kernel_interface_handler.c:237, serializacion.c:7).
THEOREM NucleoSiempreSobrevive == Spec => []NucleoSobrevive
<1>1. InvarianteArranque => NucleoSobrevive
  BY DEF InvarianteArranque
<1> QED
  BY <1>1, ArranqueInvariante, PTL

\* A registered interface that runs loses its connection only to the second
\* close of a dead one that had the same descriptor
\* (kernel_interface_handler.c:113).
THEOREM DescriptorSiemprePropio == Spec => []DescriptorPropio
<1>1. ASSUME TipoArranque, Duenos
      PROVE  DescriptorPropio
  <2> SUFFICES ASSUME NEW i \in Registradas, EnFuncion(i), EnFuncion("kernel"),
                      "s" \in cerrado[IOKernel(i)]
               PROVE  \E j \in Interfaz \ {i} : fd[j] = fd[i] /\ hilo[IOKernel(j)] = "fin"
    BY DEF DescriptorPropio
  <2>1. i \in Interfaz /\ hilo[IOKernel(i)] \in {"sirve", "resultado"}
    BY DEF Registradas
  <2>2. ~Termino("kernel")
    BY DEF EnFuncion, Termino
  <2>3. fd[i] \in Fds
    BY <1>1, <2>1 DEF TipoArranque, Descriptores
  <2>4. tabla[fd[i]] # IOKernel(i)
    BY <1>1, <2>1, <2>2, <2>3 DEF Duenos
  <2> QED
    BY <1>1, <2>1, <2>2, <2>4 DEF Duenos
<1>2. InvarianteArranque => DescriptorPropio
  BY <1>1 DEF InvarianteArranque
<1> QED
  BY <1>2, ArranqueInvariante, PTL
=============================================================================
