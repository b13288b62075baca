------------------------------ MODULE Programas ------------------------------
(***************************************************************************)
(* The machine with its data: the programs, the registers as they travel    *)
(* between kernel and CPU, the bytes of the memory, and what STDIN and       *)
(* STDOUT do to them.  Each step is a step of Maquina and what it does to     *)
(* the data; only the accesses of COPY_STRING and of the interfaces are       *)
(* steps that Maquina does not have.                                        *)
(***************************************************************************)
EXTENDS Maquina, Registros

CONSTANT
    Casos                \* the situations of the run: the program of each process

\* The programs of the scripts: the words that each instruction takes, jumps
\* within the text, EXIT at its end, and no instruction but SET uses the PC.
Operando == Registro \ {"PC"}
OrdenPosible(i, largo) ==
    /\ i[1] \in DeRegistros \cup DeIO \cup {"MOV_IN", "MOV_OUT", "COPY_STRING",
                                          "RESIZE", "WAIT", "SIGNAL", "EXIT"}
    /\ i[1] = "SET" => /\ i[2] \in Registro /\ i[3] \in Nat
                       /\ i[2] = "PC" => i[3] < largo
    /\ i[1] = "JNZ" => i[2] \in Operando /\ i[3] \in 0 .. largo - 1
    /\ i[1] \in {"SUM", "SUB", "MOV_IN", "MOV_OUT", "IO_STDIN_READ", "IO_STDOUT_WRITE"} =>
          i[2] \in Operando /\ i[3] \in Operando
    /\ i[1] \in {"COPY_STRING", "RESIZE"} => i[2] \in Nat

ASSUME ProgramasPosibles ==
    \A n \in 1 .. Len(Casos), p \in Proceso :
        LET texto == Casos[n][p]
        IN  /\ Len(texto) \in 1 .. (Base ^ Ancho - 1)
            /\ \A k \in 1 .. Len(texto) : OrdenPosible(texto[k], Len(texto))
            /\ texto[Len(texto)][1] = "EXIT"

VARIABLES
    caso,                \* the one of this behaviour
    registros,           \* of each process, in the pcb of the kernel
    regs_cpu,            \* in the pcb of the CPU
    enviados,            \* in each pcb of despachados
    devueltos,           \* in each context of contextos
    user_memory,
    copia,               \* the buffer of COPY_STRING
    entrada,             \* the I/O that an interface has of each process
    salida,              \* history: what STDOUT printed for each process
    tocados              \* history: the processes out of the promise

kernelDatos == << registros, entrada >>
cpuDatos == << regs_cpu, copia >>
socketDatos == << enviados, devueltos >>
accesos == << user_memory, tocados >>
datos == << caso, kernelDatos, cpuDatos, socketDatos, accesos, salida >>

SinEntrada == [op |-> "ninguna", dir |-> 0, tam |-> 0]
SinCopia == [hay |-> FALSE, bien |-> FALSE, bytes |-> << >>]

InitDatos ==
    /\ caso \in 1 .. Len(Casos)
    /\ registros = [p \in Proceso |-> EnCero]
    /\ regs_cpu = EnCero
    /\ enviados = << >> /\ devueltos = << >>
    /\ user_memory = [a \in 0 .. TamMemoria - 1 |-> 0]
    /\ copia = SinCopia
    /\ entrada = [p \in Proceso |-> SinEntrada]
    /\ salida = [p \in Proceso |-> << >>]
    /\ tocados = {}

-----------------------------------------------------------------------------
(* The memory, one access at a time (memoria_mutex).                        *)

\* leer_memoria and escribir_memoria (memoria/src/main.c)
Dentro(a, n) == a + n <= TamMemoria
Leidos(a, n) == [k \in 1 .. n |-> user_memory[a + k - 1]]
Escribe(a, s) ==
    user_memory' = IF Dentro(a, Len(s))
                   THEN [x \in DOMAIN user_memory |->
                            IF x \in a .. a + Len(s) - 1 THEN s[x - a + 1]
                            ELSE user_memory[x]]
                   ELSE user_memory

\* The processes that have a byte of those.
Afectados(a, n) ==
    { p \in Proceso : \E x \in a .. a + n - 1 : x \div TamPagina \in ToSet(paginas[p]) }

\* Only the first byte of an access is translated (mmu.c:27), and a page that
\* a process gave back may still be in the TLB: an access that goes past its
\* page, or of a process that reduced itself, is out of the promise, and with
\* it whoever it writes on.
Cruza(a, n) == Desplazamiento(a) + n > TamPagina
TocaSi(impropio, p, escritos) ==
    tocados' = IF impropio THEN tocados \cup {p} \cup escritos ELSE tocados

-----------------------------------------------------------------------------
(* The CPU.                                                                *)

EnCurso == Casos[caso][pcb][regs_cpu.PC]

\* What decode makes of the words of an instruction.
Clase(i) ==
    CASE i[1] \in DeRegistros -> "CALCULO"
      [] i[1] \in {"MOV_IN", "MOV_OUT"} -> "MOV"
      [] i[1] \in DeIO -> "IO"
      [] OTHER -> i[1]

Direcciones(i, r) ==
    CASE i[1] = "MOV_IN" -> << r[i[3]] >>
      [] i[1] \in {"MOV_OUT", "IO_STDIN_READ", "IO_STDOUT_WRITE"} -> << r[i[2]] >>
      [] i[1] = "COPY_STRING" -> << r.SI, r.DI >>
      [] OTHER -> << >>

Tamano(i, r) ==
    CASE i[1] = "RESIZE" -> i[2]
      [] i[1] \in {"IO_STDIN_READ", "IO_STDOUT_WRITE"} -> r[i[3]]
      [] OTHER -> 0

decode(i, r) == [op |-> Clase(i), dirs |-> Direcciones(i, r), tam |-> Tamano(i, r)]

\* receive_pcb
Recibe ==
    /\ CPURecibe
    /\ regs_cpu' = Head(enviados)
    /\ enviados' = Tail(enviados)
    /\ UNCHANGED << caso, kernelDatos, copia, devueltos, accesos, salida >>

Fetch ==
    /\ cpu = "fetch"
    /\ regs_cpu' = Avanza(regs_cpu)
    /\ Atendido =>
          instruccion' = decode(Casos[caso][pcb][regs_cpu.PC + 1], regs_cpu')
    /\ CPUFetch
    /\ UNCHANGED << caso, kernelDatos, copia, socketDatos, accesos, salida >>

Decode == CPUDecode /\ UNCHANGED datos

EjecutaCalculo ==
    /\ CPUEjecutaLocal
    /\ instruccion.op = "CALCULO"
    /\ regs_cpu' = Calcula(EnCurso, regs_cpu)
    /\ UNCHANGED << caso, kernelDatos, copia, socketDatos, accesos, salida >>

\* Four bytes are read whatever the register takes of them; past the end of
\* the memory none is, and the register stays.
EjecutaMovIn ==
    /\ CPUEjecutaLocal
    /\ EnCurso[1] = "MOV_IN"
    /\ LET r == EnCurso[2]
           a == fisicas[1]
       IN  /\ regs_cpu' = IF Dentro(a, Ancho)
                          THEN Asigna(regs_cpu, r, DeBytes(Leidos(a, Ancho)))
                          ELSE regs_cpu
           /\ TocaSi(Cruza(a, Bytes(r)) \/ ~ Dentro(a, Ancho) \/ pcb \in redujo,
                     pcb, {})
    /\ UNCHANGED << caso, kernelDatos, copia, socketDatos, user_memory, salida >>

EjecutaMovOut ==
    /\ CPUEjecutaLocal
    /\ EnCurso[1] = "MOV_OUT"
    /\ LET r == EnCurso[3]
           a == fisicas[1]
       IN  /\ Escribe(a, EnBytes(regs_cpu[r], Bytes(r)))
           /\ TocaSi(Cruza(a, Bytes(r)) \/ pcb \in redujo, pcb, Afectados(a, Bytes(r)))
    /\ UNCHANGED << caso, kernelDatos, cpuDatos, socketDatos, salida >>

CopyStringLee ==
    /\ Decodificada
    /\ instruccion.op = "COPY_STRING"
    /\ ~ copia.hay
    /\ LET bien == Dentro(fisicas[1], EnCurso[2])
       IN  copia' = [hay |-> TRUE, bien |-> bien,
                     bytes |-> IF bien THEN Leidos(fisicas[1], EnCurso[2]) ELSE << >>]
    /\ TocaSi(Cruza(fisicas[1], EnCurso[2]) \/ pcb \in redujo, pcb, {})
    /\ UNCHANGED << vars, caso, kernelDatos, regs_cpu, socketDatos, user_memory,
                    salida >>

CopyStringEscribe ==
    /\ CPUEjecutaLocal
    /\ instruccion.op = "COPY_STRING"
    /\ copia.hay
    /\ IF ~ copia.bien THEN UNCHANGED accesos
       ELSE /\ Escribe(fisicas[2], copia.bytes)
            /\ TocaSi(Cruza(fisicas[2], EnCurso[2]) \/ pcb \in redujo, pcb,
                      Afectados(fisicas[2], EnCurso[2]))
    /\ copia' = SinCopia
    /\ UNCHANGED << caso, kernelDatos, regs_cpu, socketDatos, salida >>

PideTamano == (CPUPideTamano \/ CPUPideTamanoEnVano) /\ UNCHANGED datos

\* The steps that may send a context: contexto_serializar takes the registers.
Contesta ==
    /\ \/ CPUPendUsuario \/ CPUPendQuantum \/ CPUVeUsuario \/ CPUVeQuantum
       \/ CPURedimensionada \/ CPUSolicitaRecurso \/ CPUPideIO \/ CPUSale
    /\ devueltos' = IF contextos' = contextos THEN devueltos
                    ELSE Append(devueltos, regs_cpu)
    /\ UNCHANGED << caso, kernelDatos, cpuDatos, enviados, accesos, salida >>

Limpieza == CPULimpia /\ UNCHANGED datos

Ciclo ==
    /\ \/ Recibe \/ Limpieza \/ Fetch \/ Decode
       \/ EjecutaCalculo \/ EjecutaMovIn \/ EjecutaMovOut
       \/ CopyStringLee \/ CopyStringEscribe \/ PideTamano \/ Contesta
    /\ UNCHANGED << nucleoVars, redujo >>

-----------------------------------------------------------------------------
(* The kernel.                                                             *)

\* send_pcb
Despacha(p) ==
    /\ NucleoDespacha(p)
    /\ enviados' = Append(enviados, registros[p])
    /\ UNCHANGED << caso, kernelDatos, cpuDatos, devueltos, accesos, salida >>

\* Mutant: one register is forgotten.
actualizar_sin_di(old, new) == [new EXCEPT !.DI = old.DI]

\* actualizar_contexto_de_ejecucion: register by register.
actualizar_contexto_de_ejecucion(old, new) == [r \in Registro |-> new[r]]

RecibeContexto ==
    /\ contextos # << >>
    /\ registros' = [registros EXCEPT ![Llegado] =
          actualizar_contexto_de_ejecucion(@, Head(devueltos))]
    /\ devueltos' = Tail(devueltos)

DejaCPU ==
    /\ NucleoTermina \/ NucleoReencola
    /\ RecibeContexto
    /\ UNCHANGED << caso, entrada, cpuDatos, enviados, accesos, salida >>

\* enviar_contexto of the same process, with what it has just brought.
Continua ==
    /\ NucleoContinua
    /\ RecibeContexto
    /\ enviados' = Append(enviados, registros'[Llegado])
    /\ UNCHANGED << caso, entrada, cpuDatos, accesos, salida >>

\* What ejecutar_IO will send the interface.
Pedido(op, c) ==
    [op |-> op, dir |-> IF c.fisicas = << >> THEN 0 ELSE c.fisicas[1], tam |-> c.tam]

Bloquea ==
    /\ NucleoBloquea
    /\ RecibeContexto
    /\ entrada' = IF Llega({"IO"})
                  THEN [entrada EXCEPT ![Llegado] =
                          Pedido(Casos[caso][Llegado][registros'[Llegado].PC][1],
                                 Head(contextos))]
                  ELSE entrada
    /\ UNCHANGED << caso, cpuDatos, enviados, accesos, salida >>

Despierta(p) ==
    /\ entrada[p] = SinEntrada
    /\ NucleoDespierta(p)
    /\ UNCHANGED datos

\* FINALIZAR_PROCESO: its interface may have the request already, or not.
FinalizaOtro(p) ==
    /\ NucleoFinalizaOtro(p)
    /\ entrada' \in { entrada, [entrada EXCEPT ![p] = SinEntrada] }
    /\ UNCHANGED << caso, registros, cpuDatos, socketDatos, accesos, salida >>

\* Of one in flight: it goes on without its memory, out of the promise.
FinalizaEnVuelo(p) ==
    /\ NucleoFinalizaEnVuelo(p)
    /\ tocados' = tocados \cup {p}
    /\ UNCHANGED << caso, kernelDatos, cpuDatos, socketDatos, user_memory, salida >>

SinDatos ==
    /\ \/ \E p \in Proceso :
             NucleoCrea(p) \/ NucleoAdmite(p) \/ NucleoFinalizaNuevo(p)
       \/ NucleoDesaloja \/ NucleoFinaliza
    /\ UNCHANGED datos

NucleoConDatos ==
    \/ SinDatos \/ DejaCPU \/ Continua \/ Bloquea
    \/ \E p \in Proceso :
          Despacha(p) \/ Despierta(p) \/ FinalizaOtro(p) \/ FinalizaEnVuelo(p)

-----------------------------------------------------------------------------
(* The interfaces, and the thread of the memory that each one has.          *)

Hecha(p) == entrada' = [entrada EXCEPT ![p] = SinEntrada]
SinInterfaz == << vars, caso, registros, cpuDatos, socketDatos >>

\* An interface that works for a process that ended is out of the promise too.
Impropia(p) ==
    Cruza(entrada[p].dir, entrada[p].tam) \/ p \in redujo \/ situacion[p] = "EXIT"

\* io_gen_sleep
InterfazDuerme(p) ==
    /\ entrada[p].op = "IO_GEN_SLEEP"
    /\ Hecha(p)
    /\ UNCHANGED << SinInterfaz, accesos, salida >>

\* stdin_procesar_instrucciones: a text of the size that was asked for.
InterfazLee(p) ==
    /\ entrada[p].op = "IO_STDIN_READ"
    /\ \E texto \in [1 .. entrada[p].tam -> Byte] : Escribe(entrada[p].dir, texto)
    /\ TocaSi(Impropia(p), p, Afectados(entrada[p].dir, entrada[p].tam))
    /\ Hecha(p)
    /\ UNCHANGED << SinInterfaz, salida >>

\* stdout_procesar_instrucciones
InterfazEscribe(p) ==
    /\ entrada[p].op = "IO_STDOUT_WRITE"
    /\ salida' = IF Dentro(entrada[p].dir, entrada[p].tam)
                 THEN [salida EXCEPT ![p] =
                          Append(@, Leidos(entrada[p].dir, entrada[p].tam))]
                 ELSE salida
    /\ TocaSi(Impropia(p), p, {})
    /\ Hecha(p)
    /\ UNCHANGED << SinInterfaz, user_memory >>

Interfaz ==
    \E p \in Proceso : InterfazDuerme(p) \/ InterfazLee(p) \/ InterfazEscribe(p)

-----------------------------------------------------------------------------

NextProgramas ==
    \/ cpu # "muerto" /\ NucleoConDatos
    \/ cpu # "muerto" /\ PasoMemoria /\ UNCHANGED datos
    \/ cpu # "muerto" /\ Ciclo
    \/ cpu # "muerto" /\ PasoInterrupcion /\ UNCHANGED datos
    \/ cpu # "muerto" /\ Carrera /\ UNCHANGED datos
    \/ cpu # "muerto" /\ Interfaz
    \/ Quieta /\ UNCHANGED datos

todas == << vars, datos >>
SpecProgramas == Init /\ InitDatos /\ [][NextProgramas]_todas

-----------------------------------------------------------------------------

TypeOKProgramas ==
    /\ registros \in [Proceso -> Registros] /\ regs_cpu \in Registros
    /\ Len(enviados) = Len(despachados) /\ Len(devueltos) = Len(contextos)
    /\ ToSet(enviados) \cup ToSet(devueltos) \subseteq Registros
    /\ user_memory \in [0 .. TamMemoria - 1 -> Byte]
    /\ tocados \subseteq Proceso

EnContexto(p, ops) ==
    \E k \in DOMAIN contextos : contextos[k].pid = p /\ contextos[k].op \in ops

\* The state of the machine that process p has for itself.
Rota(p) == pisado \/ p \in tocados
EstadoDe(p) ==
    IF Rota(p) THEN "rota"
    ELSE IF situacion[p] = "EXIT" \/ EnContexto(p, {"FINALIZADO", "OUT_OF_MEMORY"}) THEN "fin"
    ELSE IF entrada[p] # SinEntrada \/ EnContexto(p, {"IO"}) THEN "io"
    ELSE "corre"
Vive(p) == EstadoDe(p) \in {"corre", "io"}

\* Its registers, wherever they are; an instruction that is not over yet has
\* not begun.
RegistrosDe(p) ==
    IF pcb = p
    THEN IF cpu \in {"decode", "resize", "muerto"} THEN Retrocede(regs_cpu) ELSE regs_cpu
    ELSE IF p \in ToSet(despachados)
    THEN enviados[CHOOSE k \in DOMAIN despachados : despachados[k] = p]
    ELSE IF EnContexto(p, OpsContexto)
    THEN devueltos[CHOOSE k \in DOMAIN contextos : contextos[k].pid = p]
    ELSE registros[p]

\* Its pages, one after another.
MemoriaDe(p) ==
    [k \in 1 .. Len(paginas[p]) * TamPagina |->
        user_memory[paginas[p][(k - 1) \div TamPagina + 1] * TamPagina
                    + Desplazamiento(k - 1)]]

\* Nothing is kept of a machine that is over.
RegistrosVistos(p) == IF Vive(p) THEN RegistrosDe(p) ELSE EnCero
MemoriaVista(p) == IF Vive(p) THEN MemoriaDe(p) ELSE << >>
SalidaVista(p) == IF Vive(p) THEN salida[p] ELSE << >>

\* Every process runs as if it had registers and a memory of its own,
\* whatever the kernel, the other processes and the interfaces do in between:
\* what it computes, what it reads back and what is printed for it (the pcb
\* goes to and fro at pcb.c:21 and scheduler.c:259; the frames are shared).
\* Out of it are the bytes past the end of a page (mmu.c:27), a process that
\* gave pages back, one that FINALIZAR_PROCESO did not find and goes on without
\* its memory (consola.c:180-197), an interface that works for a process that
\* ended, two bit operations at once, and whoever those write on.
Aislada == INSTANCE Aislado WITH
    Programas <- Casos,
    estado <- [p \in Proceso |-> EstadoDe(p)],
    regs <- [p \in Proceso |-> RegistrosVistos(p)],
    mem <- [p \in Proceso |-> MemoriaVista(p)],
    salida <- [p \in Proceso |-> SalidaVista(p)]
CadaUnoEnLoSuyo == Aislada!Spec
=============================================================================
