------------------------------- MODULE Maquina -------------------------------
(***************************************************************************)
(* The CPU and the memory side by side, with the kernel and the interfaces *)
(* at the other end of their sockets.  Of the kernel (modelled in Kernel)   *)
(* this module keeps the order of its messages: the first of NEW is         *)
(* admitted with the first confirmation, whosever that is; a process is      *)
(* dispatched when no other is in the CPU; its memory is released when its  *)
(* last context came, and the next process is dispatched without waiting    *)
(* for that.  FINALIZAR_PROCESO may find a process in NEW, in another queue, *)
(* or in none.                                                             *)
(***************************************************************************)
EXTENDS Cpu

CONSTANT
    MaxOrdenes           \* bound: quantums that end, and FINALIZAR_PROCESO

ASSUME CotasMaquina == MaxOrdenes \in Nat

VARIABLES
    situacion,           \* of each process, as the kernel sees it
    nuevos,              \* cola_new
    io,                  \* the access an interface does for each process
    ordenes,             \* how many of both so far
    sobra,               \* history: one in NEW was ended, its confirmation is over
    enVuelo,             \* history: the processes that FINALIZAR_PROCESO did not
                         \* find, which go on though their memory is released
    redujo               \* history: the processes that gave pages back, those
                         \* of enVuelo included

finVars == << sobra, enVuelo >>
nucleoVars == << situacion, nuevos, io, ordenes, finVars >>
vars == << memoriaVars, mmuVars, cpuVars, nucleoVars, redujo >>

Situaciones == {"nuevo", "pedido", "READY", "EXEC", "BLOCKED", "EXIT"}
SinAcceso == [dirs |-> << >>, tam |-> 0]

Init ==
    /\ InitMemoria /\ InitMmu /\ InitCpu
    /\ situacion = [p \in Proceso |-> "nuevo"]
    /\ nuevos = << >>
    /\ io = [p \in Proceso |-> SinAcceso]
    /\ ordenes = 0
    /\ sobra = FALSE /\ enVuelo = {}
    /\ redujo = {}

EnSituacion(p, a, b) ==
    /\ situacion[p] = a
    /\ situacion' = [situacion EXCEPT ![p] = b]

Pide(op, p) == pedidos_kernel' = Append(pedidos_kernel, [op |-> op, pid |-> p])
MenosPedidos == << procesos, paginas, bitVars, confVars, hilo, sirve, byte,
                   indice, faltan, respuesta >>
MenosConfirmaciones == << procesos, paginas, bitVars, pedidos_kernel, confirmados,
                          hilo, sirve, byte, indice, faltan, respuesta >>

\* iniciar_proceso
NucleoCrea(p) ==
    /\ EnSituacion(p, "nuevo", "pedido")
    /\ Pide("MEMORY_PROCESS_CREATE", p)
    /\ nuevos' = Append(nuevos, p)
    /\ UNCHANGED << MenosPedidos, mmuVars, cpuVars, io, ordenes, finVars,
                    redujo >>

\* esperar_confirmacion_memoria and cola_new_a_ready.  At MEMORY_INVALID_PATH
\* the kernel exits: nobody is admitted any more.
NucleoAdmite(p) ==
    /\ confirmaciones # << >> /\ Head(confirmaciones) = "MEMORY_PROCESS_CREATE"
    /\ nuevos # << >> /\ p = Head(nuevos)
    /\ EnSituacion(p, "pedido", "READY")
    /\ confirmaciones' = Tail(confirmaciones)
    /\ nuevos' = Tail(nuevos)
    /\ UNCHANGED << MenosConfirmaciones, mmuVars, cpuVars, io, ordenes, finVars,
                    redujo >>

NucleoDespacha(p) ==
    /\ \A q \in Proceso : situacion[q] # "EXEC"
    /\ EnSituacion(p, "READY", "EXEC")
    /\ despachados' = Append(despachados, p)
    /\ UNCHANGED << memoriaVars, mmuVars, cicloVars, interrupcion, contextos,
                    ordenes_interrupcion, nuevos, io, ordenes, finVars, redujo >>

\* A quantum thread wakes up.  It was started for some dispatch, maybe not for
\* the process that is in the CPU now: only the last one is ever cancelled.
NucleoDesaloja ==
    /\ ordenes < MaxOrdenes
    /\ \E p \in Proceso : situacion[p] \notin {"nuevo", "pedido"}
    /\ ordenes' = ordenes + 1
    /\ ordenes_interrupcion' = Append(ordenes_interrupcion, "DESALOJO_QUANTUM")
    /\ UNCHANGED << memoriaVars, mmuVars, cicloVars, interrupcion, despachados,
                    contextos, situacion, nuevos, io, finVars, redujo >>

NucleoFinaliza ==
    /\ ordenes < MaxOrdenes
    /\ \E p \in Proceso : situacion[p] = "EXEC"
    /\ ordenes' = ordenes + 1
    /\ ordenes_interrupcion' = Append(ordenes_interrupcion, "INTERRUPTED_BY_USER")
    /\ UNCHANGED << memoriaVars, mmuVars, cicloVars, interrupcion, despachados,
                    contextos, situacion, nuevos, io, finVars, redujo >>

\* FINALIZAR_PROCESO of one that is found in READY or BLOCKED.  Who else is
\* dropped from its queue (scheduler.c:224) is not dispatched any more, and an
\* interface that uses the memory for it goes on.
NucleoFinalizaOtro(p) ==
    /\ ordenes < MaxOrdenes
    /\ EnSituacion(p, "READY", "EXIT") \/ EnSituacion(p, "BLOCKED", "EXIT")
    /\ ordenes' = ordenes + 1
    /\ Pide("MEMORY_PROCESS_TERM", p)
    /\ UNCHANGED << MenosPedidos, mmuVars, cpuVars, nuevos, io, finVars, redujo >>

\* In NEW: list_remove_by_condition, and the list_pop of proceso_a_exit.  The
\* confirmation of its creation will be taken for that of the next.
SinPrimero(s) == IF s = << >> THEN << >> ELSE Tail(s)
QuitaYSaca(s, p) == SinPrimero(RemoveAt(s, CHOOSE k \in 1 .. Len(s) : s[k] = p))
NucleoFinalizaNuevo(p) ==
    /\ ordenes < MaxOrdenes
    /\ p \in ToSet(nuevos)
    /\ EnSituacion(p, "pedido", "EXIT")
    /\ nuevos' = QuitaYSaca(nuevos, p)
    /\ sobra' = TRUE
    /\ ordenes' = ordenes + 1
    /\ Pide("MEMORY_PROCESS_TERM", p)
    /\ UNCHANGED << MenosPedidos, mmuVars, cpuVars, io, enVuelo, redujo >>

\* Nowhere: it is between two queues, or was dispatched, or ended, after the
\* console looked.  It goes on, and its memory is released.
NucleoFinalizaEnVuelo(p) ==
    /\ ordenes < MaxOrdenes
    /\ situacion[p] # "nuevo" /\ p \notin ToSet(nuevos)
    /\ ordenes' = ordenes + 1
    /\ Pide("MEMORY_PROCESS_TERM", p)
    /\ enVuelo' = enVuelo \cup {p} /\ redujo' = redujo \cup {p}
    /\ UNCHANGED << MenosPedidos, mmuVars, cpuVars, situacion, nuevos, io, sobra >>

\* The handler of contexts, by operation.
Llega(op) == contextos # << >> /\ Head(contextos).op \in op
Llegado == Head(contextos).pid

\* The three ends, and an interface or a resource that is not there.
NucleoTermina ==
    /\ Llega({"FINALIZADO", "OUT_OF_MEMORY", "INTERRUPTED_BY_USER", "IO", "WAIT",
              "SIGNAL"})
    /\ EnSituacion(Llegado, "EXEC", "EXIT")
    /\ Pide("MEMORY_PROCESS_TERM", Llegado)
    /\ contextos' = Tail(contextos)
    /\ UNCHANGED << MenosPedidos, mmuVars, cicloVars, interrupcion, despachados,
                    ordenes_interrupcion, nuevos, io, ordenes, finVars, redujo >>

NucleoReencola ==
    /\ Llega({"DESALOJO_QUANTUM"})
    /\ EnSituacion(Llegado, "EXEC", "READY")
    /\ contextos' = Tail(contextos)
    /\ UNCHANGED << memoriaVars, mmuVars, cicloVars, interrupcion, despachados,
                    ordenes_interrupcion, nuevos, io, ordenes, finVars, redujo >>

NucleoContinua ==
    /\ Llega({"WAIT", "SIGNAL"})
    /\ despachados' = Append(despachados, Llegado)
    /\ contextos' = Tail(contextos)
    /\ UNCHANGED << memoriaVars, mmuVars, cicloVars, interrupcion,
                    ordenes_interrupcion, nucleoVars, redujo >>

\* For a resource, or for an interface and its access to the memory.
NucleoBloquea ==
    /\ Llega({"WAIT", "IO"})
    /\ EnSituacion(Llegado, "EXEC", "BLOCKED")
    /\ io' = [io EXCEPT ![Llegado] =
          IF Head(contextos).op = "IO"
          THEN [dirs |-> Head(contextos).fisicas, tam |-> Head(contextos).tam]
          ELSE SinAcceso]
    /\ contextos' = Tail(contextos)
    /\ UNCHANGED << memoriaVars, mmuVars, cicloVars, interrupcion, despachados,
                    ordenes_interrupcion, nuevos, ordenes, finVars, redujo >>

\* The interface has used the memory (manejar_instrucciones_stdin, _stdout and
\* _dialfs), or somebody signalled.
NucleoDespierta(p) ==
    /\ EnSituacion(p, "BLOCKED", "READY")
    /\ io' = [io EXCEPT ![p] = SinAcceso]
    /\ UNCHANGED << memoriaVars, mmuVars, cpuVars, nuevos, ordenes, finVars,
                    redujo >>

Nucleo ==
    \/ \E p \in Proceso :
          NucleoCrea(p) \/ NucleoAdmite(p) \/ NucleoDespacha(p)
          \/ NucleoDespierta(p) \/ NucleoFinalizaOtro(p)
          \/ NucleoFinalizaNuevo(p) \/ NucleoFinalizaEnVuelo(p)
    \/ NucleoDesaloja \/ NucleoFinaliza
    \/ NucleoTermina \/ NucleoReencola \/ NucleoContinua \/ NucleoBloquea

PasoMemoria ==
    /\ HiloKernel \/ HiloCPU
    /\ redujo' = redujo \cup (IF hilo["cpu"] = "descarta" /\ hilo'["cpu"] # "descarta"
                              THEN {sirve["cpu"]} ELSE {})
    /\ UNCHANGED << mmuVars, cpuVars, nucleoVars >>

PasoCiclo == CicloCPU /\ UNCHANGED << nucleoVars, redujo >>
PasoInterrupcion == InterrupcionLlega /\ UNCHANGED << nucleoVars, redujo >>

\* One thread of the memory reads the lists that the other is freeing
\* (main.c:173): what comes of it is not followed, and counts as a death.
Carrera ==
    /\ \/ Trabaja("kernel", pcb) /\ cpu \in {"fetch", "decode"}
       \/ /\ Trabaja("cpu", pcb) /\ hilo["kernel"] = "libre"
          /\ pedidos_kernel # << >>
          /\ Head(pedidos_kernel) = [op |-> "MEMORY_PROCESS_TERM", pid |-> pcb]
    /\ cpu' = "muerto"
    /\ UNCHANGED << memoriaVars, mmuVars, pcb, instruccion, fisicas,
                    pid_solicita_recurso, interrupcion, socketVars, nucleoVars, redujo >>

\* The CPU process is gone, or every program has ended.
Quieta ==
    /\ cpu = "muerto" \/ \A p \in Proceso : situacion[p] \in {"EXIT", "pedido"}
    /\ UNCHANGED vars

Next ==
    \/ cpu # "muerto" /\ Nucleo
    \/ cpu # "muerto" /\ PasoMemoria
    \/ cpu # "muerto" /\ PasoCiclo
    \/ cpu # "muerto" /\ PasoInterrupcion
    \/ cpu # "muerto" /\ Carrera
    \/ Quieta

Spec == Init /\ [][Next]_vars

-----------------------------------------------------------------------------

TypeOKMaquina ==
    /\ procesos \subseteq Proceso /\ confirmados \subseteq Proceso
    /\ paginas \in [Proceso -> Seq(Marcos)]
    /\ frame_bitarray \subseteq Marcos /\ pisado \in BOOLEAN
    /\ byte \in [HilosMemoria -> SUBSET Marcos]
    /\ indice \in 0 .. max_bit /\ faltan \in Nat
    /\ tlb \in Seq(Entrada) /\ reloj \in 0 .. MaxReloj
    /\ pcb \in Proceso \cup {0} /\ pid_solicita_recurso \in Proceso \cup {0}
    /\ interrupcion \in Interrupciones \cup {CLEAR_INTERRUPT}
    /\ despachados \in Seq(Proceso)
    /\ \A k \in 1 .. Len(contextos) :
          contextos[k].pid \in Proceso /\ contextos[k].op \in OpsContexto
    /\ ordenes_interrupcion \in Seq(Interrupciones)
    /\ situacion \in [Proceso -> Situaciones]

\* Each pcb the CPU receives is answered with one context and no more, by
\* whichever of the ways out of the cycle (servers.c:66-88): two of them for
\* one pcb, and the kernel's handler would take the second for that of the
\* next process it dispatches.
UnContexto ==
    Len(despachados) + Len(contextos)
        + Cardinality({ c \in {cpu} : c # "espera" })
        = Cardinality({ p \in Proceso : situacion[p] = "EXEC" })

\* The processes that have frame m in their page table, page by page.
Usos(m) == { u \in Proceso \X (1 .. max_bit) :
                u[2] <= Len(paginas[u[1]]) /\ paginas[u[1]][u[2]] = m }

\* The frames whose bit and page table entry do not agree yet.
PorMarcar == IF hilo["cpu"] = "marca" THEN {indice} ELSE {}

\* As long as no two bit operations of the two threads have overlapped, the
\* bitmap is exact: a frame whose bit is set belongs to one page of one
\* process, one that is clear to none.  Nothing is lost when a process ends,
\* and pages that OUT_OF_MEMORY left assigned go back too.
MapaExacto ==
    ~ pisado =>
        \A m \in Marcos :
            Cardinality(Usos(m)) =
                Cardinality({m} \cap (frame_bitarray \cup PorMarcar))

\* "Devuelve false si el frame no esta asignado" (memoria/src/main.c:196): a
\* bit that is clear is that of a frame no process has.
LibreSinDueno ==
    \A m \in Marcos : m \notin frame_bitarray \cup PorMarcar => Usos(m) = {}

\* What the TLB says of a process in the CPU is what its page table says,
\* unless the process gave pages back, by a RESIZE or because FINALIZAR_PROCESO
\* released them while it goes on: nothing else changes the frame of a page,
\* and pids are not used again.
TLBVigente ==
    \A k \in 1 .. Len(tlb) :
        situacion[tlb[k].pid] # "EXIT" /\ tlb[k].pid \notin redujo =>
            /\ tlb[k].pagina < Len(paginas[tlb[k].pid])
            /\ tlb[k].marco = paginas[tlb[k].pid][tlb[k].pagina + 1]

\* The TLB has no more entries than configured and no page twice.
TLBSinRepetidos ==
    /\ Len(tlb) <= cantidad_entradas
    /\ \A j, k \in 1 .. Len(tlb) :
          Coincide(tlb[j], tlb[k].pid, tlb[k].pagina) => j = k

\* The bytes at physical address dir are in a frame of p.
DeP(p, dir) == dir \div TamPagina \in ToSet(paginas[p])

\* A process reaches no frame but its own, through the CPU, the TLB, or an
\* interface that uses the memory on its behalf later: the memory checks
\* only the end of the memory (main.c:248 and 263).  Processes that gave
\* pages back are not covered, since their entries stay in the TLB, nor those
\* that FINALIZAR_PROCESO ended while an interface worked for them, or did not
\* find (consola.c:180-197): these go on, to an interface too, with frames that
\* may be of others by then.
AccesoPropio ==
    /\ pcb # 0 /\ pcb \notin redujo =>
          \A k \in 1 .. Len(fisicas) : DeP(pcb, fisicas[k])
    /\ \A p \in Proceso \ redujo : situacion[p] = "BLOCKED" =>
          \A k \in 1 .. Len(io[p].dirs) : DeP(p, io[p].dirs[k])

\* The CPU dies only of a program that uses a page it does not have
\* (mmu.c:46), or of FINALIZAR_PROCESO: of a process that it did not find, whose
\* memory is released under it (instruccion.c:325, mmu.c:46); of the answer to
\* a RESIZE of one, which the next fetch of anybody reads the rest of; or, once
\* one was ended in NEW, of one that was admitted before it was created.
MuerteConocida ==
    cpu = "muerto" =>
        \/ /\ Len(fisicas) < Len(instruccion.dirs)
           /\ Pagina(instruccion.dirs[Len(fisicas) + 1]) >= Len(paginas[pcb])
        \/ pcb \in enVuelo
        \/ respuesta = "resto" /\ enVuelo # {}
        \/ sobra /\ pcb \notin confirmados

-----------------------------------------------------------------------------
(* What these rest on: an invariant each step preserves.                    *)

EtapasKernel == {"libre", "libera", "limpia"}
EtapasCPU == {"libre", "asigna", "marca", "reduce", "descarta"}
EtapasCiclo == { "espera", "pend_usuario", "pend_quantum", "limpia", "fetch",
                 "decode", "resize", "ve_usuario", "ve_quantum", "muerto" }
PedidoMemoria == [op : {"MEMORY_PROCESS_CREATE", "MEMORY_PROCESS_TERM"}, pid : Proceso]
Confirmaciones == {"MEMORY_PROCESS_CREATE", "MEMORY_INVALID_PATH"}
Contexto == [pid : Proceso, op : OpsContexto, fisicas : Seq(Nat), tam : Nat]
Acceso == [dirs : Seq(Nat), tam : Nat]

\* The types, with those of the places where a thread stands.
TiposMaquina ==
    /\ TypeOKMaquina
    /\ hilo \in [HilosMemoria -> EtapasKernel \cup EtapasCPU]
    /\ hilo["kernel"] \in EtapasKernel /\ hilo["cpu"] \in EtapasCPU
    /\ sirve \in [HilosMemoria -> Proceso \cup {0}]
    /\ respuesta \in {"ninguna", "OK", "OUT_OF_MEMORY", "resto"}
    /\ confirmaciones \in Seq(Confirmaciones) /\ nuevos \in Seq(Proceso)
    /\ pedidos_kernel \in Seq(PedidoMemoria) /\ contextos \in Seq(Contexto)
    /\ cpu \in EtapasCiclo
    /\ instruccion \in Instruccion /\ fisicas \in Seq(Nat)
    /\ io \in [Proceso -> Acceso]
    /\ ordenes \in Nat /\ sobra \in BOOLEAN
    /\ redujo \subseteq Proceso /\ enVuelo \subseteq redujo

\* Who is in EXEC is a pcb on its way to the CPU, or runs, or is a context on its
\* way back, and nobody else is.
UnTurno ==
    \/ /\ \A p \in Proceso : situacion[p] # "EXEC"
       /\ despachados = << >> /\ contextos = << >> /\ cpu = "espera" /\ pcb = 0
    \/ \E x \in Proceso :
          /\ \A p \in Proceso : situacion[p] = "EXEC" <=> p = x
          /\ \/ /\ despachados = << x >> /\ contextos = << >>
                /\ cpu = "espera" /\ pcb = 0
             \/ /\ despachados = << >> /\ contextos = << >>
                /\ cpu # "espera" /\ pcb = x
             \/ /\ despachados = << >> /\ Len(contextos) = 1
                /\ contextos[1].pid = x /\ cpu = "espera" /\ pcb = 0

\* A process whose memory may be released.
Soltado(p) == situacion[p] = "EXIT" \/ p \in enVuelo

\* The thread of the kernel frees a process that ended or was not found, that
\* of the CPU resizes the one that runs, which is another, and each finds the
\* pages it looks for.  The page whose bit is still to be set is the last one.
EnServicio ==
    /\ hilo["kernel"] # "libre" =>
          sirve["kernel"] \in Proceso /\ Soltado(sirve["kernel"])
    /\ hilo["kernel"] = "limpia" => paginas[sirve["kernel"]] # << >>
    /\ hilo["cpu"] # "libre" =>
          /\ cpu \in {"resize", "muerto"} /\ sirve["cpu"] = pcb
          /\ respuesta = "ninguna" /\ faltan > 0
          /\ ~ Trabaja("kernel", pcb)
    /\ respuesta = "resto" => cpu \notin {"decode", "resize"} /\ enVuelo # {}
    /\ cpu = "resize" => sirve["cpu"] = pcb
    /\ cpu \in {"decode", "resize"} => pcb \in confirmados
    /\ hilo["cpu"] \in {"reduce", "descarta"} => faltan <= Len(paginas[sirve["cpu"]])
    /\ hilo["cpu"] = "marca" =>
          /\ indice \in Marcos /\ paginas[sirve["cpu"]] # << >>
          /\ paginas[sirve["cpu"]][Len(paginas[sirve["cpu"]])] = indice

\* One request creates each process, which waits for it unless a confirmation
\* was over, and a process is freed only after its end, or when it was not
\* found.
EnEspera(p) == situacion[p] = "pedido" \/ (sobra /\ situacion[p] # "nuevo")
PedidosEnOrden ==
    \A k \in 1 .. Len(pedidos_kernel) :
        IF pedidos_kernel[k].op = "MEMORY_PROCESS_CREATE"
        THEN /\ EnEspera(pedidos_kernel[k].pid)
             /\ pedidos_kernel[k].pid \notin confirmados
             /\ \A j \in 1 .. Len(pedidos_kernel) :
                   pedidos_kernel[j] = pedidos_kernel[k] => j = k
        ELSE Soltado(pedidos_kernel[k].pid)

\* A process has no pages before it is created, and is in the dictionary from
\* then until it is released.
CreadosEnMemoria ==
    \A p \in Proceso :
        /\ p \notin confirmados =>
              /\ paginas[p] = << >> /\ p \notin procesos
              /\ situacion[p] = "nuevo" \/ EnEspera(p)
        /\ situacion[p] = "nuevo" => p \notin confirmados
        /\ p \in confirmados /\ ~ Soltado(p) => p \in procesos

\* Who is in NEW waits there once; and until one is ended there, the k-th
\* confirmation is that of the k-th of NEW, and the requests of the others are
\* in their order.
Pendiente(j, p) ==
    pedidos_kernel[j] = [op |-> "MEMORY_PROCESS_CREATE", pid |-> p]
NuevosEnOrden ==
    /\ \A j, k \in 1 .. Len(nuevos) : nuevos[j] = nuevos[k] => j = k
    /\ \A k \in 1 .. Len(nuevos) : situacion[nuevos[k]] = "pedido"
    /\ ~ sobra =>
          /\ Len(confirmaciones) <= Len(nuevos)
          /\ \A k \in 1 .. Len(confirmaciones) :
                confirmaciones[k] = "MEMORY_PROCESS_CREATE" => nuevos[k] \in confirmados
          /\ \A k \in 1 .. Len(nuevos) :
                k > Len(confirmaciones) <=>
                    \E j \in 1 .. Len(pedidos_kernel) : Pendiente(j, nuevos[k])
          /\ \A i, j \in 1 .. Len(pedidos_kernel), k, l \in 1 .. Len(nuevos) :
                i < j /\ Pendiente(i, nuevos[k]) /\ Pendiente(j, nuevos[l]) => k < l
          /\ \A j \in 1 .. Len(pedidos_kernel) :
                pedidos_kernel[j].op = "MEMORY_PROCESS_CREATE" =>
                    pedidos_kernel[j].pid \in ToSet(nuevos)

\* A frame is in one page of one process, or in none.
MarcosPropios ==
    \A p, q \in Proceso :
        \A i \in 1 .. Len(paginas[p]), j \in 1 .. Len(paginas[q]) :
            paginas[p][i] = paginas[q][j] => p = q /\ i = j

ConDueno(m) == \E p \in Proceso : \E i \in 1 .. Len(paginas[p]) : paginas[p][i] = m

BitsExactos ==
    ~ pisado =>
        /\ MarcosPropios
        /\ \A m \in Marcos : m \in frame_bitarray \cup PorMarcar <=> ConDueno(m)

\* AccesoPropio, and what a context carries to the kernel.  The cycle forgets
\* the addresses with the process they are of.
Propios(p, dirs) ==
    p \notin redujo => \A k \in 1 .. Len(dirs) : DeP(p, dirs[k])
AccesosPropios ==
    /\ IF pcb = 0 THEN fisicas = << >> ELSE Propios(pcb, fisicas)
    /\ \A k \in 1 .. Len(contextos) : Propios(contextos[k].pid, contextos[k].fisicas)
    /\ \A p \in Proceso : situacion[p] = "BLOCKED" => Propios(p, io[p].dirs)

InvarianteMaquina ==
    /\ TiposMaquina /\ UnTurno /\ EnServicio
    /\ PedidosEnOrden /\ CreadosEnMemoria /\ NuevosEnOrden /\ BitsExactos
    /\ TLBSinRepetidos /\ TLBVigente
    /\ AccesosPropios /\ MuerteConocida
=============================================================================
