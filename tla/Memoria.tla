------------------------------- MODULE Memoria -------------------------------
(***************************************************************************)
(* The memory: memoria/src/main.c and memoria/src/manejar_instrucciones.c. *)
(* One thread serves the kernel, which creates and ends processes, another  *)
(* the CPU, which resizes them and reads their page tables.  Both change    *)
(* the bitmap of frames, with no lock: the bit operations load a byte and   *)
(* store it again.  What the user space holds is left out, which addresses  *)
(* may be used is not.                                                     *)
(***************************************************************************)
EXTENDS Integers, SequencesExt, FiniteSets

CONSTANTS
    Proceso,             \* the pids
    TamMemoria, TamPagina,   \* TAM_MEMORIA and TAM_PAGINA of memoria.config
    CharBit,             \* CHAR_BIT, the bits of a byte of the bitmap
    ConArchivo           \* the processes whose path the memory finds

ASSUME ParametrosMemoria ==
    /\ 0 \notin Proceso
    /\ TamPagina \in Nat \ {0} /\ CharBit \in Nat \ {0}
    /\ TamMemoria \in Nat /\ TamMemoria >= TamPagina
    /\ ConArchivo \subseteq Proceso

\* inicializar_memoria: whole bytes of bits, and at least one byte.
paginas_totales == TamMemoria \div TamPagina
bitarray_size == IF paginas_totales \div CharBit = 0 THEN 1
                 ELSE paginas_totales \div CharBit
max_bit == bitarray_size * CharBit
Marcos == 0 .. (max_bit - 1)

HilosMemoria == {"kernel", "cpu"}

VARIABLES
    procesos,            \* the keys of the dictionary procesos
    paginas,             \* proceso->paginas, the frame of each page
    frame_bitarray,      \* the frames whose bit is set
    pisado,              \* history: a store wrote back a byte that had changed
    pedidos_kernel,      \* kernel -> memory, in order
    confirmados,         \* history: the processes that were created
    confirmaciones,      \* memory -> kernel, with no pid
    hilo,                \* where each thread stands
    sirve,               \* the process each thread works for
    byte,                \* the bits of the byte each thread has loaded
    indice,              \* the loop of asignar_paginas: the next bit to test
    faltan,              \* the pages still to assign, or to take
    respuesta            \* of RESIZE to the CPU, or the rest of a longer one

bitVars == << frame_bitarray, pisado >>
confVars == << confirmados, confirmaciones >>
memoriaVars == << procesos, paginas, bitVars, pedidos_kernel, confVars,
                  hilo, sirve, byte, indice, faltan, respuesta >>

InitMemoria ==
    /\ procesos = {}
    /\ paginas = [p \in Proceso |-> << >>]
    /\ frame_bitarray = {}
    /\ pisado = FALSE
    /\ pedidos_kernel = << >>
    /\ confirmados = {}
    /\ confirmaciones = << >>
    /\ hilo = [h \in HilosMemoria |-> "libre"]
    /\ sirve = [h \in HilosMemoria |-> 0]
    /\ byte = [h \in HilosMemoria |-> {}]
    /\ indice = 0
    /\ faltan = 0
    /\ respuesta = "ninguna"

PasaA(h, l) == hilo' = [hilo EXCEPT ![h] = l]

\* The frames whose bits share a byte with that of m.
ByteDe(m) == { x \in Marcos : x \div CharBit = m \div CharBit }

\* bitarray_set_bit and bitarray_clean_bit: the byte is loaded...
CargaByte(h, m) ==
    byte' = [byte EXCEPT ![h] = frame_bitarray \cap ByteDe(m)]

\* ...and stored, whatever was done to it in between.
GuardaByte(h, m, bits) ==
    /\ frame_bitarray' = (frame_bitarray \ ByteDe(m)) \cup bits
    /\ pisado' = (pisado \/ byte[h] # frame_bitarray \cap ByteDe(m))
    /\ byte' = [byte EXCEPT ![h] = {}]

Limpia(h, m) == GuardaByte(h, m, byte[h] \ {m})

\* A thread is in the middle of the pages of p.
Trabaja(h, p) == hilo[h] # "libre" /\ sirve[h] = p

-----------------------------------------------------------------------------
(* The thread of the kernel.                                               *)

\* instruccion_process_create: a path that is not there is answered so, and
\* the kernel exits when it reads that.
MemoriaCrea ==
    /\ hilo["kernel"] = "libre"
    /\ pedidos_kernel # << >>
    /\ Head(pedidos_kernel).op = "MEMORY_PROCESS_CREATE"
    /\ LET p == Head(pedidos_kernel).pid
       IN  IF p \in ConArchivo
           THEN /\ procesos' = procesos \cup {p}
                /\ paginas' = [paginas EXCEPT ![p] = << >>]
                /\ confirmados' = confirmados \cup {p}
                /\ confirmaciones' = Append(confirmaciones, "MEMORY_PROCESS_CREATE")
           ELSE /\ UNCHANGED << procesos, paginas, confirmados >>
                /\ confirmaciones' = Append(confirmaciones, "MEMORY_INVALID_PATH")
    /\ pedidos_kernel' = Tail(pedidos_kernel)
    /\ UNCHANGED << bitVars, hilo, sirve, byte, indice, faltan, respuesta >>

\* instruccion_process_terminate and liberar_proceso: nothing is done for a
\* process that is not there; the pages of the other go one by one.  When the
\* thread of the CPU is in the middle of them nothing is known of what follows:
\* that is Carrera, in Maquina.
MemoriaTermina ==
    /\ hilo["kernel"] = "libre"
    /\ pedidos_kernel # << >>
    /\ Head(pedidos_kernel).op = "MEMORY_PROCESS_TERM"
    /\ LET p == Head(pedidos_kernel).pid
       IN  IF p \in procesos
           THEN /\ ~ Trabaja("cpu", p)
                /\ sirve' = [sirve EXCEPT !["kernel"] = p]
                /\ PasaA("kernel", "libera")
           ELSE UNCHANGED << sirve, hilo >>
    /\ pedidos_kernel' = Tail(pedidos_kernel)
    /\ UNCHANGED << procesos, paginas, bitVars, confVars, byte, indice,
                    faltan, respuesta >>

MemoriaCargaParaLiberar ==
    /\ hilo["kernel"] = "libera"
    /\ paginas[sirve["kernel"]] # << >>
    /\ CargaByte("kernel", Head(paginas[sirve["kernel"]]))
    /\ PasaA("kernel", "limpia")
    /\ UNCHANGED << procesos, paginas, bitVars, pedidos_kernel, confVars,
                    sirve, indice, faltan, respuesta >>

MemoriaLiberaPagina ==
    /\ hilo["kernel"] = "limpia"
    /\ Limpia("kernel", Head(paginas[sirve["kernel"]]))
    /\ paginas' = [paginas EXCEPT ![sirve["kernel"]] = Tail(@)]
    /\ PasaA("kernel", "libera")
    /\ UNCHANGED << procesos, pedidos_kernel, confVars, sirve, indice,
                    faltan, respuesta >>

MemoriaOlvidaProceso ==
    /\ hilo["kernel"] = "libera"
    /\ paginas[sirve["kernel"]] = << >>
    /\ procesos' = procesos \ {sirve["kernel"]}
    /\ sirve' = [sirve EXCEPT !["kernel"] = 0]
    /\ PasaA("kernel", "libre")
    /\ UNCHANGED << paginas, bitVars, pedidos_kernel, confVars, byte, indice,
                    faltan, respuesta >>

HiloKernel ==
    \/ MemoriaCrea \/ MemoriaTermina \/ MemoriaCargaParaLiberar
    \/ MemoriaLiberaPagina \/ MemoriaOlvidaProceso

-----------------------------------------------------------------------------
(* The thread of the CPU.  What it answers from a single look at the       *)
(* dictionary is an operator of the CPU's step; a RESIZE is steps of its    *)
(* own, while the CPU waits.                                               *)

\* -1 when there is no such page.  A process that the memory does not know has
\* none: its answer is another, and the CPU exits for both.
SinMarco == 0 - 1
\* Mutant: the last page is refused.
AccedeDeMenos(p, n) ==
    IF n + 1 >= Len(paginas[p]) THEN SinMarco ELSE paginas[p][n + 1]

acceder_marco(p, n) ==
    IF n >= Len(paginas[p]) THEN SinMarco ELSE paginas[p][n + 1]

\* ceil(new_size / tam_pagina)
PaginasPara(tam) == (tam + TamPagina - 1) \div TamPagina

\* instruccion_process_resize of a process that is there...
MemoriaRedimensiona(p, tam) ==
    LET hay == Len(paginas[p])
        pide == PaginasPara(tam)
    IN  /\ sirve' = [sirve EXCEPT !["cpu"] = p]
        /\ indice' = 0
        /\ faltan' = IF pide > hay THEN pide - hay ELSE hay - pide
        /\ respuesta' = IF pide = hay THEN "OK" ELSE "ninguna"
        /\ PasaA("cpu", CASE pide > hay -> "asigna"
                          [] pide < hay -> "reduce"
                          [] OTHER -> "libre")
        /\ UNCHANGED << procesos, paginas, bitVars, pedidos_kernel,
                        confVars, byte >>

\* ...and of one that is not: MEMORY_INVALID_PID in a packet, of which the CPU
\* reads the operation only (recibir_operacion, instruccion.c:416).
MemoriaDesconoce ==
    /\ respuesta' = "resto"
    /\ UNCHANGED << procesos, paginas, bitVars, pedidos_kernel, confVars, hilo,
                    sirve, byte, indice, faltan >>

\* asignar_paginas: the next bit is set, or the one found clear is taken.  The
\* pages assigned so far stay when the bits are over.
AsignaSaltea ==
    /\ hilo["cpu"] = "asigna"
    /\ indice \in frame_bitarray
    /\ indice' = indice + 1
    /\ UNCHANGED << procesos, paginas, bitVars, pedidos_kernel, confVars,
                    hilo, sirve, byte, faltan, respuesta >>

\* Mutant: the loop goes one bit too far.
EncuentraDeMas ==
    /\ hilo["cpu"] = "asigna"
    /\ indice \in (0 .. max_bit) \ frame_bitarray
    /\ paginas' = [paginas EXCEPT ![sirve["cpu"]] = Append(@, indice)]
    /\ CargaByte("cpu", indice)
    /\ PasaA("cpu", "marca")
    /\ UNCHANGED << procesos, bitVars, pedidos_kernel, confVars, sirve,
                    indice, faltan, respuesta >>

AsignaEncuentra ==
    /\ hilo["cpu"] = "asigna"
    /\ indice \in Marcos \ frame_bitarray
    /\ paginas' = [paginas EXCEPT ![sirve["cpu"]] = Append(@, indice)]
    /\ CargaByte("cpu", indice)
    /\ PasaA("cpu", "marca")
    /\ UNCHANGED << procesos, bitVars, pedidos_kernel, confVars, sirve,
                    indice, faltan, respuesta >>

\* Mutant: the bit is not set.
MarcaSinMarcar ==
    /\ hilo["cpu"] = "marca"
    /\ GuardaByte("cpu", indice, byte["cpu"])
    /\ indice' = indice + 1
    /\ faltan' = faltan - 1
    /\ PasaA("cpu", IF faltan = 1 THEN "libre" ELSE "asigna")
    /\ respuesta' = IF faltan = 1 THEN "OK" ELSE "ninguna"
    /\ UNCHANGED << procesos, paginas, pedidos_kernel, confVars, sirve >>

AsignaMarca ==
    /\ hilo["cpu"] = "marca"
    /\ GuardaByte("cpu", indice, byte["cpu"] \cup {indice})
    /\ indice' = indice + 1
    /\ faltan' = faltan - 1
    /\ PasaA("cpu", IF faltan = 1 THEN "libre" ELSE "asigna")
    /\ respuesta' = IF faltan = 1 THEN "OK" ELSE "ninguna"
    /\ UNCHANGED << procesos, paginas, pedidos_kernel, confVars, sirve >>

AsignaSinMarcos ==
    /\ hilo["cpu"] = "asigna"
    /\ indice = max_bit
    /\ respuesta' = "OUT_OF_MEMORY"
    /\ PasaA("cpu", "libre")
    /\ UNCHANGED << procesos, paginas, bitVars, pedidos_kernel, confVars,
                    sirve, byte, indice, faltan >>

\* The reduction takes pages from the end.
ReduceCarga ==
    /\ hilo["cpu"] = "reduce"
    /\ CargaByte("cpu", Last(paginas[sirve["cpu"]]))
    /\ PasaA("cpu", "descarta")
    /\ UNCHANGED << procesos, paginas, bitVars, pedidos_kernel, confVars,
                    sirve, indice, faltan, respuesta >>

ReducePagina ==
    /\ hilo["cpu"] = "descarta"
    /\ Limpia("cpu", Last(paginas[sirve["cpu"]]))
    /\ paginas' = [paginas EXCEPT ![sirve["cpu"]] = Front(@)]
    /\ faltan' = faltan - 1
    /\ PasaA("cpu", IF faltan = 1 THEN "libre" ELSE "reduce")
    /\ respuesta' = IF faltan = 1 THEN "OK" ELSE "ninguna"
    /\ UNCHANGED << procesos, pedidos_kernel, confVars, sirve, indice >>

HiloCPU ==
    \/ AsignaSaltea \/ AsignaEncuentra \/ AsignaMarca \/ AsignaSinMarcos
    \/ ReduceCarga \/ ReducePagina

\* The CPU takes the answer.
TomaRespuesta ==
    /\ respuesta # "ninguna"
    /\ respuesta' = "ninguna"
    /\ sirve' = [sirve EXCEPT !["cpu"] = 0]
    /\ indice' = 0 /\ faltan' = 0
    /\ UNCHANGED << procesos, paginas, bitVars, pedidos_kernel, confVars,
                    hilo, byte >>
=============================================================================
