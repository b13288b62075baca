----------------------------- MODULE Conexiones -----------------------------
(***************************************************************************)
(* The sockets of the kernel and the modules at their other end: the       *)
(* memory (memoria/src/manejar_instrucciones.c), the CPU                    *)
(* (cpu/src/servers.c) and the dictionaries the interface threads share     *)
(* with the handler.  Of the other modules this one keeps only what the     *)
(* kernel can see: which processes the memory has, and one context for      *)
(* every pcb sent to the CPU.                                              *)
(***************************************************************************)
EXTENDS Recursos

CONSTANTS
    Llamadas,            \* the calls to the kernel that the programs make
    ProgramasFinitos,    \* bound: whether programs end after MaxContextos
    MaxContextos,        \* bound: contexts of one program before its EXIT
    MinAsignado,         \* bound: SIGNALs a program may do without a WAIT, < 0
    MaxAsignado          \* bound: instances one program asks for

Operaciones == { "FINALIZADO", "OUT_OF_MEMORY", "INTERRUPTED_BY_USER",
                 "DESALOJO_QUANTUM", "IO", "WAIT", "SIGNAL" }
OpsDeFin == { "FINALIZADO", "OUT_OF_MEMORY", "INTERRUPTED_BY_USER" }

\* An operation with the name in tokens[1] of its instruction.
Instruccion == [op : Operaciones, arg : Bloqueados \cup {Ninguno}]
Contexto == [pid : Pids, op : Operaciones, arg : Bloqueados \cup {Ninguno}]

ASSUME ProgramasPosibles ==
    /\ Llamadas \subseteq { c \in Instruccion :
          \/ c.op = "OUT_OF_MEMORY" /\ c.arg = Ninguno
          \/ c.op = "IO" /\ c.arg \in Interfaz \cup {Ninguno}
          \/ c.op \in {"WAIT", "SIGNAL"} /\ c.arg \in Recurso \cup {Ninguno} }
    /\ ProgramasFinitos \in BOOLEAN
    /\ MaxContextos \in Nat
    /\ MinAsignado \in Int /\ MaxAsignado \in Int
    /\ Ninguno \notin Bloqueados

VARIABLES
    pedidos,             \* kernel -> memory, CREATE and TERM in order
    confirmaciones,      \* memory -> kernel, one for each CREATE
    en_memoria,          \* the processes the memory knows
    enviados,            \* kernel -> CPU, pcbs on the dispatch socket
    recibidos,           \* CPU -> kernel, contexts on the dispatch socket
    ordenes,             \* kernel -> CPU, INTERRUPTED_BY_USER not yet seen
    presupuesto,         \* contexts each program may still return
    interfaces,          \* the keys of the dictionary interfaces
    instrucciones        \* the keys of the dictionary instrucciones

memVars == << pedidos, confirmaciones, en_memoria >>
cpuVars == << enviados, recibidos, ordenes, presupuesto >>
ioVars == << interfaces, instrucciones >>
conVars == << memVars, cpuVars, ioVars >>
kernelVars == << semVars, planVars, schedVars, recVars, ioVars, pc, caido >>

InitConexiones ==
    /\ pedidos = << >>
    /\ confirmaciones = << >>
    /\ en_memoria = {}
    /\ enviados = << >>
    /\ recibidos = << >>
    /\ ordenes = 0
    /\ presupuesto = [p \in Pids |-> MaxContextos]
    /\ interfaces = {}
    /\ instrucciones = {}

\* A thread reads the tokens that were stored for process p.  When they are no
\* longer in the dictionary they were freed: the bytes may still be there, or
\* what is read is wild and kills the kernel.  (A wrong name that kills nobody
\* at once would leave the process on a list no thread serves, and an
\* interface one post ahead of its queue; it counts as that death.)
LeeInstruccion(p) == caido' \in IF p \in instrucciones THEN {FALSE} ELSE BOOLEAN

-----------------------------------------------------------------------------
(* The memory answers every MEMORY_PROCESS_CREATE and no                   *)
(* MEMORY_PROCESS_TERM, in the order of the socket.                        *)

Pedido(op, p) == [op |-> op, pid |-> p]

MemoriaAtiende ==
    /\ pedidos # << >>
    /\ pedidos' = Tail(pedidos)
    /\ \/ /\ Head(pedidos).op = "MEMORY_PROCESS_CREATE"
          /\ en_memoria' = en_memoria \cup {Head(pedidos).pid}
          /\ confirmaciones' = Append(confirmaciones, "MEMORY_PROCESS_CREATE")
       \/ /\ Head(pedidos).op = "PATH_INEXISTENTE"
          /\ confirmaciones' = Append(confirmaciones, "MEMORY_INVALID_PATH")
          /\ UNCHANGED en_memoria
       \/ /\ Head(pedidos).op = "MEMORY_PROCESS_TERM"
          /\ en_memoria' = en_memoria \ {Head(pedidos).pid}
          /\ UNCHANGED confirmaciones
    /\ UNCHANGED << kernelVars, cpuVars >>

-----------------------------------------------------------------------------
(* The CPU: it takes a pcb, runs the program, and sends one context back.  *)
(* A process the memory does not know makes fetch() end the thread, and no *)
(* context ever comes.                                                     *)

\* The calls the program of process p may be at.
LlamadaPosible(p, c) ==
    /\ c \in Llamadas
    /\ c.op = "WAIT" /\ c.arg \in Recurso => asignados[p][c.arg] < MaxAsignado
    /\ c.op = "SIGNAL" /\ c.arg \in Recurso => asignados[p][c.arg] > MinAsignado

CPUDevuelve(op, arg) ==
    LET p == Head(enviados)
    IN  /\ enviados' = Tail(enviados)
        /\ recibidos' = Append(recibidos, [pid |-> p, op |-> op, arg |-> arg])

CPUTermina ==
    /\ enviados # << >>
    /\ Head(enviados) \in en_memoria
    /\ CPUDevuelve("FINALIZADO", Ninguno)
    /\ UNCHANGED << kernelVars, memVars, ordenes, presupuesto >>

\* Every context but the last counts against the budget of a finite program.
GastaPresupuesto(p) ==
    /\ ProgramasFinitos => presupuesto[p] > 0
    /\ presupuesto' = IF ProgramasFinitos
                      THEN [presupuesto EXCEPT ![p] = @ - 1]
                      ELSE presupuesto

CPULlama ==
    /\ enviados # << >>
    /\ Head(enviados) \in en_memoria
    /\ \E c \in Llamadas :
          /\ LlamadaPosible(Head(enviados), c)
          /\ CPUDevuelve(c.op, c.arg)
    /\ GastaPresupuesto(Head(enviados))
    /\ UNCHANGED << kernelVars, memVars, ordenes >>

\* The quantum thread's DESALOJO_QUANTUM reaches the CPU at any moment.
CPUDesaloja ==
    /\ ~ FIFO_modo
    /\ enviados # << >>
    /\ Head(enviados) \in en_memoria
    /\ CPUDevuelve("DESALOJO_QUANTUM", Ninguno)
    /\ GastaPresupuesto(Head(enviados))
    /\ UNCHANGED << kernelVars, memVars, ordenes >>

\* INTERRUPTED_BY_USER carries no pid: it hits whoever is running.
CPUInterrumpe ==
    /\ ordenes > 0
    /\ enviados # << >>
    /\ Head(enviados) \in en_memoria
    /\ CPUDevuelve("INTERRUPTED_BY_USER", Ninguno)
    /\ ordenes' = ordenes - 1
    /\ UNCHANGED << kernelVars, memVars, presupuesto >>

\* ciclo_instruccion clears the variable, a later order overwrites it.
CPUOlvidaOrden ==
    /\ ordenes > 0
    /\ ordenes' = ordenes - 1
    /\ UNCHANGED << kernelVars, memVars, enviados, recibidos, presupuesto >>
=============================================================================
