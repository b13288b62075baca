--------------------------------- MODULE Cpu ---------------------------------
(***************************************************************************)
(* The instruction cycle of the CPU: cpu/src/servers.c and                 *)
(* cpu/src/instruccion.c.  One thread runs the process it is sent, another  *)
(* writes what the kernel's interrupt socket brings into one variable.      *)
(* Registers and program counters are left out: after any instruction the   *)
(* program may be at any other.                                            *)
(***************************************************************************)
EXTENDS Mmu

CONSTANT Instrucciones   \* what the programs are made of

\* A decoded instruction: the logical addresses it has translated, the bytes
\* it uses at each, or the size it asks for.
OpsCPU == {"CALCULO", "MOV", "COPY_STRING", "RESIZE", "WAIT", "SIGNAL", "IO",
           "EXIT"}
Instruccion == [op : OpsCPU, dirs : Seq(Nat), tam : Nat]
ASSUME InstruccionesPosibles == Instrucciones \subseteq Instruccion

CLEAR_INTERRUPT == "nada"
Interrupciones == {"INTERRUPTED_BY_USER", "DESALOJO_QUANTUM"}
OpsContexto == Interrupciones \cup
               {"FINALIZADO", "OUT_OF_MEMORY", "WAIT", "SIGNAL", "IO"}

VARIABLES
    cpu,                 \* where the thread of the cycle stands
    pcb,                 \* the process it runs
    instruccion, fisicas,    \* the instruction, and its physical addresses
    interrupcion,        \* the variable both threads share
    pid_solicita_recurso,
    despachados,         \* kernel -> CPU, pcbs
    contextos,           \* CPU -> kernel
    ordenes_interrupcion \* kernel -> CPU, on the interrupt socket

cicloVars == << cpu, pcb, instruccion, fisicas, pid_solicita_recurso >>
socketVars == << despachados, contextos, ordenes_interrupcion >>
cpuVars == << cicloVars, interrupcion, socketVars >>

SinInstruccion == [op |-> "CALCULO", dirs |-> << >>, tam |-> 0]

InitCpu ==
    /\ cpu = "espera"
    /\ pcb = 0
    /\ instruccion = SinInstruccion
    /\ fisicas = << >>
    /\ interrupcion = CLEAR_INTERRUPT
    /\ pid_solicita_recurso = 0
    /\ despachados = << >>
    /\ contextos = << >>
    /\ ordenes_interrupcion = << >>

\* hilo_interrupcion: the last order wins, seen or not.
InterrupcionLlega ==
    /\ ordenes_interrupcion # << >>
    /\ interrupcion' = Head(ordenes_interrupcion)
    /\ ordenes_interrupcion' = Tail(ordenes_interrupcion)
    /\ UNCHANGED << cicloVars, despachados, contextos, mmuVars, memoriaVars >>

Olvida == instruccion' = SinInstruccion /\ fisicas' = << >>

\* enviar_contexto, after which the cycle waits for another pcb.
Responde(op) ==
    /\ contextos' = Append(contextos, [pid |-> pcb, op |-> op,
                                       fisicas |-> fisicas, tam |-> instruccion.tam])
    /\ cpu' = "espera"
    /\ pcb' = 0
    /\ Olvida
    /\ UNCHANGED << despachados, ordenes_interrupcion >>

\* Mutant: the process is not marked EXIT, and the cycle goes on.
RespondeYSigue(op) ==
    /\ contextos' = Append(contextos, [pid |-> pcb, op |-> op,
                                       fisicas |-> fisicas, tam |-> instruccion.tam])
    /\ cpu' = "ve_usuario"
    /\ Olvida
    /\ UNCHANGED << pcb, despachados, ordenes_interrupcion >>

SinMemoriaSigue == RespondeYSigue("OUT_OF_MEMORY")

\* resize: without memory the process is marked EXIT, which ends the cycle.
RespondeSinMemoria == Responde("OUT_OF_MEMORY")

-----------------------------------------------------------------------------
(* hilo_ciclo_instruccion.  A process that comes back from the kernel after *)
(* a WAIT or SIGNAL has its pending interruption answered first.            *)

CPURecibe ==
    /\ cpu = "espera"
    /\ despachados # << >>
    /\ pcb' = Head(despachados)
    /\ despachados' = Tail(despachados)
    /\ IF pcb' = pid_solicita_recurso
       THEN cpu' = "pend_usuario" /\ UNCHANGED pid_solicita_recurso
       ELSE cpu' = "limpia" /\ pid_solicita_recurso' = 0
    /\ UNCHANGED << instruccion, fisicas, interrupcion, contextos,
                    ordenes_interrupcion, mmuVars, memoriaVars >>

CPUPendUsuario ==
    /\ cpu = "pend_usuario"
    /\ IF interrupcion = "INTERRUPTED_BY_USER"
       THEN Responde("INTERRUPTED_BY_USER") /\ pid_solicita_recurso' = 0
       ELSE /\ cpu' = "pend_quantum"
            /\ UNCHANGED << pcb, instruccion, fisicas, pid_solicita_recurso,
                            socketVars >>
    /\ UNCHANGED << interrupcion, mmuVars, memoriaVars >>

CPUPendQuantum ==
    /\ cpu = "pend_quantum"
    /\ pid_solicita_recurso' = 0
    /\ IF interrupcion = "DESALOJO_QUANTUM"
       THEN Responde("DESALOJO_QUANTUM")
       ELSE /\ cpu' = "limpia"
            /\ UNCHANGED << pcb, instruccion, fisicas, socketVars >>
    /\ UNCHANGED << interrupcion, mmuVars, memoriaVars >>

\* ciclo_instruccion begins by forgetting what came before.
CPULimpia ==
    /\ cpu = "limpia"
    /\ interrupcion' = CLEAR_INTERRUPT
    /\ cpu' = "fetch"
    /\ UNCHANGED << pcb, instruccion, fisicas, pid_solicita_recurso, socketVars,
                    mmuVars, memoriaVars >>

\* The memory answers with the next instruction; a process it does not know
\* ends the thread, and so does what a RESIZE left in the socket.
Atendido == pcb \in procesos /\ respuesta # "resto"
CPUFetch ==
    /\ cpu = "fetch"
    /\ IF Atendido
       THEN cpu' = "decode" /\ instruccion' \in Instrucciones
       ELSE cpu' = "muerto" /\ UNCHANGED instruccion
    /\ UNCHANGED << pcb, fisicas, pid_solicita_recurso, interrupcion, socketVars,
                    mmuVars, memoriaVars >>

\* decode translates the addresses of the instruction one after another; a
\* page the process does not have, or a process that the memory does not, ends
\* the CPU process.
CPUDecode ==
    /\ cpu = "decode"
    /\ Len(fisicas) < Len(instruccion.dirs)
    /\ LET dir == instruccion.dirs[Len(fisicas) + 1]
       IN  /\ ActualizaTLB(pcb, Pagina(dir))
           /\ IF Marco(pcb, Pagina(dir)) = SinMarco
              THEN cpu' = "muerto" /\ UNCHANGED fisicas
              ELSE fisicas' = Append(fisicas, Fisica(pcb, dir)) /\ UNCHANGED cpu
    /\ UNCHANGED << pcb, instruccion, pid_solicita_recurso, interrupcion,
                    socketVars, memoriaVars >>

Decodificada == cpu = "decode" /\ Len(fisicas) = Len(instruccion.dirs)

-----------------------------------------------------------------------------
(* execute.                                                                *)

\* Registers, jumps and accesses: the memory accepts the accesses or not, and
\* the program goes on either way.
CPUEjecutaLocal ==
    /\ Decodificada
    /\ instruccion.op \in {"CALCULO", "MOV", "COPY_STRING"}
    /\ cpu' = "ve_usuario"
    /\ Olvida
    /\ UNCHANGED << pcb, pid_solicita_recurso, interrupcion, socketVars,
                    mmuVars, memoriaVars >>

CPUPideTamano ==
    /\ Decodificada
    /\ instruccion.op = "RESIZE"
    /\ pcb \in procesos /\ ~ Trabaja("kernel", pcb)
    /\ MemoriaRedimensiona(pcb, instruccion.tam)
    /\ cpu' = "resize"
    /\ UNCHANGED << pcb, instruccion, fisicas, pid_solicita_recurso,
                    interrupcion, socketVars, mmuVars >>

\* What is not OUT_OF_MEMORY counts as done.
CPUPideTamanoEnVano ==
    /\ Decodificada
    /\ instruccion.op = "RESIZE"
    /\ pcb \notin procesos
    /\ MemoriaDesconoce
    /\ cpu' = "ve_usuario"
    /\ Olvida
    /\ UNCHANGED << pcb, pid_solicita_recurso, interrupcion, socketVars, mmuVars >>

CPURedimensionada ==
    /\ cpu = "resize"
    /\ TomaRespuesta
    /\ IF respuesta = "OUT_OF_MEMORY" THEN RespondeSinMemoria
       ELSE cpu' = "ve_usuario" /\ Olvida /\ UNCHANGED << pcb, socketVars >>
    /\ UNCHANGED << pid_solicita_recurso, interrupcion, mmuVars >>

CPUSolicitaRecurso ==
    /\ Decodificada
    /\ instruccion.op \in {"WAIT", "SIGNAL"}
    /\ pid_solicita_recurso' = pcb
    /\ Responde(instruccion.op)
    /\ UNCHANGED << interrupcion, mmuVars, memoriaVars >>

CPUPideIO ==
    /\ Decodificada
    /\ instruccion.op = "IO"
    /\ Responde("IO")
    /\ UNCHANGED << pid_solicita_recurso, interrupcion, mmuVars, memoriaVars >>

CPUSale ==
    /\ Decodificada
    /\ instruccion.op = "EXIT"
    /\ Responde("FINALIZADO")
    /\ UNCHANGED << pid_solicita_recurso, interrupcion, mmuVars, memoriaVars >>

\* Two reads of the variable, in this order.
CPUVeUsuario ==
    /\ cpu = "ve_usuario"
    /\ IF interrupcion = "INTERRUPTED_BY_USER" THEN Responde("INTERRUPTED_BY_USER")
       ELSE cpu' = "ve_quantum"
            /\ UNCHANGED << pcb, instruccion, fisicas, socketVars >>
    /\ UNCHANGED << pid_solicita_recurso, interrupcion, mmuVars, memoriaVars >>

CPUVeQuantum ==
    /\ cpu = "ve_quantum"
    /\ IF interrupcion = "DESALOJO_QUANTUM" THEN Responde("DESALOJO_QUANTUM")
       ELSE cpu' = "fetch" /\ UNCHANGED << pcb, instruccion, fisicas, socketVars >>
    /\ UNCHANGED << pid_solicita_recurso, interrupcion, mmuVars, memoriaVars >>

CicloCPU ==
    \/ CPURecibe \/ CPUPendUsuario \/ CPUPendQuantum \/ CPULimpia
    \/ CPUFetch \/ CPUDecode \/ CPUEjecutaLocal
    \/ CPUPideTamano \/ CPUPideTamanoEnVano \/ CPURedimensionada
    \/ CPUSolicitaRecurso \/ CPUPideIO \/ CPUSale
    \/ CPUVeUsuario \/ CPUVeQuantum
=============================================================================
