------------------------------- MODULE Kernel -------------------------------
(***************************************************************************)
(* The kernel process: its threads side by side, with the memory and the   *)
(* CPU at the other end of the sockets (kernel/src/main.c starts them all   *)
(* before the console reads its first command).                            *)
(***************************************************************************)
EXTENDS PlanificadorLargo, PlanificadorCorto, ManejoInterrupciones,
        ManejoInterfaces, Consola

otras == << tokens, pcb_io, consVars >>
vars == << semVars, planVars, pc, caido, schedVars, recVars, conVars, otras >>

Init ==
    /\ InitSemaforos /\ InitScheduler /\ InitRecursos /\ InitConexiones
    /\ pc = [h \in Hilos |-> CASE h = "consola" -> "comando"
                               [] h = "largo" -> "multi"
                               [] h = "corto" -> "dispatch"
                               [] h = "interr" -> "espera"
                               [] OTHER -> "desconectada"]
    /\ tokens = SinTokens
    /\ pcb_io = [i \in Interfaz |-> Nadie]
    /\ numero_de_procesos = 0
    /\ pid_a_finalizar = Nadie
    /\ nuevo_grado = GradoInicial
    /\ dados = 0

PasoLargo == ~ caido /\ Largo /\ UNCHANGED otras
PasoCorto == ~ caido /\ Corto /\ UNCHANGED otras
PasoInterr == ~ caido /\ Interr /\ UNCHANGED << pcb_io, consVars >>
PasoInterfaz(i) == ~ caido /\ Interf(i) /\ UNCHANGED << tokens, consVars >>
PasoOrden == ~ caido /\ Orden /\ UNCHANGED << tokens, pcb_io >>
PasoConsola == ~ caido /\ Ejecuta /\ UNCHANGED << tokens, pcb_io >>
PasoMemoria == ~ caido /\ MemoriaAtiende /\ UNCHANGED otras
PasoCPU ==
    /\ ~ caido
    /\ CPUTermina \/ CPULlama \/ CPUDesaloja \/ CPUInterrumpe
    /\ UNCHANGED otras
PasoOrdenPerdida == ~ caido /\ CPUOlvidaOrden /\ UNCHANGED otras

\* Every process that was created has ended and the console may stop: the
\* threads rest in their sem_wait.  Or the kernel process is gone.
TodosTerminaron ==
    /\ numero_de_procesos = MaxProcesos
    /\ En("consola", "comando")
    /\ Len(colas["exit"]) = MaxProcesos
Reposo ==
    /\ caido \/ TodosTerminaron
    /\ UNCHANGED vars

Next ==
    \/ PasoLargo \/ PasoCorto \/ PasoInterr
    \/ \E i \in Interfaz : PasoInterfaz(i)
    \/ PasoOrden \/ PasoConsola
    \/ PasoMemoria \/ PasoCPU \/ PasoOrdenPerdida
    \/ Reposo

Spec == Init /\ [][Next]_vars

\* Every thread that can run does, the memory answers, and every program
\* reaches its next call to the kernel.  No command need ever be given.
Equidad ==
    /\ WF_vars(PasoLargo) /\ WF_vars(PasoCorto) /\ WF_vars(PasoInterr)
    /\ \A i \in Interfaz : WF_vars(PasoInterfaz(i))
    /\ WF_vars(PasoConsola) /\ WF_vars(PasoMemoria) /\ WF_vars(PasoCPU)

SpecJusta == Spec /\ Equidad
=============================================================================
