------------------------------- MODULE Consola -------------------------------
(***************************************************************************)
(* The console: kernel/src/consola.c.  One thread reads commands and runs  *)
(* each to its end.                                                        *)
(***************************************************************************)
EXTENDS Conexiones

CONSTANTS
    Comandos,            \* the commands besides INICIAR_PROCESO that are given
    MaxComandos,         \* bound: how many of them, resuming apart
    Grados               \* the values given to MULTIPROGRAMACION

ASSUME ComandosPosibles ==
    /\ Comandos \subseteq { "PATH_INEXISTENTE", "FINALIZAR_PROCESO",
                            "DETENER_PLANIFICACION", "MULTIPROGRAMACION" }
    /\ MaxComandos \in Nat
    /\ Grados \subseteq Nat \ {0}

VARIABLES
    numero_de_procesos,
    pid_a_finalizar,
    nuevo_grado,         \* the argument of MULTIPROGRAMACION
    dados                \* commands given so far

consVars == << numero_de_procesos, pid_a_finalizar, nuevo_grado, dados >>

\* A command of the bounded ones is read.
Lee(c) ==
    /\ En("consola", "comando")
    /\ c \in Comandos
    /\ dados < MaxComandos
    /\ dados' = dados + 1

-----------------------------------------------------------------------------
(* INICIAR_PROCESO: the memory is asked to create it, the process enters    *)
(* NEW, and only then gets its dictionary of resources.                     *)

PideCreacion(op) ==
    /\ numero_de_procesos < MaxProcesos
    /\ numero_de_procesos' = numero_de_procesos + 1
    /\ mano' = [mano EXCEPT !["consola"] = numero_de_procesos']
    /\ pedidos' = Append(pedidos, Pedido(op, numero_de_procesos'))
    /\ Sigue("consola", "a_new")
    /\ UNCHANGED << semVars, planVars, colas, huerfana, claves,
                    proceso_ejecutando, estado, recVars, confirmaciones,
                    en_memoria, cpuVars, ioVars, caido, pid_a_finalizar,
                    nuevo_grado >>

IniciarProceso ==
    /\ En("consola", "comando")
    /\ PideCreacion("MEMORY_PROCESS_CREATE")
    /\ UNCHANGED dados

IniciarProcesoSinPath ==
    /\ Lee("PATH_INEXISTENTE")
    /\ PideCreacion("PATH_INEXISTENTE")

\* proceso_a_cola_new, and its signal to the long term scheduler.
ProcesoAColaNew ==
    /\ En("consola", "a_new")
    /\ Pone("consola", "new", "NEW")
    /\ pc' = [pc EXCEPT !["consola"] = "dicc_nuevo",
                        !["largo"] = IF @ = "cond_new" THEN "despierta" ELSE @]
    /\ UNCHANGED << semVars, planVars, recVars, conVars, caido, consVars >>

ConsolaInicializaRecursos ==
    /\ En("consola", "dicc_nuevo")
    /\ InicializarRecursosProceso(numero_de_procesos)
    /\ Sigue("consola", "comando")
    /\ UNCHANGED << semVars, planVars, schedVars, conVars, caido, consVars >>

-----------------------------------------------------------------------------
(* DETENER_PLANIFICACION and INICIAR_PLANIFICACION: the flag has no lock.   *)

DetenerPlanificacion ==
    /\ Lee("DETENER_PLANIFICACION")
    /\ estado_planificacion_activa' = FALSE
    /\ UNCHANGED << semVars, cantidad_procesos_ejecutandose,
                    grado_multiprogramacion, tiempoVRR, schedVars, recVars,
                    conVars, pc, caido, numero_de_procesos, pid_a_finalizar,
                    nuevo_grado >>

\* Mutant: the interfaces get no post.
ReanudaSinInterfaces ==
    /\ En("consola", "comando")
    /\ ~ estado_planificacion_activa
    /\ estado_planificacion_activa' = TRUE
    /\ sem_comando' = [h \in Pausables |->
          sem_comando[h] + (IF h \in HilosFijos THEN 1 ELSE 0)]
    /\ UNCHANGED << sem_dispatch, sem_interrupcion, sem_multiprogramacion_ready,
                    sem_hay_encolado_VRR, sem_IO_ejecucion,
                    cantidad_procesos_ejecutandose, grado_multiprogramacion,
                    tiempoVRR, schedVars, recVars, conVars, pc, caido,
                    consVars >>

\* Every thread gets a post, stopped or not.
IniciarPlanificacion ==
    /\ En("consola", "comando")
    /\ ~ estado_planificacion_activa
    /\ estado_planificacion_activa' = TRUE
    /\ sem_comando' = [h \in Pausables |->
          sem_comando[h] + (IF h \in HilosFijos \cup interfaces THEN 1 ELSE 0)]
    /\ UNCHANGED << sem_dispatch, sem_interrupcion, sem_multiprogramacion_ready,
                    sem_hay_encolado_VRR, sem_IO_ejecucion,
                    cantidad_procesos_ejecutandose, grado_multiprogramacion,
                    tiempoVRR, schedVars, recVars, conVars, pc, caido,
                    consVars >>

-----------------------------------------------------------------------------
(* MULTIPROGRAMACION: raising the degree posts the difference; lowering it  *)
(* takes no token back.                                                    *)

Multiprogramacion ==
    /\ Lee("MULTIPROGRAMACION")
    /\ \E g \in Grados :
          /\ nuevo_grado' = g
          /\ sem_multiprogramacion_ready' = sem_multiprogramacion_ready +
                (IF g > grado_multiprogramacion
                 THEN g - grado_multiprogramacion ELSE 0)
    /\ Sigue("consola", "grado")
    /\ UNCHANGED << sem_dispatch, sem_interrupcion, sem_hay_encolado_VRR,
                    sem_IO_ejecucion, sem_comando, planVars, schedVars,
                    recVars, conVars, caido, numero_de_procesos,
                    pid_a_finalizar >>

CambiaGrado ==
    /\ En("consola", "grado")
    /\ grado_multiprogramacion' = nuevo_grado
    /\ Sigue("consola", "comando")
    /\ UNCHANGED << semVars, estado_planificacion_activa,
                    cantidad_procesos_ejecutandose, tiempoVRR, schedVars,
                    recVars, conVars, caido, consVars >>

-----------------------------------------------------------------------------
(* FINALIZAR_PROCESO: an order to the CPU when the process is in EXEC; else *)
(* it is looked for in one queue after another, each under its own mutex.   *)

FinalizarProceso ==
    /\ Lee("FINALIZAR_PROCESO")
    /\ \E p \in 1 .. numero_de_procesos :
          /\ estado[p] # "EXIT"
          /\ pid_a_finalizar' = p
    /\ Sigue("consola", "fin_exec")
    /\ UNCHANGED << semVars, planVars, schedVars, recVars, conVars, caido,
                    numero_de_procesos, nuevo_grado >>

FinalizarEnExec ==
    /\ En("consola", "fin_exec")
    /\ \/ /\ proceso_ejecutando = pid_a_finalizar
          /\ ordenes' = ordenes + 1
          /\ Sigue("consola", "comando")
       \/ /\ proceso_ejecutando # pid_a_finalizar
          /\ Sigue("consola", "fin_new")
          /\ UNCHANGED ordenes
    /\ UNCHANGED << semVars, planVars, schedVars, recVars, memVars, ioVars,
                    enviados, recibidos, presupuesto, caido, consVars >>

\* The queues in the order they are looked at.
Etapas == << "new", "ready", "aux", "blocked" >>
EtapaFin(k) == << "fin_new", "fin_ready", "fin_aux", "fin_blocked" >>[k]
EtapaExit(k) == << "exit_new", "exit_ready", "exit_aux", "exit_blocked" >>[k]
Siguiente(k) == IF k = 4 THEN "fin_mem" ELSE EtapaFin(k + 1)
ColasDeEtapa(k) == IF k = 4 THEN claves ELSE {Etapas[k]}

SinPrimero(s) == IF s = << >> THEN s ELSE Tail(s)

\* Mutant: the process stays where it was found.
SoloSaca(s, p) == IF Contains(s, p) THEN SinPrimero(s) ELSE s

\* Where p is in s: no process is twice in a queue.
Posicion(s, p) == CHOOSE k \in 1 .. Len(s) : s[k] = p

\* list_remove_by_condition, and the list_pop of proceso_a_exit.
QuitaYSaca(s, p) == SinPrimero(RemoveAt(s, Posicion(s, p)))

\* remover_proceso_diccionario drops the instruction once it sees the queue
\* of an interface, whoever is in it.
BorraInstruccion(k) ==
    instrucciones' = IF k = 4 /\ claves \cap interfaces # {}
                     THEN instrucciones \ {pid_a_finalizar} ELSE instrucciones

\* Mutant: also for one that was never admitted.
DevuelveAunqueNuevo(p) == DevuelveCupo

\* proceso_a_exit gives the token back of a process that had one.
DevuelveDe(p) == IF estado[p] # "NEW" THEN DevuelveCupo
                 ELSE UNCHANGED sem_multiprogramacion_ready

\* The process is removed from its queue, and proceso_a_exit pops the queue
\* once more: whoever was first is dropped.
FinalizarEncuentra(k) ==
    /\ En("consola", EtapaFin(k))
    /\ \A q \in ColasDeEtapa(k) : Libre("consola", q)
    /\ \E q \in ColasDeEtapa(k) :
          /\ Contains(colas[q], pid_a_finalizar)
          /\ colas' = [colas EXCEPT ![q] = QuitaYSaca(@, pid_a_finalizar)]
    /\ mano' = [mano EXCEPT !["consola"] = pid_a_finalizar]
    /\ DevuelveDe(pid_a_finalizar)
    /\ BorraInstruccion(k)
    /\ Sigue("consola", EtapaExit(k))
    /\ UNCHANGED << sem_dispatch, sem_interrupcion, sem_hay_encolado_VRR,
                    sem_IO_ejecucion, sem_comando, planVars, huerfana, claves,
                    proceso_ejecutando, estado, recVars, memVars, cpuVars,
                    interfaces, caido, consVars >>

FinalizarNoEncuentra(k) ==
    /\ En("consola", EtapaFin(k))
    /\ \A q \in ColasDeEtapa(k) : Libre("consola", q)
    /\ \A q \in ColasDeEtapa(k) : ~ Contains(colas[q], pid_a_finalizar)
    /\ BorraInstruccion(k)
    /\ Sigue("consola", Siguiente(k))
    /\ UNCHANGED << semVars, planVars, schedVars, recVars, memVars, cpuVars,
                    interfaces, caido, consVars >>

\* The rest of proceso_a_exit, with the mutex of the queue still held.
FinalizarAExit(k) ==
    /\ En("consola", EtapaExit(k))
    /\ cantidad_procesos_ejecutandose' = cantidad_procesos_ejecutandose -
          (IF estado[pid_a_finalizar] # "NEW" THEN 1 ELSE 0)
    /\ Pone("consola", "exit", "EXIT")
    /\ Sigue("consola", Siguiente(k))
    /\ UNCHANGED << semVars, estado_planificacion_activa,
                    grado_multiprogramacion, tiempoVRR, recVars, conVars,
                    caido, consVars >>

FinalizarAvisaMemoria ==
    /\ En("consola", "fin_mem")
    /\ pedidos' =
          Append(pedidos, Pedido("MEMORY_PROCESS_TERM", pid_a_finalizar))
    /\ Sigue("consola", "lib_dicc")
    /\ UNCHANGED << semVars, planVars, schedVars, recVars, confirmaciones,
                    en_memoria, cpuVars, ioVars, caido, consVars >>

FinalizarLibera ==
    /\ LiberarRecursosDeProceso("consola", pid_a_finalizar, "comando")
    /\ UNCHANGED << conVars, consVars >>

Orden ==
    \/ IniciarProceso \/ IniciarProcesoSinPath \/ DetenerPlanificacion
    \/ IniciarPlanificacion \/ Multiprogramacion \/ FinalizarProceso

\* A command that was read goes on by itself.
Ejecuta ==
    \/ ProcesoAColaNew \/ ConsolaInicializaRecursos \/ CambiaGrado
    \/ FinalizarEnExec
    \/ \E k \in 1 .. 4 :
          FinalizarEncuentra(k) \/ FinalizarNoEncuentra(k) \/ FinalizarAExit(k)
    \/ FinalizarAvisaMemoria \/ FinalizarLibera
=============================================================================
