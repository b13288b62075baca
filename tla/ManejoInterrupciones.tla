------------------------ MODULE ManejoInterrupciones ------------------------
(***************************************************************************)
(* The handler of the contexts the CPU returns:                            *)
(* kernel/src/manejo_interrupciones_cpu.c.  It moves the process in EXEC to *)
(* where the operation sends it and hands sem_dispatch back, or sends the   *)
(* same process to the CPU again.                                          *)
(***************************************************************************)
EXTENDS Conexiones

VARIABLE tokens          \* the operation and its argument being handled

SinTokens == [op |-> "FINALIZADO", arg |-> Ninguno]

\* The state the CPU left in the pcb it sends back.
EstadoDevuelto(op) ==
    CASE op \in OpsDeFin -> "EXIT"
      [] op = "IO" -> "BLOCKED"
      [] OTHER -> "EXEC"

\* In VRR the time in the CPU is read and its counter destroyed.  That of a
\* process that went on after a WAIT or SIGNAL already was: freed twice, the
\* kernel aborts or goes on.
DestruyeTiempo ==
    /\ tiempoVRR' = FALSE
    /\ caido' \in IF VRR_modo /\ ~ tiempoVRR THEN BOOLEAN ELSE {FALSE}

\* sem_interrupcion, the context, and actualizar_contexto_de_ejecucion: with
\* a pid other than the one in EXEC the kernel exits.
InterrRecibe ==
    /\ En("interr", "espera")
    /\ sem_interrupcion > 0
    /\ recibidos # << >>
    /\ sem_interrupcion' = sem_interrupcion - 1
    /\ recibidos' = Tail(recibidos)
    /\ tokens' = [op |-> Head(recibidos).op, arg |-> Head(recibidos).arg]
    /\ \/ /\ Head(recibidos).pid = proceso_ejecutando
          /\ estado' = [estado EXCEPT ![proceso_ejecutando] =
                            EstadoDevuelto(Head(recibidos).op)]
          /\ Sigue("interr", "activa")
          /\ DestruyeTiempo
       \/ /\ Head(recibidos).pid # proceso_ejecutando
          /\ caido' = TRUE
          /\ tiempoVRR' = FALSE
          /\ UNCHANGED << estado, pc >>
    /\ UNCHANGED << sem_dispatch, sem_multiprogramacion_ready,
                    sem_hay_encolado_VRR, sem_IO_ejecucion, sem_comando,
                    estado_planificacion_activa,
                    cantidad_procesos_ejecutandose, grado_multiprogramacion,
                    colas, huerfana, claves, proceso_ejecutando, mano, recVars,
                    memVars, ioVars, enviados, ordenes, presupuesto >>

\* The case of the switch each operation goes to.
Caso(t) ==
    CASE t.op \in OpsDeFin -> "fin_term"
      [] t.op = "DESALOJO_QUANTUM" -> "desaloja"
      [] t.op = "IO" -> "io"
      [] t.op \in {"WAIT", "SIGNAL"} ->
            IF t.arg \in Recurso THEN "asigna" ELSE "fin_term"

InterrActiva ==
    /\ En("interr", "activa")
    /\ SigueSiActiva("interr", Caso(tokens))
    /\ UNCHANGED << semVars, planVars, schedVars, recVars, conVars, caido,
                    tokens >>

InterrReanuda ==
    /\ SaleDePausa("interr", Caso(tokens))
    /\ UNCHANGED << sem_dispatch, sem_interrupcion, sem_multiprogramacion_ready,
                    sem_hay_encolado_VRR, sem_IO_ejecucion, planVars,
                    schedVars, recVars, conVars, caido, tokens >>

-----------------------------------------------------------------------------
(* The process ends: FINALIZADO, OUT_OF_MEMORY, INTERRUPTED_BY_USER, an IO  *)
(* on an interface that is not there, an unknown resource.                  *)

InterrAvisaMemoria ==
    /\ En("interr", "fin_term")
    /\ pedidos' =
          Append(pedidos, Pedido("MEMORY_PROCESS_TERM", proceso_ejecutando))
    /\ Sigue("interr", "lib_dicc")
    /\ UNCHANGED << semVars, planVars, schedVars, recVars, confirmaciones,
                    en_memoria, cpuVars, ioVars, caido, tokens >>

InterrLibera ==
    /\ LiberarRecursosDeProceso("interr", proceso_ejecutando, "fin_saca")
    /\ UNCHANGED << conVars, tokens >>

\* proceso_exec_a_exit, in two critical sections.
InterrFinSaca ==
    /\ En("interr", "fin_saca")
    /\ SacaDeExec("interr")
    /\ Sigue("interr", "fin_pone")
    /\ UNCHANGED << semVars, planVars, recVars, conVars, caido, tokens >>

\* Mutant: sem_dispatch is posted here on every path.
FinPoneSiempre ==
    /\ En("interr", "fin_pone")
    /\ Pone("interr", "exit", "EXIT")
    /\ sem_dispatch' = sem_dispatch + 1
    /\ Sigue("interr", "aum_mira")
    /\ UNCHANGED << sem_interrupcion, sem_multiprogramacion_ready,
                    sem_hay_encolado_VRR, sem_IO_ejecucion, sem_comando,
                    planVars, recVars, conVars, caido, tokens >>

\* A process that ended by itself hands the CPU over before its
\* multiprogramming token; the other cases do it the other way round.
InterrFinPone ==
    /\ En("interr", "fin_pone")
    /\ Pone("interr", "exit", "EXIT")
    /\ sem_dispatch' = sem_dispatch + (IF tokens.op \in OpsDeFin THEN 1 ELSE 0)
    /\ Sigue("interr", "aum_mira")
    /\ UNCHANGED << sem_interrupcion, sem_multiprogramacion_ready,
                    sem_hay_encolado_VRR, sem_IO_ejecucion, sem_comando,
                    planVars, recVars, conVars, caido, tokens >>

InterrAumentaMira ==
    /\ En("interr", "aum_mira")
    /\ DevuelveCupo
    /\ Sigue("interr", "aum_resta")
    /\ UNCHANGED << sem_dispatch, sem_interrupcion, sem_hay_encolado_VRR,
                    sem_IO_ejecucion, sem_comando, planVars, schedVars,
                    recVars, conVars, caido, tokens >>

InterrAumentaResta ==
    /\ En("interr", "aum_resta")
    /\ cantidad_procesos_ejecutandose' = cantidad_procesos_ejecutandose - 1
    /\ sem_dispatch' = sem_dispatch + (IF tokens.op = "IO" THEN 1 ELSE 0)
    /\ \/ /\ tokens.op \in OpsDeFin \cup {"IO"}
          /\ Sigue("interr", "espera")
          /\ tokens' = SinTokens
       \/ /\ tokens.op \in {"WAIT", "SIGNAL"}
          /\ Sigue("interr", "invalido")
          /\ UNCHANGED tokens
    /\ UNCHANGED << sem_interrupcion, sem_multiprogramacion_ready,
                    sem_hay_encolado_VRR, sem_IO_ejecucion, sem_comando,
                    estado_planificacion_activa, grado_multiprogramacion,
                    tiempoVRR, schedVars, recVars, conVars, caido >>

\* After an unknown resource the handler goes on and asks recursos for the
\* instances of a name that is not there: a NULL it dereferences.
InterrRecursoInvalido ==
    /\ En("interr", "invalido")
    /\ caido' = TRUE
    /\ UNCHANGED << semVars, planVars, schedVars, recVars, conVars, pc, tokens >>

-----------------------------------------------------------------------------
(* DESALOJO_QUANTUM: in VRR the dispatcher's semaphore is posted before the *)
(* process is in READY; without sem_dispatch it has no effect yet.          *)

InterrDesalojaSaca ==
    /\ En("interr", "desaloja")
    /\ SacaDeExec("interr")
    /\ AvisaEncolado
    /\ Sigue("interr", "des_pone")
    /\ UNCHANGED << sem_dispatch, sem_interrupcion, sem_multiprogramacion_ready,
                    sem_IO_ejecucion, sem_comando, planVars, recVars, conVars,
                    caido, tokens >>

\* Mutant: the CPU is not handed over.
DesalojaSinPost ==
    /\ En("interr", "des_pone")
    /\ Pone("interr", "ready", "READY")
    /\ Sigue("interr", "espera")
    /\ tokens' = SinTokens
    /\ UNCHANGED << semVars, planVars, recVars, conVars, caido >>

InterrDesalojaPone ==
    /\ En("interr", "des_pone")
    /\ Pone("interr", "ready", "READY")
    /\ sem_dispatch' = sem_dispatch + 1
    /\ Sigue("interr", "espera")
    /\ tokens' = SinTokens
    /\ UNCHANGED << sem_interrupcion, sem_multiprogramacion_ready,
                    sem_hay_encolado_VRR, sem_IO_ejecucion, sem_comando,
                    planVars, recVars, conVars, caido >>

-----------------------------------------------------------------------------
(* IO: Ninguno stands for a name no interface has, or an instruction that  *)
(* verificar_instruccion refuses.                                          *)

\* Mutant: the interface is not looked up.
IOSinVerificar ==
    /\ En("interr", "io")
    /\ Sigue("interr", "agrega")
    /\ UNCHANGED << semVars, planVars, schedVars, recVars, conVars, caido,
                    tokens >>

InterrIO ==
    /\ En("interr", "io")
    /\ Sigue("interr", IF tokens.arg \in interfaces THEN "agrega" ELSE "fin_term")
    /\ UNCHANGED << semVars, planVars, schedVars, recVars, conVars, caido,
                    tokens >>

InterrAgregaInstruccion ==
    /\ En("interr", "agrega")
    /\ \/ /\ tokens.arg \in interfaces
          /\ instrucciones' = instrucciones \cup {proceso_ejecutando}
          /\ Sigue("interr", "bloq_saca")
          /\ UNCHANGED caido
       \/ /\ tokens.arg \notin interfaces     \* gone since it was looked up
          /\ caido' = TRUE
          /\ UNCHANGED << instrucciones, pc >>
    /\ UNCHANGED << semVars, planVars, schedVars, recVars, memVars, cpuVars,
                    interfaces, tokens >>

\* The handler reads tokens[1] of the IO of process p.  It is the pointer it
\* stored in instrucciones: the thread of an interface that p used before may
\* have freed it (kernel_interface_handler.c:224).  Those of a WAIT are only
\* its own.
LeeNombre(p) ==
    IF tokens.op = "IO" THEN LeeInstruccion(p) ELSE UNCHANGED caido

\* proceso_exec_a_blocked, for IO and for WAIT: the argument and the pop from
\* EXEC, the list of the name (created if it is not there), the push to that
\* list.
InterrBloqueaSaca ==
    /\ En("interr", "bloq_saca")
    /\ LeeNombre(proceso_ejecutando)
    /\ SacaDeExec("interr")
    /\ Sigue("interr", "bloq_busca")
    /\ UNCHANGED << semVars, planVars, recVars, conVars, tokens >>

InterrBloqueaBusca ==
    /\ En("interr", "bloq_busca")
    /\ LeeNombre(mano["interr"])
    /\ claves' = claves \cup {tokens.arg}
    /\ Sigue("interr", "bloq_pone")
    /\ UNCHANGED << semVars, planVars, colas, proceso_ejecutando, estado, mano,
                    huerfana, recVars, conVars, tokens >>

\* Both halves hold mutex_blocked, which an interface that disconnects does
\* not take: it may remove the list in between.  The sem_post is then on
\* freed memory.
InterrBloqueaPone ==
    /\ En("interr", "bloq_pone")
    /\ IF tokens.arg \in claves
       THEN Pone("interr", tokens.arg, "BLOCKED")
       ELSE PoneEnHuerfana("interr", tokens.arg, "BLOCKED")
    /\ caido' \in IF tokens.op = "IO" /\ tokens.arg \notin interfaces
                  THEN BOOLEAN ELSE {FALSE}
    /\ sem_IO_ejecucion' = IF tokens.op = "IO"
                           THEN [sem_IO_ejecucion EXCEPT ![tokens.arg] = @ + 1]
                           ELSE sem_IO_ejecucion
    /\ sem_dispatch' = sem_dispatch + 1
    /\ Sigue("interr", "espera")
    /\ tokens' = SinTokens
    /\ UNCHANGED << sem_interrupcion, sem_multiprogramacion_ready,
                    sem_hay_encolado_VRR, sem_comando, planVars, recVars,
                    conVars >>

-----------------------------------------------------------------------------
(* WAIT and SIGNAL of a known resource.                                    *)

\* The process that signals must have a dictionary: asignar_recurso_a_proceso
\* creates it, liberar_recurso_de_proceso dereferences a NULL.
InterrAsigna ==
    /\ En("interr", "asigna")
    /\ LET p == proceso_ejecutando
           r == tokens.arg
       IN  \/ /\ tokens.op = "WAIT"
              /\ AsignarRecursoAProceso(p, r)
              /\ Sigue("interr", "carga")
              /\ UNCHANGED caido
           \/ /\ tokens.op = "SIGNAL" /\ p \in con_recursos
              /\ LiberarRecursoDeProceso(p, r)
              /\ Sigue("interr", "carga")
              /\ UNCHANGED caido
           \/ /\ tokens.op = "SIGNAL" /\ p \notin con_recursos
              /\ caido' = TRUE
              /\ UNCHANGED << recVars, pc >>
    /\ UNCHANGED << semVars, planVars, schedVars, conVars, tokens >>

InterrCarga ==
    /\ En("interr", "carga")
    /\ CargaRecurso("interr", tokens.arg)
    /\ Sigue("interr", "guarda")
    /\ UNCHANGED << semVars, planVars, schedVars, conVars, caido, tokens >>

InterrGuarda ==
    /\ En("interr", "guarda")
    /\ GuardaRecurso("interr", tokens.arg, IF tokens.op = "WAIT" THEN -1 ELSE 1)
    /\ Sigue("interr", "decide")
    /\ UNCHANGED << semVars, planVars, schedVars, conVars, caido, tokens >>

\* Mutant: sem_interrupcion is not posted.
VuelveSinPost ==
    /\ enviados' = Append(enviados, proceso_ejecutando)
    /\ Sigue("interr", "espera")
    /\ tokens' = SinTokens
    /\ UNCHANGED << sem_dispatch, sem_interrupcion, sem_multiprogramacion_ready,
                    sem_IO_ejecucion, sem_comando, planVars, recVars, memVars,
                    ioVars, recibidos, ordenes, presupuesto, caido >>

\* send_pcb of the process that goes on, and sem_interrupcion for its next
\* context.
VuelveALaCPU ==
    /\ enviados' = Append(enviados, proceso_ejecutando)
    /\ sem_interrupcion' = sem_interrupcion + 1
    /\ Sigue("interr", "espera")
    /\ tokens' = SinTokens
    /\ UNCHANGED << sem_dispatch, sem_multiprogramacion_ready, sem_IO_ejecucion,
                    sem_comando, planVars, recVars, memVars, ioVars, recibidos,
                    ordenes, presupuesto, caido >>

InterrWaitBloquea ==
    /\ En("interr", "decide")
    /\ tokens.op = "WAIT"
    /\ recursos[tokens.arg] < 0
    /\ Sigue("interr", "bloq_saca")
    /\ UNCHANGED << semVars, planVars, schedVars, recVars, conVars, caido,
                    tokens >>

\* Mutant: off by one in the test of the instances.
SigueConUnoMenos ==
    /\ En("interr", "decide")
    /\ \/ tokens.op = "WAIT" /\ recursos[tokens.arg] >= -1
       \/ tokens.op = "SIGNAL" /\ recursos[tokens.arg] < 0
    /\ VuelveALaCPU
    /\ UNCHANGED << sem_hay_encolado_VRR, schedVars >>

InterrSigueEnCPU ==
    /\ En("interr", "decide")
    /\ \/ tokens.op = "WAIT" /\ recursos[tokens.arg] >= 0
       \/ tokens.op = "SIGNAL" /\ recursos[tokens.arg] < 0
    /\ VuelveALaCPU
    /\ UNCHANGED << sem_hay_encolado_VRR, schedVars >>

InterrSignalDespierta ==
    /\ En("interr", "decide")
    /\ tokens.op = "SIGNAL"
    /\ recursos[tokens.arg] >= 0
    /\ Sigue("interr", "sig_saca")
    /\ UNCHANGED << semVars, planVars, schedVars, recVars, conVars, caido,
                    tokens >>

\* cola_blocked_a_ready of the resource: the head, if there is one.
InterrSignalSaca ==
    /\ En("interr", "sig_saca")
    /\ Saca("interr", tokens.arg)
    /\ Sigue("interr", "sig_pone")
    /\ UNCHANGED << semVars, planVars, recVars, conVars, caido, tokens >>

\* sem_hay_encolado_VRR is posted whether or not someone was woken.
InterrSignalNadie ==
    /\ En("interr", "sig_saca")
    /\ Libre("interr", tokens.arg)
    /\ colas[tokens.arg] = << >>
    /\ AvisaEncolado
    /\ VuelveALaCPU
    /\ UNCHANGED schedVars

InterrSignalPone ==
    /\ En("interr", "sig_pone")
    /\ Pone("interr", "ready", "READY")
    /\ AvisaEncolado
    /\ VuelveALaCPU

Interr ==
    \/ InterrRecibe \/ InterrActiva \/ InterrReanuda
    \/ InterrAvisaMemoria \/ InterrLibera \/ InterrFinSaca \/ InterrFinPone
    \/ InterrAumentaMira \/ InterrAumentaResta \/ InterrRecursoInvalido
    \/ InterrDesalojaSaca \/ InterrDesalojaPone
    \/ InterrIO \/ InterrAgregaInstruccion
    \/ InterrBloqueaSaca \/ InterrBloqueaBusca \/ InterrBloqueaPone
    \/ InterrAsigna \/ InterrCarga \/ InterrGuarda
    \/ InterrWaitBloquea \/ InterrSigueEnCPU \/ InterrSignalDespierta
    \/ InterrSignalSaca \/ InterrSignalNadie \/ InterrSignalPone
=============================================================================
