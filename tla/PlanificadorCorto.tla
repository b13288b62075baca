-------------------------- MODULE PlanificadorCorto --------------------------
(***************************************************************************)
(* The dispatcher: kernel/src/planificador_corto_plazo.c.  With            *)
(* sem_dispatch in its hands it takes a process from READY (in VRR from the *)
(* priority queue cola_aux_blocked, if it saw one there) and sends it to    *)
(* the CPU.                                                                *)
(***************************************************************************)
EXTENDS Conexiones

Entrada == IF VRR_modo THEN "elige" ELSE "saca_ready"

\* In VRR it waits for sem_hay_encolado_VRR with sem_dispatch already taken;
\* nobody else waits on either.
CortoToma ==
    /\ En("corto", "dispatch")
    /\ sem_dispatch > 0
    /\ VRR_modo => sem_hay_encolado_VRR > 0
    /\ sem_dispatch' = sem_dispatch - 1
    /\ sem_hay_encolado_VRR' =
          sem_hay_encolado_VRR - (IF VRR_modo THEN 1 ELSE 0)
    /\ SigueSiActiva("corto", Entrada)
    /\ UNCHANGED << sem_interrupcion, sem_multiprogramacion_ready,
                    sem_IO_ejecucion, sem_comando, planVars, schedVars,
                    recVars, conVars, caido >>

CortoReanuda ==
    /\ SaleDePausa("corto", Entrada)
    /\ UNCHANGED << sem_dispatch, sem_interrupcion, sem_multiprogramacion_ready,
                    sem_hay_encolado_VRR, sem_IO_ejecucion, planVars,
                    schedVars, recVars, conVars, caido >>

\* The look at cola_aux_blocked is one critical section, the pop another.
CortoElige ==
    /\ En("corto", "elige")
    /\ Libre("corto", "aux")
    /\ Sigue("corto", IF colas["aux"] # << >> THEN "saca_aux" ELSE "saca_ready")
    /\ UNCHANGED << semVars, planVars, schedVars, recVars, conVars, caido >>

\* cola_aux_blocked_a_exec and cola_ready_a_exec: both wait on their
\* condition in a "while", so that they go on once the queue has someone.
CortoSacaAux ==
    /\ En("corto", "saca_aux")
    /\ Saca("corto", "aux")
    /\ Sigue("corto", "pone_exec")
    /\ UNCHANGED << semVars, planVars, recVars, conVars, caido >>

CortoSacaReady ==
    /\ En("corto", "saca_ready")
    /\ Saca("corto", "ready")
    /\ Sigue("corto", "pone_exec")
    /\ UNCHANGED << semVars, planVars, recVars, conVars, caido >>

\* The process is put in EXEC; then send_pcb, the quantum thread is created
\* (RR, VRR), in VRR the time starts to count, and sem_interrupcion is posted.
CortoDespacha ==
    /\ En("corto", "pone_exec")
    /\ PoneEnExec("corto")
    /\ enviados' = Append(enviados, proceso_ejecutando')
    /\ sem_interrupcion' = sem_interrupcion + 1
    /\ tiempoVRR' = VRR_modo
    /\ Sigue("corto", "dispatch")
    /\ UNCHANGED << sem_dispatch, sem_multiprogramacion_ready,
                    sem_hay_encolado_VRR, sem_IO_ejecucion, sem_comando,
                    estado_planificacion_activa,
                    cantidad_procesos_ejecutandose, grado_multiprogramacion,
                    recVars, memVars, ioVars, recibidos, ordenes, presupuesto,
                    caido >>

Corto ==
    \/ CortoToma \/ CortoReanuda \/ CortoElige
    \/ CortoSacaAux \/ CortoSacaReady \/ CortoDespacha
=============================================================================
