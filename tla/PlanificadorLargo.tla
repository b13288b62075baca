-------------------------- MODULE PlanificadorLargo --------------------------
(***************************************************************************)
(* The long term scheduler: kernel/src/planificador_largo_plazo.c.  One    *)
(* thread takes a multiprogramming token, waits for the memory's            *)
(* confirmation and moves the head of NEW to READY.                        *)
(***************************************************************************)
EXTENDS Conexiones

\* Mutant: nobody waits for the memory.
LargoNoConfirma ==
    /\ En("largo", "multi")
    /\ sem_multiprogramacion_ready > 0
    /\ sem_multiprogramacion_ready' = sem_multiprogramacion_ready - 1
    /\ SigueSiActiva("largo", "saca_new")
    /\ UNCHANGED << sem_dispatch, sem_interrupcion, sem_hay_encolado_VRR,
                    sem_IO_ejecucion, sem_comando, planVars, schedVars,
                    recVars, conVars, caido >>

LargoTomaCupo ==
    /\ En("largo", "multi")
    /\ sem_multiprogramacion_ready > 0
    /\ sem_multiprogramacion_ready' = sem_multiprogramacion_ready - 1
    /\ SigueSiActiva("largo", "conf")
    /\ UNCHANGED << sem_dispatch, sem_interrupcion, sem_hay_encolado_VRR,
                    sem_IO_ejecucion, sem_comando, planVars, schedVars,
                    recVars, conVars, caido >>

LargoReanuda ==
    /\ SaleDePausa("largo", "conf")
    /\ UNCHANGED << sem_dispatch, sem_interrupcion, sem_multiprogramacion_ready,
                    sem_hay_encolado_VRR, sem_IO_ejecucion, planVars,
                    schedVars, recVars, conVars, caido >>

\* esperar_confirmacion_memoria: an invalid path ends the kernel.
LargoConfirma ==
    /\ En("largo", "conf")
    /\ confirmaciones # << >>
    /\ confirmaciones' = Tail(confirmaciones)
    /\ \/ /\ Head(confirmaciones) = "MEMORY_INVALID_PATH"
          /\ caido' = TRUE
          /\ UNCHANGED pc
       \/ /\ Head(confirmaciones) # "MEMORY_INVALID_PATH"
          /\ Sigue("largo", "saca_new")
          /\ UNCHANGED caido
    /\ UNCHANGED << semVars, planVars, schedVars, recVars, cpuVars, ioVars,
                    pedidos, en_memoria >>

\* cola_new_a_ready tests for an empty queue with an "if": it waits for one
\* signal of cond_new, which proceso_a_cola_new sends.
LargoEsperaNew ==
    /\ En("largo", "saca_new")
    /\ Libre("largo", "new")
    /\ colas["new"] = << >>
    /\ Sigue("largo", "cond_new")
    /\ UNCHANGED << semVars, planVars, schedVars, recVars, conVars, caido >>

LargoSaca ==
    /\ pc["largo"] \in {"saca_new", "despierta"}
    /\ Saca("largo", "new")
    /\ Sigue("largo", "pone_ready")
    /\ UNCHANGED << semVars, planVars, recVars, conVars, caido >>

\* Woken up, it pops without testing again: list_pop of an empty list is
\* NULL, and the next line writes its estado.
LargoSacaNada ==
    /\ En("largo", "despierta")
    /\ Libre("largo", "new")
    /\ colas["new"] = << >>
    /\ caido' = TRUE
    /\ UNCHANGED << semVars, planVars, schedVars, recVars, conVars, pc >>

LargoPone ==
    /\ En("largo", "pone_ready")
    /\ Pone("largo", "ready", "READY")
    /\ Sigue("largo", "cuenta")
    /\ UNCHANGED << semVars, planVars, recVars, conVars, caido >>

LargoCuenta ==
    /\ En("largo", "cuenta")
    /\ cantidad_procesos_ejecutandose' = cantidad_procesos_ejecutandose + 1
    /\ AvisaEncolado
    /\ Sigue("largo", "multi")
    /\ UNCHANGED << sem_dispatch, sem_interrupcion, sem_multiprogramacion_ready,
                    sem_IO_ejecucion, sem_comando, estado_planificacion_activa,
                    grado_multiprogramacion, tiempoVRR, schedVars, recVars,
                    conVars, caido >>

Largo ==
    \/ LargoTomaCupo \/ LargoReanuda \/ LargoConfirma \/ LargoEsperaNew
    \/ LargoSaca \/ LargoSacaNada \/ LargoPone \/ LargoCuenta
=============================================================================
