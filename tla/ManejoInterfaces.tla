-------------------------- MODULE ManejoInterfaces --------------------------
(***************************************************************************)
(* The threads that serve the connected interfaces, one each:              *)
(* kernel/src/kernel_interface_handler.c.  The thread of an interface takes *)
(* the first process blocked on it, has its instruction executed and wakes  *)
(* the first blocked process; when the interface fails it ends every        *)
(* process blocked on it.                                                  *)
(***************************************************************************)
EXTENDS Conexiones

CONSTANT Desconexiones   \* bound: the interfaces that may fail

ASSUME InterfacesQueFallan == Desconexiones \subseteq Interfaz

VARIABLE pcb_io          \* the thread's local pcb; the next one to end, after
                         \* the interface failed

\* Handshake, name and registration (each interface connects once).
InterfazConecta(i) ==
    /\ En(i, "desconectada")
    /\ interfaces' = interfaces \cup {i}
    /\ Sigue(i, "espera")
    /\ UNCHANGED << semVars, planVars, schedVars, recVars, memVars, cpuVars,
                    instrucciones, caido, pcb_io >>

\* The first of the blocked queue, without taking it out of there; an empty
\* queue gives a NULL pcb.
InterfazToma(i) ==
    /\ En(i, "espera")
    /\ sem_IO_ejecucion[i] > 0
    /\ Libre(i, i)
    /\ sem_IO_ejecucion' = [sem_IO_ejecucion EXCEPT ![i] = @ - 1]
    /\ \/ /\ colas[i] # << >>
          /\ pcb_io' = [pcb_io EXCEPT ![i] = Head(colas[i])]
          /\ Sigue(i, "instr")
          /\ UNCHANGED caido
       \/ /\ colas[i] = << >>
          /\ caido' = TRUE
          /\ UNCHANGED << pcb_io, pc >>
    /\ UNCHANGED << sem_dispatch, sem_interrupcion, sem_multiprogramacion_ready,
                    sem_hay_encolado_VRR, sem_comando, planVars, schedVars,
                    recVars, conVars >>

\* The tokens of the instruction are looked up: none is a NULL, which
\* ejecutar_IO reads.
InterfazEjecuta(i) ==
    /\ En(i, "instr")
    /\ \/ /\ pcb_io[i] \in instrucciones
          /\ Sigue(i, "io")
          /\ UNCHANGED caido
       \/ /\ pcb_io[i] \notin instrucciones
          /\ caido' = TRUE
          /\ UNCHANGED pc
    /\ UNCHANGED << semVars, planVars, schedVars, recVars, conVars, pcb_io >>

\* ejecutar_IO reads the tokens with no lock, sends the order and gets OK for
\* an answer; then estado_planificacion_activa is read.
InterfazResponde(i) ==
    /\ En(i, "io")
    /\ LeeInstruccion(pcb_io[i])
    /\ SigueSiActiva(i, "saca")
    /\ UNCHANGED << semVars, planVars, schedVars, recVars, conVars, pcb_io >>

InterfazReanuda(i) ==
    /\ SaleDePausa(i, "saca")
    /\ UNCHANGED << sem_dispatch, sem_interrupcion, sem_multiprogramacion_ready,
                    sem_hay_encolado_VRR, sem_IO_ejecucion, planVars,
                    schedVars, recVars, conVars, caido, pcb_io >>

\* cola_blocked_a_aux_blocked in VRR, cola_blocked_a_ready otherwise: the
\* process that is first now.
InterfazSaca(i) ==
    /\ En(i, "saca")
    /\ Saca(i, i)
    /\ Sigue(i, "pone")
    /\ UNCHANGED << semVars, planVars, recVars, conVars, caido, pcb_io >>

InterfazSacaNadie(i) ==
    /\ En(i, "saca")
    /\ Libre(i, i)
    /\ colas[i] = << >>
    /\ AvisaEncolado
    /\ Sigue(i, "borra")
    /\ UNCHANGED << sem_dispatch, sem_interrupcion, sem_multiprogramacion_ready,
                    sem_IO_ejecucion, sem_comando, planVars, schedVars,
                    recVars, conVars, caido, pcb_io >>

InterfazPone(i) ==
    /\ En(i, "pone")
    /\ Pone(i, IF VRR_modo THEN "aux" ELSE "ready", "READY")
    /\ AvisaEncolado
    /\ Sigue(i, "borra")
    /\ UNCHANGED << sem_dispatch, sem_interrupcion, sem_multiprogramacion_ready,
                    sem_IO_ejecucion, sem_comando, planVars, recVars, conVars,
                    caido, pcb_io >>

\* The instruction is removed by pid, after the process was woken: its tokens
\* are freed, whoever still reads them.
InterfazBorra(i) ==
    /\ En(i, "borra")
    /\ instrucciones' = instrucciones \ {pcb_io[i]}
    /\ pcb_io' = [pcb_io EXCEPT ![i] = Nadie]
    /\ Sigue(i, "espera")
    /\ UNCHANGED << semVars, planVars, schedVars, recVars, memVars, cpuVars,
                    interfaces, caido >>

-----------------------------------------------------------------------------
(* The interface failed: the thread takes its name and its blocked queue   *)
(* out of the dictionaries, ends each process of that list and returns.     *)

InterfazFalla(i) ==
    /\ En(i, "io")
    /\ i \in Desconexiones
    /\ LeeInstruccion(pcb_io[i])
    /\ interfaces' = interfaces \ {i}
    /\ Sigue(i, "quita_cola")
    /\ UNCHANGED << semVars, planVars, schedVars, recVars, memVars, cpuVars,
                    instrucciones, pcb_io >>

Primero(s) == IF s = << >> THEN Nadie ELSE Head(s)

\* dictionary_remove of the queue, under the mutex of another dictionary.
InterfazQuitaCola(i) ==
    /\ En(i, "quita_cola")
    /\ huerfana' = [huerfana EXCEPT ![i] = colas[i]]
    /\ colas' = [colas EXCEPT ![i] = << >>]
    /\ claves' = claves \ {i}
    /\ pcb_io' = [pcb_io EXCEPT ![i] = Primero(colas[i])]
    /\ Sigue(i, "itera")
    /\ UNCHANGED << semVars, planVars, proceso_ejecutando, estado, mano,
                    recVars, conVars, caido >>

\* list_iterate reads the next element before it works on this one: a process
\* pushed while it works on the last one is not seen.
InterfazItera(i) ==
    /\ En(i, "itera")
    /\ pcb_io[i] # Nadie
    /\ pcb_io' = [pcb_io EXCEPT ![i] = Primero(Tail(huerfana[i]))]
    /\ instrucciones' = instrucciones \ {Head(huerfana[i])}
    /\ Sigue(i, "lib_dicc")
    /\ UNCHANGED << semVars, planVars, schedVars, recVars, memVars, cpuVars,
                    interfaces, caido >>

\* liberar_proceso_bloqueado gives the resources back and tells the memory,
\* and never calls aumentar_grado_multiprogramacion.
InterfazLibera(i) ==
    /\ LiberarRecursosDeProceso(i, Primero(huerfana[i]), "avisa")
    /\ UNCHANGED << conVars, pcb_io >>

InterfazAvisaMemoria(i) ==
    /\ En(i, "avisa")
    /\ pedidos' =
          Append(pedidos, Pedido("MEMORY_PROCESS_TERM", Head(huerfana[i])))
    /\ Sigue(i, "exit")
    /\ UNCHANGED << semVars, planVars, schedVars, recVars, confirmaciones,
                    en_memoria, cpuVars, ioVars, caido, pcb_io >>

InterfazAExit(i) ==
    /\ En(i, "exit")
    /\ LET p == Head(huerfana[i])
       IN  /\ colas' = [colas EXCEPT !["exit"] = Append(@, p)]
           /\ estado' = [estado EXCEPT ![p] = "EXIT"]
    /\ huerfana' = [huerfana EXCEPT ![i] = Tail(@)]
    /\ Sigue(i, "itera")
    /\ UNCHANGED << semVars, planVars, claves, proceso_ejecutando, mano,
                    recVars, conVars, caido, pcb_io >>

InterfazIteraFin(i) ==
    /\ En(i, "itera")
    /\ pcb_io[i] = Nadie
    /\ Sigue(i, "terminada")
    /\ UNCHANGED << semVars, planVars, schedVars, recVars, conVars, caido,
                    pcb_io >>

Interf(i) ==
    \/ InterfazConecta(i) \/ InterfazToma(i) \/ InterfazEjecuta(i)
    \/ InterfazResponde(i) \/ InterfazReanuda(i)
    \/ InterfazSaca(i) \/ InterfazSacaNadie(i) \/ InterfazPone(i)
    \/ InterfazBorra(i)
    \/ InterfazFalla(i) \/ InterfazQuitaCola(i) \/ InterfazItera(i)
    \/ InterfazLibera(i) \/ InterfazAvisaMemoria(i) \/ InterfazAExit(i)
    \/ InterfazIteraFin(i)
=============================================================================
