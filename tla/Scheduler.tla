------------------------------ MODULE Scheduler ------------------------------
(***************************************************************************)
(* The process queues: kernel/src/scheduler.c.  Every move of a process is *)
(* two critical sections in the code: the pcb is popped from one queue      *)
(* under that queue's mutex into a local variable of the thread, and pushed *)
(* to the next under another mutex.  "mano" is that local variable: while   *)
(* mano[h] # Nadie the process is in no queue at all.                       *)
(***************************************************************************)
EXTENDS Semaforos, SequencesExt

VARIABLES
    colas,               \* cola_new, cola_ready, cola_aux_blocked, cola_exit
                         \* and the lists of colas_blocked by name
    huerfana,            \* the list an interface that disconnected took out
                         \* of colas_blocked
    claves,              \* the keys colas_blocked has
    proceso_ejecutando,
    estado,              \* pcb->estado of each process
    mano                 \* the pcb a thread popped and has not pushed yet

schedVars == << colas, huerfana, claves, proceso_ejecutando, estado, mano >>

Bloqueados == Recurso \cup Interfaz
Colas == {"new", "ready", "aux", "exit"} \cup Bloqueados
Estados == {"NEW", "READY", "EXEC", "BLOCKED", "EXIT"}

InitScheduler ==
    /\ colas = [q \in Colas |-> << >>]
    /\ huerfana = [i \in Interfaz |-> << >>]
    /\ claves = {}
    /\ proceso_ejecutando = Nadie
    /\ estado = [p \in Pids |-> "NEW"]
    /\ mano = [h \in Hilos |-> Nadie]

\* The mutex of queue q is free for thread h.  Two sections of the code are
\* longer than one action: FINALIZAR_PROCESO keeps the mutex of the queue it
\* looks at until the process it found there is in EXIT, and the handler keeps
\* mutex_blocked from the look-up of a list to the push.
Libre(h, q) ==
    /\ h # "consola" =>
          pc["consola"] # CASE q = "new" -> "exit_new"
                            [] q = "ready" -> "exit_ready"
                            [] q = "aux" -> "exit_aux"
                            [] q = "exit" -> "ninguna"
                            [] OTHER -> "exit_blocked"
    /\ h # "interr" /\ q \in Bloqueados => pc["interr"] # "bloq_pone"

\* Mutant: the process is read and not removed.
SacaSinQuitar(h, q) ==
    /\ Libre(h, q)
    /\ colas[q] # << >>
    /\ mano' = [mano EXCEPT ![h] = Head(colas[q])]
    /\ UNCHANGED << colas, huerfana, claves, proceso_ejecutando, estado >>

\* Mutant: the last of the queue is taken.
SacaUltimo(h, q) ==
    /\ Libre(h, q)
    /\ colas[q] # << >>
    /\ colas' = [colas EXCEPT ![q] = Front(@)]
    /\ mano' = [mano EXCEPT ![h] = Last(colas[q])]
    /\ UNCHANGED << huerfana, claves, proceso_ejecutando, estado >>

\* list_pop by thread h, the first half of a move.
Saca(h, q) ==
    /\ Libre(h, q)
    /\ colas[q] # << >>
    /\ colas' = [colas EXCEPT ![q] = Tail(@)]
    /\ mano' = [mano EXCEPT ![h] = Head(colas[q])]
    /\ UNCHANGED << huerfana, claves, proceso_ejecutando, estado >>

\* list_push by thread h with the new state of the process: the second half.
Pone(h, q, e) ==
    /\ Libre(h, q)
    /\ colas' = [colas EXCEPT ![q] = Append(@, mano[h])]
    /\ estado' = [estado EXCEPT ![mano[h]] = e]
    /\ mano' = [mano EXCEPT ![h] = Nadie]
    /\ UNCHANGED << huerfana, claves, proceso_ejecutando >>

\* The same push, to a list that is no longer in colas_blocked.
PoneEnHuerfana(h, i, e) ==
    /\ huerfana' = [huerfana EXCEPT ![i] = Append(@, mano[h])]
    /\ estado' = [estado EXCEPT ![mano[h]] = e]
    /\ mano' = [mano EXCEPT ![h] = Nadie]
    /\ UNCHANGED << colas, claves, proceso_ejecutando >>

\* Mutants: EXEC is cleared before it is read, or not at all.
SacaDeExecTarde(h) ==
    /\ proceso_ejecutando' = Nadie
    /\ mano' = [mano EXCEPT ![h] = proceso_ejecutando']
    /\ UNCHANGED << colas, huerfana, claves, estado >>

SacaDeExecSinNull(h) ==
    /\ mano' = [mano EXCEPT ![h] = proceso_ejecutando]
    /\ UNCHANGED << colas, huerfana, claves, proceso_ejecutando, estado >>

\* The process in EXEC is taken from the CPU, under mutex_exec.
SacaDeExec(h) ==
    /\ mano' = [mano EXCEPT ![h] = proceso_ejecutando]
    /\ proceso_ejecutando' = Nadie
    /\ UNCHANGED << colas, huerfana, claves, estado >>

\* A process goes to EXEC, under mutex_exec.
PoneEnExec(h) ==
    /\ proceso_ejecutando' = mano[h]
    /\ estado' = [estado EXCEPT ![mano[h]] = "EXEC"]
    /\ mano' = [mano EXCEPT ![h] = Nadie]
    /\ UNCHANGED << colas, huerfana, claves >>
=============================================================================
