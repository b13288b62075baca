------------------------------ MODULE Diagrama ------------------------------
(***************************************************************************)
(* What the kernel promises, with no threads, queues or semaphores: the    *)
(* five-state life of a process.  Processes are created in the order of     *)
(* their pids and admitted in that order while fewer than Grado of them are *)
(* active, one runs at a time, and what is in EXIT stays there.             *)
(***************************************************************************)
EXTENDS Integers, FiniteSets

CONSTANTS Procesos,      \* 1 .. n
          Grado          \* degree of multiprogramming

VARIABLE lugar           \* the state of each process

Vidas == {"inexistente", "NEW", "READY", "EXEC", "BLOCKED", "EXIT"}
Activos == { p \in Procesos : lugar[p] \in {"READY", "EXEC", "BLOCKED"} }

DiagramaInit == lugar = [p \in Procesos |-> "inexistente"]

Mueve(p, a, b) ==
    /\ lugar[p] = a
    /\ lugar' = [lugar EXCEPT ![p] = b]

\* Nobody before p is still in state a.
EsElPrimero(p, a) == \A q \in Procesos : q < p => lugar[q] # a

Crear(p) == EsElPrimero(p, "inexistente") /\ Mueve(p, "inexistente", "NEW")

Admitir(p) ==
    /\ Cardinality(Activos) < Grado
    /\ EsElPrimero(p, "NEW")
    /\ Mueve(p, "NEW", "READY")

Despachar(p) ==
    /\ \A q \in Procesos : lugar[q] # "EXEC"
    /\ Mueve(p, "READY", "EXEC")

Desalojar(p) == Mueve(p, "EXEC", "READY")
Bloquear(p) == Mueve(p, "EXEC", "BLOCKED")
Despertar(p) == Mueve(p, "BLOCKED", "READY")
Terminar(p) == Mueve(p, "EXEC", "EXIT")

\* The interface the process was waiting for failed.
Abortar(p) == Mueve(p, "BLOCKED", "EXIT")

DiagramaNext ==
    \E p \in Procesos :
        \/ Crear(p) \/ Admitir(p) \/ Despachar(p)
        \/ Desalojar(p) \/ Bloquear(p) \/ Despertar(p)
        \/ Terminar(p) \/ Abortar(p)

DiagramaSpec == DiagramaInit /\ [][DiagramaNext]_lugar
=============================================================================
